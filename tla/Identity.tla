------------------------------ MODULE Identity ------------------------------
(***************************************************************************)
(* Who may do what: users with a password or of a tenant's directory, the  *)
(* tokens they are given, and the administrators that make tenants, users  *)
(* and the directories' configurations.  A token says what its user was    *)
(* when it was given and is believed until it expires; requests run in     *)
(* threads, so a row can change between a request's look at it and its     *)
(* write.  Passwords, keys and signatures are sound.                       *)
(***************************************************************************)
EXTENDS Naturals, Sequences, FiniteSets

CONSTANTS
    IdThreads,
    IdTenants,      \* slugs
    IdPeople,       \* people of the directories: authority, names, memberships, whether readable
    IdConfigs,      \* configurations of a directory that are put
    IdDomain,       \* the domain of each email
    IdSeed,         \* the users there are at first, the operator's among them
    IdMaxRequests   \* a bound

Roles == {"platform_admin", "tenant_admin", "functional_user", "quant_analyst"}
NoTenant == "none"
UserColumns == {"tenant", "role", "active", "password", "provider"}

\* An operator is of no tenant; and a person types one name.
ASSUME IdentityAssumption ==
    /\ NoTenant \notin IdTenants
    /\ \A e \in DOMAIN IdSeed :
          /\ DOMAIN IdSeed[e] = UserColumns
          /\ (IdSeed[e].role = "platform_admin") <=> (IdSeed[e].tenant = NoTenant)
    /\ \A p \in IdPeople : p.names \in Seq(DOMAIN IdDomain) /\ \A a, b \in p.typed : a = b

VARIABLES
    idUser,    \* the rows of the users, by email
    idTenant,  \* the tenants there are
    idDir,     \* the configured directories: [tenant, kind] to its configuration
    idReq,     \* the request of each thread
    idToken,   \* the tokens that were given
    idCount

idVars == <<idUser, idTenant, idDir, idReq, idToken, idCount>>

IdFree == [at |-> "free"]
Asking(t) ==
    /\ idReq[t] = IdFree /\ idCount < IdMaxRequests /\ idCount' = idCount + 1
IdEnds(t) == idReq' = [idReq EXCEPT ![t] = IdFree]
SameRows == UNCHANGED <<idUser, idTenant, idDir, idToken>>

Token(email, row) == [email |-> email, role |-> row.role, tenant |-> row.tenant]
TokenGiven(email, row) == idToken' = idToken \cup {Token(email, row)}

\* get_current_user, require_admin, require_platform_admin: the token is believed.
RequireAdmin(token) == token \in idToken /\ token.tenant # NoTenant /\ token.role = "tenant_admin"
RequirePlatformAdmin(token) == token \in idToken /\ token.role = "platform_admin"

\* _require_config_admin
RequireConfigAdmin(token, slug) ==
    RequirePlatformAdmin(token) \/ (RequireAdmin(token) /\ token.tenant = slug)

Upsert(rows, key, row) == [k \in DOMAIN rows \cup {key} |-> IF k = key THEN row ELSE rows[k]]

\* A row after a commit: only columns that have another value than was read are written.
Committed(stored, read, change) ==
    [f \in DOMAIN stored |-> IF f \in DOMAIN change /\ change[f] # read[f] THEN change[f] ELSE stored[f]]

\* A thread that writes to the users has been beside every request that has yet to.
Wrote(t, then) ==
    idReq' = [u \in IdThreads |->
        IF u = t THEN then
        ELSE IF "alone" \in DOMAIN idReq[u] THEN [idReq[u] EXCEPT !.alone = FALSE] ELSE idReq[u]]

-----------------------------------------------------------------------------
(* Users with a password *)

Login(t, email) ==
    /\ Asking(t) /\ email \in DOMAIN idUser
    /\ idUser[email].active /\ idUser[email].password
    /\ TokenGiven(email, idUser[email])
    /\ UNCHANGED <<idUser, idTenant, idDir, idReq>>

AssignableRoles == Roles \ {"platform_admin"}

Admins(users, slug) ==
    {e \in DOMAIN users :
        users[e].tenant = slug /\ users[e].role = "tenant_admin" /\ users[e].active}

NewUser(slug, role) ==
    [tenant |-> slug, role |-> role, active |-> TRUE, password |-> TRUE, provider |-> "local"]

\* create_user: the email is free, or the request is refused.
CreateUser(t, token, email, role) ==
    /\ Asking(t) /\ RequireAdmin(token) /\ role \in AssignableRoles /\ email \notin DOMAIN idUser
    /\ idReq' = [idReq EXCEPT ![t] = [at |-> "insert", email |-> email, new |-> {},
                                      row |-> NewUser(token.tenant, role)]]
    /\ SameRows

\* create_tenant: the slug and the email are free.
CreateTenant(t, token, slug, email) ==
    /\ Asking(t) /\ RequirePlatformAdmin(token)
    /\ slug \notin idTenant /\ email \notin DOMAIN idUser
    /\ idReq' = [idReq EXCEPT ![t] = [at |-> "insert", email |-> email, new |-> {slug},
                                      row |-> NewUser(slug, "tenant_admin")]]
    /\ SameRows

\* The insertion of either; another that came first makes it fail, with all of it.
Insert(t) ==
    /\ idReq[t].at = "insert"
    /\ LET r == idReq[t]
       IN IF r.email \in DOMAIN idUser \/ r.new \cap idTenant # {}
          THEN IdEnds(t) /\ UNCHANGED <<idUser, idTenant>>
          ELSE /\ idUser' = Upsert(idUser, r.email, r.row)
               /\ idTenant' = idTenant \cup r.new
               /\ Wrote(t, IdFree)
    /\ UNCHANGED <<idDir, idToken, idCount>>

\* Variant: the administrator who asks counts as one that remains.
RemainingWithSelf(slug, asking) == Admins(idUser, slug)

\* _remaining_admin_count
Remaining(slug, asking) == Admins(idUser, slug) \ {asking}

\* What update_user refuses: a role that is not to assign, and that the only administrator
\* gives up being one.
Refuses(token, email, change) ==
    \/ "role" \in DOMAIN change /\ change.role \notin AssignableRoles
    \/ /\ token.email = email
       /\ \/ "role" \in DOMAIN change /\ change.role # "tenant_admin"
          \/ "active" \in DOMAIN change /\ ~change.active
       /\ Remaining(token.tenant, email) = {}

\* A token that tells what its user is still.
Holds(token) == idUser[token.email].active /\ Token(token.email, idUser[token.email]) = token

UpdateUser(t, token, email, change) ==
    /\ Asking(t) /\ RequireAdmin(token)
    /\ email \in DOMAIN idUser /\ idUser[email].tenant = token.tenant
    /\ ~Refuses(token, email, change)
    /\ idReq' = [idReq EXCEPT ![t] = [at |-> "update", email |-> email, change |-> change,
                    read |-> idUser[email], tenant |-> token.tenant, holds |-> Holds(token), alone |-> TRUE]]
    /\ SameRows

UpdateCommits(t) ==
    /\ idReq[t].at = "update"
    /\ LET r == idReq[t]
           users == [idUser EXCEPT ![r.email] = Committed(@, r.read, r.change)]
       IN /\ idUser' = users
          /\ Wrote(t, [at |-> "updated", sure |-> r.holds /\ r.alone,
                       admins |-> Admins(users, r.tenant)])
    /\ UNCHANGED <<idTenant, idDir, idToken, idCount>>

UpdateAnswers(t) == idReq[t].at = "updated" /\ IdEnds(t) /\ SameRows /\ UNCHANGED idCount

-----------------------------------------------------------------------------
(* Users of a directory *)

PutDirectory(t, token, slug, config) ==
    /\ Asking(t) /\ slug \in idTenant /\ RequireConfigAdmin(token, slug)
    /\ config.default = "tenant_admin"
    /\ idDir' = Upsert(idDir, <<slug, config.kind>>, config)
    /\ UNCHANGED <<idUser, idTenant, idReq, idToken>>

Configured(slug, kind) == slug \in idTenant /\ <<slug, kind>> \in DOMAIN idDir

\* sso_login: off to the tenant's authority, with a cookie that binds the way back.
SsoLogin(t, slug) ==
    /\ Asking(t) /\ Configured(slug, "entra") /\ idDir[<<slug, "entra">>].enabled
    /\ idReq' = [idReq EXCEPT ![t] = [at |-> "away", slug |-> slug,
                                      authority |-> idDir[<<slug, "entra">>].authority]]
    /\ SameRows

Rank(role) == CASE role = "tenant_admin" -> 1 [] role = "platform_admin" -> 2 [] OTHER -> 0

\* Variant: whatever the map says.
UncappedRole(config, memberships) ==
    LET mapped == {config.map[g] : g \in memberships \cap DOMAIN config.map} \cup {config.default}
    IN CHOOSE r \in mapped : \A other \in mapped : Rank(other) <= Rank(r)

\* resolve_role: the highest of the default and what the memberships map to; the
\* platform's operator is never one of a tenant's directory.
ResolveRole(config, memberships) ==
    LET mapped == {config.map[g] : g \in memberships \cap DOMAIN config.map} \cup {config.default}
        best == CHOOSE r \in mapped : \A other \in mapped : Rank(other) <= Rank(r)
    IN IF best = "platform_admin" THEN "tenant_admin" ELSE best

\* email_allowed; the domain of a name is a function of the name.
EmailAllowed(email, config) == config.domains = {} \/ IdDomain[email] \in config.domains

\* What a directory says becomes a user to provision, as found at this moment.
Identified(t, slug, config, identity) ==
    LET found == identity.emails \cap DOMAIN idUser
    IN \E email \in identity.emails :
         /\ EmailAllowed(email, config)
         /\ \A e \in found : idUser[e].tenant = slug /\ idUser[e].active
         /\ idReq' = [idReq EXCEPT ![t] =
               [at |-> "provision", slug |-> slug, email |-> email, kind |-> config.kind,
                role |-> ResolveRole(config, identity.memberships), found |-> {idUser[e] : e \in found}]]

\* The first of these names, of those there are: a set of one, or of none.
FirstName(names) == {names[k] : k \in {k \in DOMAIN names : \A j \in DOMAIN names : k <= j}}

\* validate_id_token, of the authority and client that the code was asked of.
ValidIdToken(config, asked, person) == config.authority = asked /\ person.authority = asked

\* extract_identity
ExtractIdentity(person) == [emails |-> FirstName(person.names), memberships |-> person.memberships]

\* authenticate: bound as oneself, or found by a service account first.
Authenticated(config, person) == person.authority = config.authority

\* _identity: of an entry that cannot be read after a direct bind, the name that was typed.
LdapIdentity(config, person) ==
    IF config.direct /\ ~person.readable THEN [emails |-> person.typed, memberships |-> {}]
    ELSE [emails |-> IF person.names = <<>> THEN person.typed ELSE FirstName(person.names),
          memberships |-> person.memberships]

\* sso_callback, of the cookie's own tenant: a code of the authority that is configured
\* now, whose token names the cookie's nonce.
SsoCallback(t, slug, person) ==
    /\ idReq[t].at = "away"
    /\ LET config == idDir[<<slug, "entra">>]
       IN \/ /\ slug = idReq[t].slug
             /\ ValidIdToken(config, idReq[t].authority, person)
             /\ Identified(t, slug, config, ExtractIdentity(person))
          \/ IdEnds(t)
    /\ SameRows /\ UNCHANGED idCount

\* ldap_login: the directory is asked within the request.
LdapLogin(t, slug, person) ==
    /\ Asking(t) /\ Configured(slug, "ldap")
    /\ LET config == idDir[<<slug, "ldap">>]
       IN /\ config.enabled /\ Authenticated(config, person)
          /\ Identified(t, slug, config, LdapIdentity(config, person))
    /\ SameRows

\* provision_user: the user is made, or its role and provider are those of this login; the
\* token is of the row as it is after the commit.
Provision(t) ==
    /\ idReq[t].at = "provision"
    /\ LET r == idReq[t]
           login == [role |-> r.role, provider |-> r.kind]
           row == IF r.found = {}
                  THEN [NewUser(r.slug, r.role) EXCEPT !.password = FALSE, !.provider = r.kind]
                  ELSE Committed(idUser[r.email], CHOOSE read \in r.found : TRUE, login)
       IN IF r.email \in DOMAIN idUser /\ r.found = {}
          THEN IdEnds(t) /\ UNCHANGED <<idUser, idToken>>
          ELSE /\ idUser' = Upsert(idUser, r.email, row)
               /\ TokenGiven(r.email, row) /\ Wrote(t, IdFree)
    /\ UNCHANGED <<idTenant, idDir, idCount>>

-----------------------------------------------------------------------------
IdInit ==
    /\ idUser = IdSeed
    /\ idTenant = {IdSeed[e].tenant : e \in DOMAIN IdSeed} \ {NoTenant}
    /\ idDir = <<>> /\ idToken = {} /\ idCount = 0
    /\ idReq = [t \in IdThreads |-> IdFree]

IdEmails == DOMAIN IdDomain
IdChanges == {[role |-> r] : r \in Roles \ {"quant_analyst"}} \cup {[active |-> FALSE],
              [active |-> TRUE, password |-> TRUE]}

IdNext ==
    \E t \in IdThreads :
       \/ \E email \in IdEmails :
             \/ Login(t, email)
             \/ \E token \in idToken :
                   \/ \E role \in AssignableRoles : CreateUser(t, token, email, role)
                   \/ \E slug \in IdTenants : CreateTenant(t, token, slug, email)
                   \/ \E change \in IdChanges : UpdateUser(t, token, email, change)
       \/ Insert(t) \/ UpdateCommits(t) \/ UpdateAnswers(t) \/ Provision(t)
       \/ \E token \in idToken, slug \in IdTenants, config \in IdConfigs :
             PutDirectory(t, token, slug, config)
       \/ \E slug \in IdTenants : SsoLogin(t, slug)
       \/ \E slug \in idTenant, person \in IdPeople : SsoCallback(t, slug, person) \/ LdapLogin(t, slug, person)

IdSpec == IdInit /\ [][IdNext]_idVars

-----------------------------------------------------------------------------
\* Operators are seeded and of no tenant; everybody else is of one, and stays in it; and a
\* token names a user that there is, in the tenant it is in.
TenantsAreKept ==
    /\ \A e \in DOMAIN idUser :
          /\ (idUser[e].role = "platform_admin") <=> (idUser[e].tenant = NoTenant)
          /\ IF e \in DOMAIN IdSeed THEN idUser[e].tenant = IdSeed[e].tenant
             ELSE idUser[e].tenant \in idTenant
    /\ \A token \in idToken :
          /\ token.email \in DOMAIN idUser /\ token.tenant = idUser[token.email].tenant
          /\ (token.role = "platform_admin") <=> (token.tenant = NoTenant)

\* routers/users.py: a request of an administrator who is one, with no other beside it,
\* leaves the tenant an administrator.
AdminsRemain ==
    \A t \in IdThreads :
        idReq[t].at = "updated" /\ idReq[t].sure => idReq[t].admins # {}

\* auth.py, users.py, auth_sso.py, auth_ldap.py, provisioning.py
IdentityHolds == TenantsAreKept /\ AdminsRemain
=============================================================================
