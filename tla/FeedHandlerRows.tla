-------------------------- MODULE FeedHandlerRows --------------------------
(***************************************************************************)
(* The feed handlers that tenants declare: rows that name an entry of the  *)
(* catalogue, with its configuration and credentials, and the tick house   *)
(* they publish into.  A request looks things up, checks them and commits, *)
(* and others come between the look and the commit.  The database is the   *)
(* default one, SQLite: it holds no row to the row it refers to, and gives *)
(* the highest number out again after its row was deleted.                 *)
(***************************************************************************)
EXTENDS Naturals, FiniteSetsExt

CONSTANTS
    FrThreads,      \* requests at one time
    FrTenants,
    FrBodies,       \* bodies of create and update
    FrMaxRequests   \* a bound: requests in all

NoHouse == 0

\* FEEDHANDLER_CATALOG: an entry of each kind there is.
FrCatalog == {
    [provider |-> "COINBASE", support |-> "decoder_implemented", needs |-> {}],
    [provider |-> "GENERIC_FIX", support |-> "decoder_implemented", needs |-> {"username", "password"}],
    [provider |-> "NYSE", support |-> "catalog_only", needs |-> {}],
    [provider |-> "LSEG", support |-> "catalog_only", needs |-> {"username", "password"}]}

ASSUME FeedHandlerRowsAssumption ==
    /\ FrBodies \subseteq [provider : STRING, enabled : BOOLEAN, config : {"default", "own"},
                           secrets : SUBSET {"username", "password"}, house : Nat]
    /\ FrMaxRequests \in Nat

VARIABLES
    frHouses,  \* the tick houses: the tenant of each
    frRows,    \* the feed handlers
    frReq,     \* the request of each thread
    frOwned,   \* history: the numbers of the houses each tenant has had
    frGiven,   \* history: the credentials of the updates of each row
    frReused,  \* history: the numbers of feed handlers that were given out again
    frCount    \* requests so far, and the numbers of feed handlers given out

frVars == <<frHouses, frRows, frReq, frOwned, frGiven, frReused, frCount>>

FrFree == [at |-> "idle"]
FrEnds(t) == frReq' = [frReq EXCEPT ![t] = FrFree]
Next1(table) == 1 + Max(DOMAIN table \cup {0})
FrWith(table, id, row) == [k \in DOMAIN table \cup {id} |-> IF k = id THEN row ELSE table[k]]
FrWithout(table, id) == [k \in DOMAIN table \ {id} |-> table[k]]
Known == UNCHANGED <<frOwned, frGiven, frReused>>
FrBegins(t) ==
    /\ frReq[t] = FrFree /\ frCount.requests < FrMaxRequests
    /\ frCount' = [frCount EXCEPT !.requests = @ + 1]

-----------------------------------------------------------------------------
(* What is checked *)

Entry(provider) == {e \in FrCatalog : e.provider = provider}

\* Variant: nothing is enabled that is not in the catalogue at all.
InCatalog(provider, enabled) == enabled => Entry(provider) # {}

Enableable(provider, enabled) == enabled => \A e \in Entry(provider) : e.support # "catalog_only"

\* Variant: the house of any tenant will do.
AnyHouse(tenant, house) == house = NoHouse \/ house \in DOMAIN frHouses

\* _validate_tickhouse
HouseOf(tenant, house) == house = NoHouse \/ (house \in DOMAIN frHouses /\ frHouses[house] = tenant)

\* Variant: a credential will do.
SomeCredentials(entry, body) == entry.needs # {} => body.secrets # {}

Credentials(entry, body) == entry.needs \subseteq body.secrets

Declarable(body) ==
    /\ \E e \in Entry(body.provider) : Credentials(e, body)
    /\ Enableable(body.provider, body.enabled)

\* build_feed_handler_row
Builds(tenant, body) == Declarable(body) /\ HouseOf(tenant, body.house)

\* The checks of update, on the row as it was read.
MayUpdate(row, body) == Enableable(row.provider, body.enabled) /\ HouseOf(row.tenant, body.house)

Row(tenant, body) ==
    [tenant |-> tenant, provider |-> body.provider, enabled |-> body.enabled,
     config |-> body.config, secrets |-> body.secrets, house |-> body.house]

\* What an update makes of a row: no credentials given leave those there are.
Updated(row, body) ==
    [row EXCEPT !.house = body.house, !.enabled = body.enabled,
                !.config = IF body.config = "default" THEN @ ELSE body.config,
                !.secrets = IF body.secrets = {} THEN @ ELSE body.secrets]

-----------------------------------------------------------------------------
(* Requests for feed handlers *)

CreateHandler(t, tenant, body) ==
    /\ FrBegins(t)
    /\ IF Builds(tenant, body)
       THEN frReq' = [frReq EXCEPT ![t] = [at |-> "insert", row |-> Row(tenant, body)]]
       ELSE UNCHANGED frReq
    /\ Known /\ UNCHANGED <<frHouses, frRows>>

InsertRow(t) ==
    /\ frReq[t].at = "insert"
    /\ LET id == Next1(frRows)
       IN /\ frRows' = FrWith(frRows, id, frReq[t].row)
          /\ frReused' = frReused \cup ({id} \cap frCount.ids)
          /\ frCount' = [frCount EXCEPT !.ids = @ \cup {id}]
    /\ FrEnds(t) /\ UNCHANGED <<frHouses, frOwned, frGiven>>

\* Only the tenant's own row is found.
Scoped(tenant, id) == id \in DOMAIN frRows /\ frRows[id].tenant = tenant

UpdateHandler(t, tenant, id, body) ==
    /\ FrBegins(t)
    /\ IF Scoped(tenant, id) /\ MayUpdate(frRows[id], body)
       THEN frReq' = [frReq EXCEPT ![t] = [at |-> "update", id |-> id, read |-> frRows[id],
                                           row |-> Updated(frRows[id], body), given |-> body.secrets # {}]]
       ELSE UNCHANGED frReq
    /\ Known /\ UNCHANGED <<frHouses, frRows>>

\* Only the columns that changed are written, and credentials that were given: encrypted
\* anew, they always differ.
Writes(r, f) == r.row[f] # r.read[f] \/ (f = "secrets" /\ r.given)

\* A row that is gone is an error.
CommitUpdate(t) ==
    /\ frReq[t].at = "update"
    /\ LET r == frReq[t]
       IN IF r.id \notin DOMAIN frRows THEN UNCHANGED <<frRows, frGiven>>
          ELSE /\ frRows' = [frRows EXCEPT ![r.id] =
                     [f \in DOMAIN @ |-> IF Writes(r, f) THEN r.row[f] ELSE @[f]]]
               /\ frGiven' = frGiven \cup (IF r.given THEN {<<r.id, r.row.secrets>>} ELSE {})
    /\ FrEnds(t) /\ UNCHANGED <<frHouses, frOwned, frReused, frCount>>

DeleteHandler(t, tenant, id) ==
    /\ FrBegins(t)
    /\ IF Scoped(tenant, id) THEN frReq' = [frReq EXCEPT ![t] = [at |-> "delete", id |-> id]]
       ELSE UNCHANGED frReq
    /\ Known /\ UNCHANGED <<frHouses, frRows>>

CommitDelete(t) ==
    /\ frReq[t].at = "delete"
    /\ frRows' = FrWithout(frRows, frReq[t].id)
    /\ FrEnds(t) /\ Known /\ UNCHANGED <<frHouses, frCount>>

-----------------------------------------------------------------------------
(* Requests for tick houses *)

\* create: the house is committed before the feed handler that came with it is looked at,
\* and stays when that is refused.
FrCreateHouse(t, tenant, bodies) ==
    /\ FrBegins(t)
    /\ LET id == Next1(frHouses)
       IN /\ frHouses' = FrWith(frHouses, id, tenant)
          /\ frOwned' = [frOwned EXCEPT ![tenant] = @ \cup {id}]
          /\ frReq' = [frReq EXCEPT ![t] =
                IF bodies = {} THEN FrFree
                ELSE [at |-> "attach", tenant |-> tenant, body |-> {[b EXCEPT !.house = id] : b \in bodies}]]
    /\ UNCHANGED <<frRows, frGiven, frReused>>

\* The session still has the house's row, and does not look whether it is in the table;
\* one that was deleted before the answer was made up fails the request.
AttachHandler(t) ==
    /\ frReq[t].at = "attach"
    /\ \E body \in frReq[t].body :
          \/ /\ Declarable(body)
             /\ frReq' = [frReq EXCEPT ![t] = [at |-> "insert", row |-> Row(frReq[t].tenant, body)]]
          \/ ~Builds(frReq[t].tenant, body) /\ FrEnds(t)
    /\ Known /\ UNCHANGED <<frHouses, frRows, frCount>>

\* delete: the feed handlers of the house are not looked at.
FrDeleteHouse(tenant, id) ==
    /\ frCount.requests < FrMaxRequests /\ frCount' = [frCount EXCEPT !.requests = @ + 1]
    /\ id \in DOMAIN frHouses /\ frHouses[id] = tenant
    /\ frHouses' = FrWithout(frHouses, id)
    /\ Known /\ UNCHANGED <<frRows, frReq>>

-----------------------------------------------------------------------------
FrInit ==
    /\ frHouses = <<>> /\ frRows = <<>>
    /\ frReq = [t \in FrThreads |-> FrFree]
    /\ frOwned = [tenant \in FrTenants |-> {}] /\ frGiven = {} /\ frReused = {}
    /\ frCount = [requests |-> 0, ids |-> {}]

FrNext ==
    \/ \E t \in FrThreads :
          \/ \E tenant \in FrTenants :
                \/ \E body \in FrBodies :
                      \/ CreateHandler(t, tenant, body) \/ FrCreateHouse(t, tenant, {body})
                      \/ \E id \in DOMAIN frRows : UpdateHandler(t, tenant, id, body)
                \/ FrCreateHouse(t, tenant, {})
                \/ \E id \in DOMAIN frRows : DeleteHandler(t, tenant, id)
          \/ InsertRow(t) \/ CommitUpdate(t) \/ CommitDelete(t) \/ AttachHandler(t)
    \/ \E tenant \in FrTenants, id \in DOMAIN frHouses : FrDeleteHouse(tenant, id)

FrSpec == FrInit /\ [][FrNext]_frVars

-----------------------------------------------------------------------------
(* Properties *)

\* feedhandlers.py: however the requests for a row interleave, and whichever endpoint made
\* it, it names an entry of the catalogue and is on only if the engine can run that; its
\* house was its tenant's; and it has all the credentials the entry needs, unless an update
\* gave others.  A row whose number an earlier row had may have been written to by a
\* request for that one.
HandlerRowsAreSound ==
    \A id \in DOMAIN frRows \ frReused :
        LET row == frRows[id] IN
        /\ \E e \in Entry(row.provider) :
              /\ row.enabled => e.support = "decoder_implemented"
              /\ e.needs \subseteq row.secrets \/ <<id, row.secrets>> \in frGiven
        /\ row.house = NoHouse \/ row.house \in frOwned[row.tenant]

=============================================================================
