--------------------------- MODULE FleetCommands ---------------------------
(***************************************************************************)
(* The fleet queue of control-api/app/routers/fleet.py, the agent of       *)
(* fleet_agent/ that pulls from it, and the network between them.          *)
(*                                                                         *)
(* The agent is one thread that makes one call at a time.  A call that     *)
(* fails (its 30 s are over, the connection broke, the server raised) is   *)
(* given up, but its request may still be served later, or may have been   *)
(* served already.  A handler is one transaction and so one step, except   *)
(* enroll: it reads that nobody has enrolled, spends a while on the hash   *)
(* of the new secret and then writes without looking again.  A heartbeat   *)
(* updates the agent's row before it reads the queue, so two of them       *)
(* never read the same queue.                                              *)
(*                                                                         *)
(* One agent: the queues of two agents have nothing in common.             *)
(*                                                                         *)
(* Bound: `faults' is how many calls and processes may still fail.         *)
(***************************************************************************)
EXTENDS Integers, Sequences, FiniteSets

CONSTANTS
    Command,     \* the commands an administrator may queue
    NoCommand,   \* stands where a request carries none
    BatchLimit,  \* how many commands a heartbeat hands out: 10
    MaxFaults    \* bound on faults

ASSUME FleetAssumption == /\ IsFiniteSet(Command) /\ NoCommand \notin Command
                          /\ BatchLimit \in Nat \ {0}
                          /\ MaxFaults \in Nat

Outcome == {"success", "failure"}
Status == {"none", "queued", "dispatched"} \cup Outcome

\* Secrets are numbered in the order in which they are drawn.
NoSecret == 0
\* A secret file that was opened for writing and not written.
Torn == -1

\* no = 0 is the call the agent is waiting for, the others were given up.
Request == [kind : {"enroll", "drawing", "heartbeat", "report"}, no : 0 .. MaxFaults,
            secret : Nat, cmd : Command \cup {NoCommand}, outcome : Outcome \cup {"none"}]

Reply == [kind : {"none", "enrolled", "commands", "ack", "refused"},
          secret : Nat, cmds : Seq(Command)]

NoReply == [kind |-> "none", secret |-> NoSecret, cmds |-> <<>>]
Refused == [kind |-> "refused", secret |-> NoSecret, cmds |-> <<>>]

-----------------------------------------------------------------------------
VARIABLES
    status,       \* the status of each command in the database
    hash,         \* agent_secret_hash: the secret the server accepts, if any
    drawn,        \* how many secrets were drawn
    net,          \* the requests that the server has not answered
    reply,        \* what the agent's present call is answered
    pc,           \* where the agent is
    file,         \* AGENT_SECRET_FILE
    secret,       \* client.agent_secret
    inbox,        \* commands of the last heartbeat still to be run
    faults,       \* how much may still go wrong
    ran,          \* history: the outcomes of each command's executions
    lost,         \* history: commands the agent had, or was sent, when it failed
    interrupted   \* history: did an enrolment fail before its secret was saved

serverVars == <<status, hash, drawn>>
agentVars == <<pc, file, secret, inbox>>
history == <<ran, lost, interrupted>>
vars == <<serverVars, net, reply, agentVars, faults, history>>

Elements(s) == {s[i] : i \in DOMAIN s}

Calling == pc \in {"enrolling", "beating", "reporting"}

Live == {r \in net : r.no = 0}

\* The commands that the agent has in hand or is being sent.
Held == Elements(inbox) \cup Elements(reply.cmds) \cup {r.cmd : r \in {q \in Live : q.kind = "report"}}

-----------------------------------------------------------------------------
(* The control plane *)

\* enqueue_command, provision, deprovision
Enqueue(c) ==
    /\ status[c] = "none"
    /\ status' = [status EXCEPT ![c] = "queued"]
    /\ UNCHANGED <<hash, drawn, net, reply, agentVars, faults, history>>

\* The answer to r, which nobody reads when the call was given up.
Answer(r, a) ==
    /\ net' = net \ {r}
    /\ reply' = IF r.no = 0 THEN a ELSE reply

\* _authenticate_agent
Authentic(r) == hash # NoSecret /\ r.secret = hash

Refuse(r) ==
    /\ \/ r.kind = "enroll" /\ hash # NoSecret
       \/ r.kind \in {"heartbeat", "report"} /\ ~Authentic(r)
    /\ Answer(r, Refused)
    /\ lost' = IF r.kind = "report" THEN lost \cup {r.cmd} ELSE lost
    /\ UNCHANGED <<serverVars, agentVars, faults, ran, interrupted>>

\* enroll, up to the hash ...
EnrollChecked(r) ==
    /\ r.kind = "enroll"
    /\ hash = NoSecret
    /\ net' = (net \ {r}) \cup {[r EXCEPT !.kind = "drawing"]}
    /\ UNCHANGED <<serverVars, reply, agentVars, faults, history>>

\* ... and from there.
EnrollCommitted(r) ==
    /\ r.kind = "drawing"
    /\ drawn' = drawn + 1
    /\ hash' = drawn + 1
    /\ Answer(r, [kind |-> "enrolled", secret |-> drawn + 1, cmds |-> <<>>])
    /\ UNCHANGED <<status, agentVars, faults, history>>

Queued == {c \in Command : status[c] = "queued"}

\* The sequences of different queued commands.
Picks == {s \in UNION {[1 .. n -> Queued] : n \in 0 .. Cardinality(Queued)} :
            \A i, j \in DOMAIN s : s[i] = s[j] => i = j}

\* Variant: the limit counts the commands that were handed out long ago.
BatchesOfAll ==
    LET All == {c \in Command : status[c] # "none"}
    IN {s \in Picks : \E S \in SUBSET All :
            /\ Elements(s) = S \cap Queued
            /\ Cardinality(S) = BatchLimit \/ S = All}

\* The batches a heartbeat may hand out: the query has a LIMIT and no ORDER BY.
Batches == {s \in Picks : \/ Len(s) = BatchLimit
                          \/ Len(s) < BatchLimit /\ Elements(s) = Queued}

\* Variant: what is handed out is not marked in the same pass.
HandedUnmarked(s) == status

Handed(s) == [c \in Command |-> IF c \in Elements(s) THEN "dispatched" ELSE status[c]]

Heartbeat(r) ==
    /\ r.kind = "heartbeat"
    /\ Authentic(r)
    /\ \E s \in Batches :
        /\ status' = Handed(s)
        /\ Answer(r, [kind |-> "commands", secret |-> NoSecret, cmds |-> s])
        /\ lost' = IF r.no = 0 THEN lost ELSE lost \cup Elements(s)
    /\ UNCHANGED <<hash, drawn, agentVars, faults, ran, interrupted>>

\* report_command_result
ReportResult(r) ==
    /\ r.kind = "report"
    /\ Authentic(r)
    /\ status' = [status EXCEPT ![r.cmd] = r.outcome]
    /\ Answer(r, [kind |-> "ack", secret |-> NoSecret, cmds |-> <<>>])
    /\ UNCHANGED <<hash, drawn, agentVars, faults, history>>

Serve(r) == Refuse(r) \/ EnrollChecked(r) \/ EnrollCommitted(r) \/ Heartbeat(r) \/ ReportResult(r)

-----------------------------------------------------------------------------
(* The agent *)

Call(kind, sec, c, o) ==
    net' = net \cup {[kind |-> kind, no |-> 0, secret |-> sec, cmd |-> c, outcome |-> o]}

\* main: a stored secret is used again, otherwise the agent enrolls.
Start ==
    /\ pc = "down"
    /\ IF file > 0
       THEN /\ secret' = file
            /\ pc' = "idle"
            /\ UNCHANGED net
       ELSE /\ Call("enroll", NoSecret, NoCommand, "none")
            /\ pc' = "enrolling"
            /\ UNCHANGED secret
    /\ UNCHANGED <<serverVars, reply, file, inbox, faults, history>>

\* A call has returned k.
Returned(k) == Calling /\ reply.kind = k /\ reply' = NoReply

\* Variant: the secret is kept in memory only.
EnrolledUnsaved ==
    /\ Returned("enrolled")
    /\ secret' = reply.secret
    /\ pc' = "idle"
    /\ UNCHANGED <<serverVars, net, file, inbox, faults, history>>

Enrolled ==
    /\ Returned("enrolled")
    /\ secret' = reply.secret
    /\ pc' = "saving"
    /\ UNCHANGED <<serverVars, net, file, inbox, faults, history>>

\* save_secret opens the file, which empties it, ...
OpenSecretFile ==
    /\ pc = "saving"
    /\ file' = Torn
    /\ pc' = "writing"
    /\ UNCHANGED <<serverVars, net, reply, secret, inbox, faults, history>>

\* ... and writes it.
WriteSecretFile ==
    /\ pc = "writing"
    /\ file' = secret
    /\ pc' = "idle"
    /\ UNCHANGED <<serverVars, net, reply, secret, inbox, faults, history>>

\* The next cycle of run.
Beat ==
    /\ pc = "idle"
    /\ Call("heartbeat", secret, NoCommand, "none")
    /\ pc' = "beating"
    /\ UNCHANGED <<serverVars, reply, file, secret, inbox, faults, history>>

ReceiveCommands ==
    /\ Returned("commands")
    /\ inbox' = reply.cmds
    /\ pc' = "working"
    /\ UNCHANGED <<serverVars, net, file, secret, faults, history>>

\* handle_command, which never raises, and the call of report_result.
RunCommand(o) ==
    /\ pc = "working"
    /\ inbox # <<>>
    /\ ran' = [ran EXCEPT ![Head(inbox)] = Append(@, o)]
    /\ inbox' = Tail(inbox)
    /\ Call("report", secret, Head(inbox), o)
    /\ pc' = "reporting"
    /\ UNCHANGED <<serverVars, reply, file, secret, faults, lost, interrupted>>

Reported ==
    /\ Returned("ack")
    /\ pc' = "working"
    /\ UNCHANGED <<serverVars, net, file, secret, inbox, faults, history>>

Rest ==
    /\ pc = "working"
    /\ inbox = <<>>
    /\ pc' = "idle"
    /\ UNCHANGED <<serverVars, net, reply, file, secret, inbox, faults, history>>

\* Variant: a result that cannot be reported ends the batch.
AfterFailureGivesUp == IF pc = "enrolling" THEN "down" ELSE "idle"

\* A call has raised: main dies of it, run waits for the next cycle, tick goes on with the
\* next command.
AfterFailure == CASE pc = "enrolling" -> "down"
                  [] pc = "beating" -> "idle"
                  [] pc = "reporting" -> "working"

CallRaised ==
    /\ Returned("refused")
    /\ pc' = AfterFailure
    /\ UNCHANGED <<serverVars, net, file, secret, inbox, faults, history>>

-----------------------------------------------------------------------------
(* What goes wrong *)

Fault == faults > 0 /\ faults' = faults - 1

\* A request that was given up may still be on its way, or is gone.
Abandoned == {net \ Live, (net \ Live) \cup {[r EXCEPT !.no = faults] : r \in Live}}

\* The present call fails: no answer within 30 s, or none at all.
CallFails ==
    /\ Fault
    /\ Calling
    /\ net' \in Abandoned
    /\ reply' = NoReply
    /\ pc' = AfterFailure
    /\ lost' = lost \cup (Held \ Elements(inbox))
    /\ interrupted' = (interrupted \/ pc = "enrolling")
    /\ UNCHANGED <<serverVars, file, secret, inbox, ran>>

\* The agent's process dies.
Crash ==
    /\ Fault
    /\ pc # "down"
    /\ net' \in Abandoned
    /\ reply' = NoReply
    /\ pc' = "down"
    /\ secret' = NoSecret
    /\ inbox' = <<>>
    /\ lost' = lost \cup Held
    /\ interrupted' = (interrupted \/ pc \in {"enrolling", "saving", "writing"})
    /\ UNCHANGED <<serverVars, file, ran>>

-----------------------------------------------------------------------------
Init ==
    /\ status = [c \in Command |-> "none"]
    /\ hash = NoSecret /\ drawn = 0
    /\ net = {} /\ reply = NoReply
    /\ pc = "down" /\ file = NoSecret /\ secret = NoSecret /\ inbox = <<>>
    /\ faults = MaxFaults
    /\ ran = [c \in Command |-> <<>>] /\ lost = {} /\ interrupted = FALSE

AgentStep ==
    \/ Start
    \/ Enrolled \/ OpenSecretFile \/ WriteSecretFile
    \/ Beat \/ ReceiveCommands \/ Reported \/ CallRaised \/ Rest
    \/ \E o \in Outcome : RunCommand(o)

Next ==
    \/ \E c \in Command : Enqueue(c)
    \/ \E r \in net : Serve(r)
    \/ AgentStep
    \/ CallFails \/ Crash

Spec == Init /\ [][Next]_vars

\* The agent goes on, is started again when it is down, and a call that does not fail is
\* answered.  Nothing is assumed of requests that were given up.
Fairness == WF_vars(AgentStep) /\ WF_vars(\E r \in Live : Serve(r))

FairSpec == Spec /\ Fairness

-----------------------------------------------------------------------------
(* Properties *)

\* Every variable has its type, and there is never more than one call that the agent
\* waits for (control_client.py _post gives a call up before the next one).
TypeOK ==
    /\ status \in [Command -> Status]
    /\ hash \in Nat /\ drawn \in Nat
    /\ net \subseteq Request
    /\ \A q, r \in Live : q = r
    /\ reply \in Reply
    /\ reply # NoReply => Live = {} /\ Calling
    /\ pc \in {"down", "enrolling", "saving", "writing", "idle", "beating", "working", "reporting"}
    /\ file \in Nat \cup {Torn} /\ secret \in Nat
    /\ inbox \in Seq(Command)
    /\ faults \in 0 .. MaxFaults
    /\ ran \in [Command -> Seq(Outcome)]
    /\ lost \subseteq Command /\ interrupted \in BOOLEAN

\* A dispatched command is on its way to the agent, in its hands or being reported,
\* unless a failure is to blame: none vanishes because of what became of another one, of
\* a late answer or of an empty cycle (agent.py tick).
NothingVanishes ==
    \A c \in Command : status[c] = "dispatched" => c \in Held \cup lost

\* The agent can never be accepted again: the server expects a secret that it has not got.
LockedOut ==
    /\ hash # NoSecret
    /\ hash \notin {file, secret}
    /\ ~(reply.kind = "enrolled" /\ reply.secret = hash)

\* A restart re-uses the secret (config.py:2-5): crashes and failed calls lock the agent
\* out only if they hit it while it enrolled, however late their requests are served.
OnlyEnrolmentLocksOut == LockedOut => interrupted

\* A command is handed out once, run at most once and reported as it went, whatever
\* crashes and however late a call is served (fleet.py heartbeat, agent.py tick).
Life == INSTANCE CommandLife
ImplementsCommandLife == Life!Spec

\* Every command is reported in the end, or a failure took it from the agent, or the
\* agent is locked out: nothing starves behind the batch limit or an unlucky call.
EveryCommandIsReported ==
    \A c \in Command :
        status[c] # "none" ~> status[c] \in Outcome \/ c \in lost \/ LockedOut
=============================================================================
