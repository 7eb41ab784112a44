---------------------------- MODULE FleetProofs ----------------------------
(***************************************************************************)
(* What TLAPS proves about the fleet queue and its agent, for every set of *)
(* commands, every batch limit and every number of faults.                 *)
(***************************************************************************)
EXTENDS FleetCommands, FiniteSetTheorems, TLAPS

-----------------------------------------------------------------------------
(* Batches *)

Distinct(s) == \A i, j \in DOMAIN s : s[i] = s[j] => i = j

\* What a heartbeat hands out was queued, and nothing is handed out twice.
LEMMA BatchIsPick ==
  ASSUME TypeOK, NEW s \in Batches
  PROVE  /\ s \in Seq(Command) /\ Distinct(s)
         /\ Elements(s) \subseteq Queued /\ Elements(s) \subseteq Command
<1>1. Cardinality(Queued) \in Nat
  BY FleetAssumption, FS_Subset, FS_CardinalityType DEF Queued
<1>2. PICK n \in 0 .. Cardinality(Queued) : s \in [1 .. n -> Queued]
  BY DEF Batches, Picks
<1>3. n \in Nat /\ Queued \subseteq Command
  BY <1>1, <1>2 DEF Queued
<1>4. s \in Seq(Command)
  BY <1>2, <1>3
<1>5. Elements(s) \subseteq Queued
  BY <1>2 DEF Elements
<1> QED
  BY <1>3, <1>4, <1>5 DEF Batches, Picks, Distinct

\* Taking the first of different commands leaves the others.
LEMMA TailForgetsHead ==
  ASSUME NEW s \in Seq(Command), s # <<>>, Distinct(s)
  PROVE  /\ Head(s) \in Elements(s) /\ Head(s) \in Command
         /\ Tail(s) \in Seq(Command) /\ Distinct(Tail(s))
         /\ Elements(Tail(s)) = Elements(s) \ {Head(s)}
<1>1. Len(s) \in Nat \ {0} /\ DOMAIN s = 1 .. Len(s) /\ Head(s) = s[1]
  OBVIOUS
<1>2. /\ Tail(s) \in Seq(Command)
      /\ DOMAIN Tail(s) = 1 .. (Len(s) - 1)
      /\ \A i \in 1 .. (Len(s) - 1) : Tail(s)[i] = s[i + 1]
  OBVIOUS
<1>3. Head(s) \in Elements(s) /\ Head(s) \in Command
  BY <1>1 DEF Elements
<1>4. Distinct(Tail(s))
  BY <1>1, <1>2 DEF Distinct
<1>5. ASSUME NEW c \in Elements(Tail(s))
      PROVE  c \in Elements(s) \ {Head(s)}
  <2>1. PICK i \in 1 .. (Len(s) - 1) : c = s[i + 1]
    BY <1>2, <1>5 DEF Elements
  <2>2. i + 1 \in DOMAIN s /\ 1 \in DOMAIN s /\ i + 1 # 1
    BY <1>1
  <2> QED
    BY <1>1, <2>1, <2>2 DEF Elements, Distinct
<1>6. ASSUME NEW c \in Elements(s) \ {Head(s)}
      PROVE  c \in Elements(Tail(s))
  <2>1. PICK i \in 1 .. Len(s) : c = s[i]
    BY <1>1, <1>6 DEF Elements
  <2>2. i - 1 \in 1 .. (Len(s) - 1) /\ (i - 1) + 1 = i
    BY <1>1, <1>6, <2>1
  <2>3. Tail(s)[i - 1] = c
    BY <1>2, <2>1, <2>2
  <2> QED
    BY <1>2, <2>2, <2>3 DEF Elements
<1> QED
  BY <1>2, <1>3, <1>4, <1>5, <1>6

-----------------------------------------------------------------------------
(* One call at a time *)

\* A request or an answer that the agent waits for is one of the call it is making.
CallShape ==
    /\ \A r \in net : r.kind = "report" => r.cmd \in Command /\ r.outcome \in Outcome
    /\ \A r \in Live : /\ Calling
                       /\ pc = "enrolling" <=> r.kind \in {"enroll", "drawing"}
                       /\ pc = "beating" <=> r.kind = "heartbeat"
                       /\ pc = "reporting" <=> r.kind = "report"
    /\ reply.kind = "enrolled" => pc = "enrolling"
    /\ reply.kind = "commands" => pc = "beating"
    /\ reply.kind = "ack" => pc = "reporting"
    /\ reply.kind = "none" => reply = NoReply
    /\ reply.kind # "commands" => reply.cmds = <<>>

CallInv == TypeOK /\ CallShape

\* The absence of an answer is one of the replies, and carries no command.
LEMMA NoReplyKind == NoReply \in Reply /\ NoReply.kind = "none" /\ NoReply.cmds = <<>>
  BY DEF NoReply, Reply, NoSecret

\* The answer to the present call ends it, the answer to another one changes nothing.
LEMMA AnswerEnds ==
  ASSUME CallInv, NEW r \in net, NEW a \in Reply, Answer(r, a)
  PROVE  /\ net' \in SUBSET net
         /\ \/ r \in Live /\ Live' = {} /\ reply' = a /\ reply = NoReply
            \/ r \notin Live /\ Live' = Live /\ reply' = reply
<1>1. CASE r.no = 0
  <2>1. r \in Live
    BY <1>1 DEF Live
  <2>2. Live' = {}
    BY <2>1 DEF Answer, CallInv, TypeOK, Live
  <2> QED
    BY <1>1, <2>1, <2>2 DEF Answer, CallInv, TypeOK
<1>2. CASE r.no # 0
  BY <1>2 DEF Answer, Live
<1> QED
  BY <1>1, <1>2

\* A call that is made is the only one.
LEMMA CallStarts ==
  ASSUME CallInv, ~Calling,
         NEW k \in {"enroll", "heartbeat", "report"}, NEW sec \in Nat,
         NEW c \in Command \cup {NoCommand}, NEW o \in Outcome \cup {"none"},
         Call(k, sec, c, o)
  PROVE  LET q == [kind |-> k, no |-> 0, secret |-> sec, cmd |-> c, outcome |-> o]
         IN net' = net \cup {q} /\ Live' = {q} /\ q \in Request
<1> DEFINE q == [kind |-> k, no |-> 0, secret |-> sec, cmd |-> c, outcome |-> o]
<1>1. Live = {}
  BY DEF CallInv, CallShape
<1>2. q \in Request /\ q.no = 0
  BY FleetAssumption DEF Request
<1> QED
  BY <1>1, <1>2 DEF Call, Live

\* After a failure no call is left to wait for; what is left of it differs in its number.
LEMMA FailureEnds ==
  ASSUME CallInv, Fault, net' \in Abandoned
  PROVE  /\ Live' = {}
         /\ \A r \in net' : \E q \in net :
                /\ r = q \/ (q \in Live /\ r = [q EXCEPT !.no = faults])
                /\ r \in Request /\ r.kind = q.kind /\ r.secret = q.secret
                /\ r.cmd = q.cmd /\ r.outcome = q.outcome
<1>1. ASSUME NEW q \in Live
      PROVE  LET r == [q EXCEPT !.no = faults]
             IN /\ r \in Request /\ r.no # 0 /\ r.kind = q.kind /\ r.secret = q.secret
                /\ r.cmd = q.cmd /\ r.outcome = q.outcome
  <2>1. q \in Request /\ faults \in 0 .. MaxFaults /\ faults # 0
    BY FleetAssumption DEF CallInv, TypeOK, Live, Fault
  <2> HIDE DEF CallInv, Fault
  <2> QED
    BY ONLY <2>1 DEF Request
<1>2. net \subseteq Request
  BY DEF CallInv, TypeOK
<1>3. CASE net' = net \ Live
  BY <1>2, <1>3 DEF Live
<1>4. CASE net' = (net \ Live) \cup {[r EXCEPT !.no = faults] : r \in Live}
  <2>1. Live' = {}
    BY <1>1, <1>4 DEF Live
  <2>2. \A r \in net' : (r \in net /\ r \notin Live) \/ \E q \in Live : r = [q EXCEPT !.no = faults]
    BY <1>4
  <2>3. ASSUME NEW r \in net', NEW q \in Live, r = [q EXCEPT !.no = faults]
        PROVE  /\ q \in net
               /\ r \in Request /\ r.kind = q.kind /\ r.secret = q.secret
               /\ r.cmd = q.cmd /\ r.outcome = q.outcome
    <3>1. q \in net
      BY DEF Live
    <3> QED
      BY <1>1, <2>3, <3>1
  <2>4. ASSUME NEW r \in net', r \in net
        PROVE  r \in Request
    BY <1>2, <2>4
  <2> QED
    BY <2>1, <2>2, <2>3, <2>4
<1> QED
  BY <1>3, <1>4 DEF Abandoned

\* The variables that a step of the control plane leaves alone keep their types.
LEMMA ServeCallInv ==
  ASSUME CallInv, NEW r \in net, Serve(r)
  PROVE  CallInv'
<1>1. r \in Request
  BY DEF CallInv, TypeOK
<1>2. UNCHANGED <<agentVars, faults, ran, interrupted>>
  BY DEF Serve, Refuse, EnrollChecked, EnrollCommitted, Heartbeat, ReportResult, history
<1>3. ASSUME NEW a \in Reply, Answer(r, a), a.kind # "none",
             a.kind # "commands" => a.cmds = <<>>,
             r.kind = "drawing" \/ r.kind = "enroll" => a.kind \in {"enrolled", "refused"},
             r.kind = "heartbeat" => a.kind \in {"commands", "refused"},
             r.kind = "report" => a.kind \in {"ack", "refused"},
             status' \in [Command -> Status], hash' \in Nat, drawn' \in Nat,
             lost' \subseteq Command
      PROVE  CallInv'
  <2>1. /\ net' \in SUBSET net
        /\ \/ r \in Live /\ Live' = {} /\ reply' = a /\ reply = NoReply
           \/ r \notin Live /\ Live' = Live /\ reply' = reply
    BY <1>3, AnswerEnds
  <2>2. TypeOK'
    BY <1>2, <1>3, <2>1 DEF CallInv, TypeOK, CallShape, Calling, agentVars
  <2>3. CallShape'
    <3>1. \A q \in net' : q.kind = "report" => q.cmd \in Command /\ q.outcome \in Outcome
      BY <2>1 DEF CallInv, CallShape
    <3>2. CASE r \in Live /\ Live' = {} /\ reply' = a
      <4>1. /\ a.kind = "enrolled" => pc = "enrolling"
            /\ a.kind = "commands" => pc = "beating"
            /\ a.kind = "ack" => pc = "reporting"
        BY <1>1, <1>3, <3>2 DEF CallInv, CallShape, Request
      <4> QED
        BY <1>2, <1>3, <3>1, <3>2, <4>1 DEF CallShape, agentVars
    <3>3. CASE Live' = Live /\ reply' = reply
      BY <1>2, <3>1, <3>3 DEF CallInv, CallShape, Calling, agentVars
    <3> QED
      BY <2>1, <3>2, <3>3
  <2> QED
    BY <2>2, <2>3 DEF CallInv
<1>4. CASE Refuse(r)
  <2>1. Refused \in Reply /\ Refused.kind = "refused" /\ Refused.cmds = <<>>
    BY DEF Refused, Reply, NoSecret
  <2>2. lost' \subseteq Command
    BY <1>4 DEF Refuse, CallInv, TypeOK, CallShape
  <2> QED
    BY <1>3, <1>4, <2>1, <2>2 DEF Refuse, serverVars, CallInv, TypeOK
<1>5. CASE EnrollChecked(r)
  <2> DEFINE q == [r EXCEPT !.kind = "drawing"]
  <2>1. q \in Request /\ q.kind = "drawing" /\ q.no = r.no
    BY <1>1 DEF Request
  <2>2. Live' = IF r \in Live THEN {q} ELSE Live
    BY <1>5, <2>1 DEF EnrollChecked, Live, CallInv, TypeOK
  <2>3. TypeOK'
    BY <1>2, <1>5, <2>1, <2>2 DEF EnrollChecked, CallInv, TypeOK, agentVars, serverVars, history,
       Calling
  <2>4. CallShape'
    <3>1. \A p \in net' : p \in net \/ p = q
      BY <1>5 DEF EnrollChecked
    <3>2. r \in Live => Calling /\ pc = "enrolling"
      BY <1>5 DEF EnrollChecked, CallInv, CallShape
    <3>3. UNCHANGED <<pc, reply>>
      BY <1>2, <1>5 DEF EnrollChecked, agentVars
    <3> QED
      BY <2>1, <2>2, <3>1, <3>2, <3>3 DEF CallInv, CallShape, Calling
  <2> QED
    BY <2>3, <2>4 DEF CallInv
<1>6. CASE EnrollCommitted(r)
  <2> DEFINE a == [kind |-> "enrolled", secret |-> drawn + 1, cmds |-> <<>>]
  <2>1. a \in Reply /\ drawn + 1 \in Nat
    BY DEF Reply, CallInv, TypeOK
  <2> QED
    BY <1>3, <1>6, <2>1 DEF EnrollCommitted, history, CallInv, TypeOK
<1>7. CASE Heartbeat(r)
  <2>1. PICK s \in Batches : /\ status' = Handed(s)
                             /\ Answer(r, [kind |-> "commands", secret |-> NoSecret, cmds |-> s])
                             /\ lost' = IF r.no = 0 THEN lost ELSE lost \cup Elements(s)
    BY <1>7 DEF Heartbeat
  <2>2. s \in Seq(Command) /\ Elements(s) \subseteq Command
    BY BatchIsPick DEF CallInv
  <2>3. [kind |-> "commands", secret |-> NoSecret, cmds |-> s] \in Reply
    BY <2>2 DEF Reply, NoSecret
  <2>4. status' \in [Command -> Status] /\ lost' \subseteq Command
    BY <2>1, <2>2 DEF Handed, Status, CallInv, TypeOK
  <2> QED
    BY <1>3, <1>7, <2>1, <2>3, <2>4 DEF Heartbeat, CallInv, TypeOK
<1>8. CASE ReportResult(r)
  <2> DEFINE a == [kind |-> "ack", secret |-> NoSecret, cmds |-> <<>>]
  <2>1. a \in Reply
    BY DEF Reply, NoSecret
  <2>2. status' \in [Command -> Status]
    BY <1>8 DEF ReportResult, CallInv, TypeOK, CallShape, Status
  <2> QED
    BY <1>3, <1>8, <2>1, <2>2 DEF ReportResult, CallInv, TypeOK, history
<1> QED
  BY <1>4, <1>5, <1>6, <1>7, <1>8 DEF Serve

\* Making a call.
LEMMA CallCallInv ==
  ASSUME CallInv, ~Calling,
         NEW k \in {"enroll", "heartbeat", "report"}, NEW sec \in Nat,
         NEW c \in Command \cup {NoCommand}, NEW o \in Outcome \cup {"none"},
         Call(k, sec, c, o),
         k = "report" => c \in Command /\ o \in Outcome,
         pc' = CASE k = "enroll" -> "enrolling" [] k = "heartbeat" -> "beating"
                 [] k = "report" -> "reporting",
         UNCHANGED <<serverVars, reply, file, faults, lost, interrupted>>,
         secret' \in Nat, inbox' \in Seq(Command), ran' \in [Command -> Seq(Outcome)]
  PROVE  CallInv'
<1> DEFINE q == [kind |-> k, no |-> 0, secret |-> sec, cmd |-> c, outcome |-> o]
<1>1. net' = net \cup {q} /\ Live' = {q} /\ q \in Request
  BY CallStarts
<1>2. reply' = NoReply /\ Calling'
  BY DEF CallInv, TypeOK, Calling
<1>3. TypeOK'
  BY <1>1, <1>2 DEF CallInv, TypeOK, serverVars
<1>4. CallShape'
  BY <1>1, <1>2 DEF CallInv, CallShape, NoReply
<1> QED
  BY <1>3, <1>4 DEF CallInv

\* A call that has returned leaves none to wait for.
LEMMA ReturnCallInv ==
  ASSUME CallInv, NEW k \in {"enrolled", "commands", "ack", "refused"}, Returned(k),
         pc' \in {"down", "saving", "idle", "working"},
         UNCHANGED <<serverVars, net, file, faults, history>>,
         secret' \in Nat, inbox' \in Seq(Command)
  PROVE  CallInv'
<1>1. reply # NoReply /\ reply' = NoReply
  BY DEF Returned, NoReply
<1>2. Live' = {}
  BY <1>1 DEF CallInv, TypeOK, Live
<1>3. TypeOK'
  BY <1>1, <1>2 DEF CallInv, TypeOK, serverVars, history, NoReply, Reply, NoSecret
<1>4. CallShape'
  BY <1>1, <1>2 DEF CallInv, CallShape, NoReply
<1> QED
  BY <1>3, <1>4 DEF CallInv

\* A step between two calls.
LEMMA IdleCallInv ==
  ASSUME CallInv, ~Calling,
         pc' \in {"writing", "idle"},
         UNCHANGED <<serverVars, net, reply, inbox, faults, history>>,
         secret' \in Nat, file' \in Nat \cup {Torn}
  PROVE  CallInv'
<1>1. Live' = {} /\ Live = {} /\ reply = NoReply /\ reply' = NoReply
  BY DEF CallInv, TypeOK, CallShape, Live
<1>2. TypeOK'
  BY <1>1 DEF CallInv, TypeOK, serverVars, history
<1>3. CallShape'
  BY <1>1 DEF CallInv, CallShape, NoReply
<1> QED
  BY <1>2, <1>3 DEF CallInv

LEMMA AgentCallInv ==
  ASSUME CallInv, AgentStep
  PROVE  CallInv'
<1> USE DEF NoSecret, Torn
<1>1. CASE Start
  <2>1. ~Calling /\ file \in Nat \cup {Torn}
    BY <1>1 DEF Start, Calling, CallInv, TypeOK
  <2>2. CASE file > 0
    BY <1>1, <2>1, <2>2, IdleCallInv DEF Start
  <2>3. CASE ~(file > 0)
    BY <1>1, <2>1, <2>3, CallCallInv DEF Start, CallInv, TypeOK, history
  <2> QED
    BY <2>2, <2>3
<1>2. CASE Enrolled
  BY <1>2, ReturnCallInv DEF Enrolled, CallInv, TypeOK, Reply
<1>3. CASE OpenSecretFile
  BY <1>3, IdleCallInv DEF OpenSecretFile, Calling, CallInv, TypeOK
<1>4. CASE WriteSecretFile
  BY <1>4, IdleCallInv DEF WriteSecretFile, Calling, CallInv, TypeOK
<1>5. CASE Beat
  BY <1>5, CallCallInv DEF Beat, Calling, CallInv, TypeOK, history
<1>6. CASE ReceiveCommands
  BY <1>6, ReturnCallInv DEF ReceiveCommands, CallInv, TypeOK, Reply
<1>7. CASE Reported
  BY <1>7, ReturnCallInv DEF Reported, CallInv, TypeOK
<1>8. CASE CallRaised
  <2>1. pc' \in {"down", "idle", "working"}
    BY <1>8 DEF CallRaised, AfterFailure, Returned, Calling
  <2> QED
    BY <1>8, <2>1, ReturnCallInv DEF CallRaised, CallInv, TypeOK
<1>9. CASE Rest
  BY <1>9, IdleCallInv DEF Rest, Calling, CallInv, TypeOK
<1>10. ASSUME NEW o \in Outcome, RunCommand(o)
       PROVE  CallInv'
  <2>1. ~Calling
    BY <1>10 DEF RunCommand, Calling
  <2>2. Head(inbox) \in Command /\ Tail(inbox) \in Seq(Command)
    BY <1>10 DEF RunCommand, CallInv, TypeOK
  <2>3. ran' \in [Command -> Seq(Outcome)]
    BY <1>10, <2>2 DEF RunCommand, CallInv, TypeOK
  <2> QED
    BY <1>10, <2>1, <2>2, <2>3, CallCallInv DEF RunCommand, CallInv, TypeOK
<1> QED
  BY <1>1, <1>2, <1>3, <1>4, <1>5, <1>6, <1>7, <1>8, <1>9, <1>10 DEF AgentStep

\* Giving the present call up.
LEMMA GiveUpCallInv ==
  ASSUME CallInv, Fault, net' \in Abandoned, reply' = NoReply,
         pc' \in {"down", "idle", "working"},
         secret' \in Nat, inbox' \in Seq(Command),
         lost' \subseteq lost \cup Held, interrupted' \in BOOLEAN,
         UNCHANGED <<serverVars, file, ran>>
  PROVE  CallInv'
<1>1. /\ Live' = {}
      /\ \A r \in net' :
            /\ r \in Request
            /\ r.kind = "report" => r.cmd \in Command /\ r.outcome \in Outcome
  BY FailureEnds DEF CallInv, CallShape
<1>2. Held \subseteq Command
  BY DEF Held, Elements, Live, CallInv, TypeOK, CallShape, Reply
<1>3. lost' \subseteq Command
  BY <1>2 DEF CallInv, TypeOK
<1>4. faults' \in 0 .. MaxFaults
  BY FleetAssumption DEF Fault, CallInv, TypeOK
<1>5. TypeOK'
  BY <1>1, <1>3, <1>4, NoReplyKind DEF CallInv, TypeOK, serverVars
<1>6. CallShape'
  BY <1>1, NoReplyKind DEF CallShape
<1> QED
  BY <1>5, <1>6 DEF CallInv

LEMMA FailureCallInv ==
  ASSUME CallInv, CallFails \/ Crash
  PROVE  CallInv'
<1>1. CASE CallFails
  <2>1. pc' \in {"down", "idle", "working"}
    BY <1>1 DEF CallFails, AfterFailure, Calling
  <2>2. interrupted' \in BOOLEAN
    BY <1>1 DEF CallFails
  <2> QED
    BY <1>1, <2>1, <2>2, GiveUpCallInv DEF CallFails, CallInv, TypeOK
<1>2. CASE Crash
  <2>1. interrupted' \in BOOLEAN
    BY <1>2 DEF Crash
  <2>2. NoSecret \in Nat /\ <<>> \in Seq(Command)
    BY DEF NoSecret
  <2> QED
    BY <1>2, <2>1, <2>2, GiveUpCallInv DEF Crash
<1> QED
  BY <1>1, <1>2

LEMMA NextCallInv == CallInv /\ [Next]_vars => CallInv'
<1> SUFFICES ASSUME CallInv, [Next]_vars PROVE CallInv'
  OBVIOUS
<1>1. ASSUME NEW c \in Command, Enqueue(c)
      PROVE  CallInv'
  <2>1. status' \in [Command -> Status]
    BY <1>1 DEF Enqueue, CallInv, TypeOK, Status
  <2> QED
    BY <1>1, <2>1 DEF Enqueue, CallInv, TypeOK, CallShape, Live, Calling, agentVars, history
<1>2. CASE UNCHANGED vars
  BY <1>2 DEF vars, serverVars, agentVars, history, CallInv, TypeOK, CallShape, Live, Calling
<1> QED
  BY <1>1, <1>2, ServeCallInv, AgentCallInv, FailureCallInv DEF Next

LEMMA InitCallInv == Init => CallInv
<1> SUFFICES ASSUME Init PROVE CallInv
  OBVIOUS
<1>1. Live = {} /\ net = {}
  BY DEF Init, Live
<1>2. ran \in [Command -> Seq(Outcome)] /\ inbox \in Seq(Command)
  BY DEF Init
<1>3. TypeOK
  <2>1. status \in [Command -> Status] /\ lost \subseteq Command /\ interrupted \in BOOLEAN
    BY DEF Init, Status
  <2>2. hash \in Nat /\ drawn \in Nat /\ file \in Nat /\ secret \in Nat /\ faults \in 0 .. MaxFaults
    BY FleetAssumption DEF Init, NoSecret
  <2>3. net \subseteq Request /\ reply \in Reply /\ ~(reply # NoReply)
    BY <1>1, NoReplyKind DEF Init
  <2>4. pc = "down"
    BY DEF Init
  <2> QED
    BY <1>1, <1>2, <2>1, <2>2, <2>3, <2>4 DEF TypeOK
<1>4. CallShape
  BY <1>1, NoReplyKind DEF Init, CallShape
<1> QED
  BY <1>3, <1>4 DEF CallInv

\* Every variable keeps its type and the agent never waits for two calls at once.
THEOREM TypeCorrect == Spec => []TypeOK
<1>1. CallInv => TypeOK
  BY DEF CallInv
<1> QED
  BY <1>1, InitCallInv, NextCallInv, PTL DEF Spec

-----------------------------------------------------------------------------
(* One life per command *)

\* A command is in at most one place: a batch on its way, the inbox, or one report; it is
\* in a batch or the inbox only before it has run, and in a report only after.
CommandInv ==
    /\ \A c \in Command :
        \/ status[c] \in {"none", "queued"} /\ ran[c] = <<>>
        \/ status[c] = "dispatched" /\ (ran[c] = <<>> \/ \E o \in Outcome : ran[c] = <<o>>)
        \/ status[c] \in Outcome /\ ran[c] = <<status[c]>>
    /\ Distinct(inbox) /\ Distinct(reply.cmds)
    /\ pc \notin {"working", "reporting"} => inbox = <<>>
    /\ \A c \in Elements(inbox) \cup Elements(reply.cmds) :
        status[c] = "dispatched" /\ ran[c] = <<>>
    /\ \A r \in net : r.kind = "report" =>
        status[r.cmd] = "dispatched" /\ ran[r.cmd] = <<r.outcome>>
    /\ \A q, r \in net : q.kind = "report" /\ r.kind = "report" /\ q.cmd = r.cmd => q = r
    /\ NothingVanishes

FleetInv == CallInv /\ CommandInv

\* An empty sequence has no elements.
LEMMA EmptyBatch == Elements(<<>>) = {} /\ Distinct(<<>>)
  BY DEF Elements, Distinct

\* What the agent holds, one by one.
LEMMA HeldOne ==
  ASSUME NEW c
  PROVE  c \in Held <=> \/ c \in Elements(inbox)
                       \/ c \in Elements(reply.cmds)
                       \/ \E r \in net : r.no = 0 /\ r.kind = "report" /\ r.cmd = c
  BY DEF Held, Live

\* Steps that move no command.
LEMMA Unmoved ==
  ASSUME FleetInv, UNCHANGED <<status, ran, inbox>>,
         pc' \notin {"working", "reporting"} => inbox = <<>>,
         reply'.cmds = reply.cmds,
         \A r \in net' : r.kind = "report" => r \in net,
         \A r \in net : r.kind = "report" => r \in net',
         lost \subseteq lost'
  PROVE  CommandInv'
<1>1. Elements(reply'.cmds) = Elements(reply.cmds) /\ Distinct(reply'.cmds)
  BY DEF FleetInv, CommandInv
<1>2. \A c : c \in Held <=> c \in Held'
  BY <1>1 DEF Held, Live
<1>3. NothingVanishes'
  BY <1>2 DEF FleetInv, CommandInv, NothingVanishes
<1>4. \A r \in net' : r.kind = "report" =>
          status[r.cmd] = "dispatched" /\ ran[r.cmd] = <<r.outcome>>
  BY DEF FleetInv, CommandInv
<1>5. \A q, r \in net' : q.kind = "report" /\ r.kind = "report" /\ q.cmd = r.cmd => q = r
  BY DEF FleetInv, CommandInv
<1> QED
  BY <1>1, <1>3, <1>4, <1>5 DEF FleetInv, CommandInv

LEMMA HeartbeatCommandInv ==
  ASSUME FleetInv, NEW r \in net, Heartbeat(r)
  PROVE  CommandInv' /\ \E S \in SUBSET Command :
             /\ \A c \in S : status[c] = "queued"
             /\ status' = [c \in Command |-> IF c \in S THEN "dispatched" ELSE status[c]]
<1>1. PICK s \in Batches : /\ status' = Handed(s)
                           /\ Answer(r, [kind |-> "commands", secret |-> NoSecret, cmds |-> s])
                           /\ lost' = IF r.no = 0 THEN lost ELSE lost \cup Elements(s)
  BY DEF Heartbeat
<1>2. /\ s \in Seq(Command) /\ Distinct(s)
      /\ \A c \in Elements(s) : c \in Command /\ status[c] = "queued"
  BY BatchIsPick DEF FleetInv, CallInv, Queued
<1> DEFINE a == [kind |-> "commands", secret |-> NoSecret, cmds |-> s]
<1>3. a \in Reply /\ a.cmds = s
  BY <1>2 DEF Reply, NoSecret
<1>4. /\ net' \in SUBSET net /\ net' = net \ {r}
      /\ \/ r \in Live /\ Live' = {} /\ reply' = a /\ reply = NoReply
         \/ r \notin Live /\ Live' = Live /\ reply' = reply
  BY <1>1, <1>3, AnswerEnds DEF FleetInv, Answer
<1>5. r.kind = "heartbeat" /\ UNCHANGED <<pc, inbox, ran>>
  BY DEF Heartbeat, agentVars
<1>6. \A c \in Command : status'[c] = IF c \in Elements(s) THEN "dispatched" ELSE status[c]
  BY <1>1 DEF Handed
<1>7. \A q \in net' : q.kind = "report" =>
         status'[q.cmd] = "dispatched" /\ ran'[q.cmd] = <<q.outcome>>
  BY <1>2, <1>4, <1>5, <1>6 DEF FleetInv, CommandInv, CallInv, CallShape
<1>8. \A c \in Command :
        \/ status'[c] \in {"none", "queued"} /\ ran'[c] = <<>>
        \/ status'[c] = "dispatched" /\ (ran'[c] = <<>> \/ \E o \in Outcome : ran'[c] = <<o>>)
        \/ status'[c] \in Outcome /\ ran'[c] = <<status'[c]>>
  BY <1>2, <1>5, <1>6 DEF FleetInv, CommandInv, Outcome
<1>9. \A c \in Elements(inbox') \cup Elements(s) : status'[c] = "dispatched" /\ ran'[c] = <<>>
  <2>1. Elements(inbox) \subseteq Command
    BY DEF FleetInv, CallInv, TypeOK, Elements
  <2> QED
    BY <1>2, <1>5, <1>6, <2>1 DEF FleetInv, CommandInv, Outcome
<1>10. \A q, p \in net' : q.kind = "report" /\ p.kind = "report" /\ q.cmd = p.cmd => q = p
  BY <1>4 DEF FleetInv, CommandInv
<1>11. ASSUME r \in Live /\ Live' = {} /\ reply' = a
       PROVE  CommandInv'
  <2>1. inbox = <<>> /\ pc = "beating" /\ reply = NoReply
    BY <1>5, <1>11 DEF FleetInv, CallInv, TypeOK, CallShape, CommandInv
  <2>2. Held = {}
    BY <1>5, <1>11, <2>1, NoReplyKind, EmptyBatch DEF Held, FleetInv, CallInv, TypeOK
  <2>3. Elements(s) \subseteq Held' /\ lost' = lost
    BY <1>1, <1>3, <1>11 DEF Held, Live
  <2>4. NothingVanishes'
    BY <1>6, <2>2, <2>3 DEF NothingVanishes, FleetInv, CommandInv
  <2>5. reply'.cmds = s /\ inbox' = <<>>
    BY <1>3, <1>5, <1>11, <2>1
  <2>6. Distinct(inbox') /\ Distinct(reply'.cmds)
    BY <1>2, <2>5, EmptyBatch
  <2> QED
    BY <1>7, <1>8, <1>9, <1>10, <2>4, <2>5, <2>6 DEF CommandInv
<1>12. ASSUME r \notin Live /\ Live' = Live /\ reply' = reply
       PROVE  CommandInv'
  <2>1. Held' = Held
    BY <1>5, <1>12 DEF Held
  <2>2. lost' = lost \cup Elements(s)
    BY <1>1, <1>12 DEF Live
  <2>3. NothingVanishes'
    BY <1>6, <2>1, <2>2 DEF NothingVanishes, FleetInv, CommandInv
  <2>4. \A c \in Elements(reply.cmds) : status'[c] = "dispatched" /\ ran'[c] = <<>>
    <3>1. Elements(reply.cmds) \subseteq Command
      BY DEF FleetInv, CallInv, TypeOK, Elements, Reply
    <3> QED
      BY <1>2, <1>5, <1>6, <3>1 DEF FleetInv, CommandInv
  <2> QED
    BY <1>5, <1>7, <1>8, <1>9, <1>10, <1>12, <2>3, <2>4 DEF CommandInv, FleetInv
<1>13. CommandInv'
  BY <1>4, <1>11, <1>12
<1>14. Elements(s) \in SUBSET Command
  BY <1>2
<1> QED
  BY <1>1, <1>2, <1>13, <1>14 DEF Handed

LEMMA ReportCommandInv ==
  ASSUME FleetInv, NEW r \in net, ReportResult(r)
  PROVE  /\ CommandInv'
         /\ r.cmd \in Command /\ status[r.cmd] = "dispatched" /\ ran[r.cmd] = <<r.outcome>>
         /\ status' = [status EXCEPT ![r.cmd] = r.outcome]
<1> DEFINE a == [kind |-> "ack", secret |-> NoSecret, cmds |-> <<>>]
<1>1. /\ r.kind = "report" /\ Answer(r, a) /\ status' = [status EXCEPT ![r.cmd] = r.outcome]
      /\ UNCHANGED <<pc, inbox, ran, lost>>
  BY DEF ReportResult, agentVars, history
<1>2. /\ r.cmd \in Command /\ r.outcome \in Outcome
      /\ status[r.cmd] = "dispatched" /\ ran[r.cmd] = <<r.outcome>>
  BY <1>1 DEF FleetInv, CallInv, CallShape, CommandInv
<1>3. a \in Reply /\ a.cmds = <<>>
  BY DEF Reply, NoSecret
<1>4. /\ net' = net \ {r}
      /\ \/ r \in Live /\ Live' = {} /\ reply' = a /\ reply = NoReply
         \/ r \notin Live /\ Live' = Live /\ reply' = reply
  BY <1>1, <1>3, AnswerEnds DEF FleetInv, Answer
<1>5. \A c \in Command : status'[c] = IF c = r.cmd THEN r.outcome ELSE status[c]
  BY <1>1, <1>2 DEF FleetInv, CallInv, TypeOK
<1>6. Elements(reply'.cmds) = Elements(reply.cmds) /\ Distinct(reply'.cmds)
  BY <1>3, <1>4, NoReplyKind, EmptyBatch DEF FleetInv, CommandInv
<1>7. \A c \in Elements(inbox) \cup Elements(reply.cmds) : c \in Command /\ c # r.cmd
  <2>1. Elements(inbox) \cup Elements(reply.cmds) \subseteq Command
    BY DEF FleetInv, CallInv, TypeOK, Elements, Reply
  <2> QED
    BY <1>2, <2>1 DEF FleetInv, CommandInv
<1>8. \A q \in net' : q.kind = "report" => q.cmd \in Command /\ q.cmd # r.cmd
  BY <1>1, <1>4 DEF FleetInv, CallInv, CallShape, CommandInv
<1>9. \A q \in net' : q.kind = "report" =>
         status'[q.cmd] = "dispatched" /\ ran'[q.cmd] = <<q.outcome>>
  BY <1>1, <1>4, <1>5, <1>8 DEF FleetInv, CommandInv
<1>10. \A q, p \in net' : q.kind = "report" /\ p.kind = "report" /\ q.cmd = p.cmd => q = p
  BY <1>4 DEF FleetInv, CommandInv
<1>11. \A c \in Command :
        \/ status'[c] \in {"none", "queued"} /\ ran'[c] = <<>>
        \/ status'[c] = "dispatched" /\ (ran'[c] = <<>> \/ \E o \in Outcome : ran'[c] = <<o>>)
        \/ status'[c] \in Outcome /\ ran'[c] = <<status'[c]>>
  BY <1>1, <1>2, <1>5 DEF FleetInv, CommandInv
<1>12. \A c \in Elements(inbox') \cup Elements(reply'.cmds) :
          status'[c] = "dispatched" /\ ran'[c] = <<>>
  BY <1>1, <1>5, <1>6, <1>7 DEF FleetInv, CommandInv
<1>13. NothingVanishes'
  <2> SUFFICES ASSUME NEW c \in Command, status'[c] = "dispatched"
               PROVE  c \in Held' \cup lost
    BY <1>1 DEF NothingVanishes
  <2>1. c # r.cmd /\ status[c] = "dispatched"
    BY <1>2, <1>5 DEF Outcome
  <2>2. c \in Held \/ c \in lost
    BY <2>1 DEF FleetInv, CommandInv, NothingVanishes
  <2>3. c \in Held => c \in Held'
    BY <1>1, <1>4, <1>6, <2>1 DEF Held, Live
  <2> QED
    BY <2>2, <2>3
<1>14. CommandInv'
  BY <1>1, <1>6, <1>9, <1>10, <1>11, <1>12, <1>13 DEF FleetInv, CommandInv
<1> QED
  BY <1>1, <1>2, <1>14

LEMMA ServeCommandInv ==
  ASSUME FleetInv, NEW r \in net, Serve(r)
  PROVE  CommandInv'
<1>1. CASE Refuse(r)
  <2>1. /\ net' = net \ {r}
        /\ \/ r \in Live /\ Live' = {} /\ reply' = Refused /\ reply = NoReply
           \/ r \notin Live /\ Live' = Live /\ reply' = reply
    <3>1. Refused \in Reply /\ Answer(r, Refused)
      BY <1>1 DEF Refuse, Refused, Reply, NoSecret
    <3> QED
      BY <3>1, AnswerEnds DEF FleetInv, Answer
  <2>2. /\ UNCHANGED <<status, ran, pc, inbox>>
        /\ lost' = IF r.kind = "report" THEN lost \cup {r.cmd} ELSE lost
    BY <1>1 DEF Refuse, agentVars, serverVars
  <2>3. Elements(reply'.cmds) = Elements(reply.cmds) /\ Distinct(reply'.cmds)
    BY <2>1, NoReplyKind, EmptyBatch DEF FleetInv, CommandInv, Refused
  <2>4. NothingVanishes'
    <3> SUFFICES ASSUME NEW c \in Command, status[c] = "dispatched"
                 PROVE  c \in Held' \cup lost'
      BY <2>2 DEF NothingVanishes
    <3>1. c \in Held \/ c \in lost
      BY DEF FleetInv, CommandInv, NothingVanishes
    <3>2. c \in Held => c \in Held' \/ (r.kind = "report" /\ c = r.cmd)
      BY <2>1, <2>2, <2>3 DEF Held, Live
    <3> QED
      BY <2>2, <3>1, <3>2
  <2> QED
    BY <2>1, <2>2, <2>3, <2>4 DEF FleetInv, CommandInv
<1>2. CASE EnrollChecked(r)
  <2> DEFINE q == [r EXCEPT !.kind = "drawing"]
  <2>1. r.kind = "enroll" /\ net' = (net \ {r}) \cup {q} /\ UNCHANGED <<status, ran, pc, inbox, reply, lost>>
    BY <1>2 DEF EnrollChecked, agentVars, serverVars, history
  <2>2. q.kind = "drawing"
    BY DEF FleetInv, CallInv, TypeOK, Request
  <2>3. /\ \A p \in net' : p.kind = "report" => p \in net
        /\ \A p \in net : p.kind = "report" => p \in net'
    BY <2>1, <2>2
  <2>4. pc' \notin {"working", "reporting"} => inbox = <<>>
    BY <2>1 DEF FleetInv, CommandInv
  <2> QED
    BY <2>1, <2>3, <2>4, Unmoved
<1>3. CASE EnrollCommitted(r)
  <2> DEFINE a == [kind |-> "enrolled", secret |-> drawn + 1, cmds |-> <<>>]
  <2>1. /\ r.kind = "drawing" /\ Answer(r, a)
        /\ UNCHANGED <<status, ran, pc, inbox, lost>>
    BY <1>3 DEF EnrollCommitted, agentVars, history
  <2>2. a \in Reply /\ a.cmds = <<>>
    BY DEF Reply, FleetInv, CallInv, TypeOK
  <2>3. net' = net \ {r} /\ (reply' = reply \/ (reply' = a /\ reply = NoReply))
    BY <2>1, <2>2, AnswerEnds DEF FleetInv, Answer
  <2>4. reply'.cmds = reply.cmds
    BY <2>2, <2>3, NoReplyKind
  <2>5. /\ \A p \in net' : p.kind = "report" => p \in net
        /\ \A p \in net : p.kind = "report" => p \in net'
    BY <2>1, <2>3
  <2>6. pc' \notin {"working", "reporting"} => inbox = <<>>
    BY <2>1 DEF FleetInv, CommandInv
  <2> QED
    BY <2>1, <2>4, <2>5, <2>6, Unmoved
<1> QED
  BY <1>1, <1>2, <1>3, HeartbeatCommandInv, ReportCommandInv DEF Serve

\* A command is carried out.
LEMMA RunCommandInv ==
  ASSUME FleetInv, NEW o \in Outcome, RunCommand(o)
  PROVE  /\ CommandInv'
         /\ \E c \in Command : /\ status[c] = "dispatched" /\ ran[c] = <<>>
                               /\ ran' = [ran EXCEPT ![c] = <<o>>]
<1> DEFINE c == Head(inbox)
           q == [kind |-> "report", no |-> 0, secret |-> secret, cmd |-> c, outcome |-> o]
<1>1. /\ c \in Elements(inbox) /\ c \in Command
      /\ inbox' \in Seq(Command) /\ Distinct(inbox')
      /\ Elements(inbox') = Elements(inbox) \ {c}
  BY TailForgetsHead DEF RunCommand, FleetInv, CallInv, TypeOK, CommandInv
<1>2. status[c] = "dispatched" /\ ran[c] = <<>>
  BY <1>1 DEF FleetInv, CommandInv
<1>3. /\ ran' = [ran EXCEPT ![c] = Append(@, o)] /\ pc' = "reporting"
      /\ UNCHANGED <<status, reply, lost>> /\ net' = net \cup {q}
  BY DEF RunCommand, serverVars, Call
<1>4. ran' = [ran EXCEPT ![c] = <<o>>]
  BY <1>1, <1>2, <1>3 DEF FleetInv, CallInv, TypeOK
<1>5. \A d \in Command : ran'[d] = IF d = c THEN <<o>> ELSE ran[d]
  BY <1>1, <1>4 DEF FleetInv, CallInv, TypeOK
<1>6. Elements(reply.cmds) = {} /\ Distinct(reply.cmds)
  <2>1. pc = "working"
    BY DEF RunCommand
  <2>2. reply = NoReply
    BY <2>1 DEF FleetInv, CallInv, TypeOK, Calling
  <2> QED
    BY <2>2, NoReplyKind, EmptyBatch
<1>7. \A p \in net : p.kind = "report" => p.cmd \in Command /\ p.cmd # c
  BY <1>2 DEF FleetInv, CommandInv, CallInv, CallShape
<1>8. q.kind = "report" /\ q.cmd = c /\ q.outcome = o /\ q.no = 0
  OBVIOUS
<1> HIDE DEF q
<1>9. \A d \in Command :
        \/ status'[d] \in {"none", "queued"} /\ ran'[d] = <<>>
        \/ status'[d] = "dispatched" /\ (ran'[d] = <<>> \/ \E u \in Outcome : ran'[d] = <<u>>)
        \/ status'[d] \in Outcome /\ ran'[d] = <<status'[d]>>
  BY <1>2, <1>3, <1>5 DEF FleetInv, CommandInv
<1>10. \A d \in Elements(inbox') \cup Elements(reply'.cmds) :
          status'[d] = "dispatched" /\ ran'[d] = <<>>
  <2>1. Elements(inbox) \subseteq Command
    BY DEF FleetInv, CallInv, TypeOK, Elements
  <2> QED
    BY <1>1, <1>3, <1>5, <1>6, <2>1 DEF FleetInv, CommandInv
<1>11. \A p \in net' : p.kind = "report" =>
          status'[p.cmd] = "dispatched" /\ ran'[p.cmd] = <<p.outcome>>
  BY <1>1, <1>2, <1>3, <1>5, <1>7, <1>8 DEF FleetInv, CommandInv
<1>12. \A p, r \in net' : p.kind = "report" /\ r.kind = "report" /\ p.cmd = r.cmd => p = r
  BY <1>3, <1>7, <1>8 DEF FleetInv, CommandInv
<1>13. NothingVanishes'
  <2> SUFFICES ASSUME NEW d \in Command, status[d] = "dispatched"
               PROVE  d \in Held' \cup lost
    BY <1>3 DEF NothingVanishes
  <2>1. d \in Held \/ d \in lost
    BY DEF FleetInv, CommandInv, NothingVanishes
  <2>2. c \in Held'
    BY <1>3, <1>8 DEF Held, Live
  <2>3. d # c /\ d \in Held => d \in Held'
    BY <1>1, <1>3 DEF Held, Live
  <2> QED
    BY <2>1, <2>2, <2>3
<1>14. CommandInv'
  BY <1>1, <1>3, <1>6, <1>9, <1>10, <1>11, <1>12, <1>13 DEF CommandInv
<1> QED
  BY <1>1, <1>2, <1>4, <1>14

\* A batch goes from the answer into the empty inbox.
LEMMA ReceiveCommandInv ==
  ASSUME FleetInv, ReceiveCommands
  PROVE  CommandInv'
<1>1. /\ pc = "beating" /\ pc' = "working" /\ inbox' = reply.cmds /\ reply' = NoReply
      /\ UNCHANGED <<status, ran, net, lost>>
  BY DEF ReceiveCommands, Returned, serverVars, history, FleetInv, CallInv, CallShape
<1>2. inbox = <<>>
  BY <1>1 DEF FleetInv, CommandInv
<1>3. Elements(reply'.cmds) = {} /\ Distinct(reply'.cmds)
  BY <1>1, NoReplyKind, EmptyBatch
<1>4. Elements(inbox') = Elements(reply.cmds) /\ Elements(inbox) = {} /\ Distinct(inbox')
  BY <1>1, <1>2, EmptyBatch DEF FleetInv, CommandInv
<1>5. Held' = Held
  BY <1>1, <1>3, <1>4 DEF Held, Live
<1>6. NothingVanishes'
  BY <1>1, <1>5 DEF NothingVanishes, FleetInv, CommandInv
<1> QED
  BY <1>1, <1>3, <1>4, <1>6 DEF FleetInv, CommandInv

\* Making a call that reports nothing.
LEMMA BareCallCommandInv ==
  ASSUME FleetInv, ~Calling, NEW k \in {"enroll", "heartbeat"}, NEW sec,
         Call(k, sec, NoCommand, "none"),
         UNCHANGED <<status, ran, inbox, reply, lost>>,
         inbox = <<>>
  PROVE  CommandInv'
<1>1. /\ \A p \in net' : p.kind = "report" => p \in net
      /\ \A p \in net : p.kind = "report" => p \in net'
  BY DEF Call
<1> QED
  BY <1>1, Unmoved

\* Returning from a call that handed out nothing.
LEMMA ReturnCommandInv ==
  ASSUME FleetInv, NEW k, k # "commands", Returned(k),
         UNCHANGED <<status, ran, inbox, net, lost>>,
         pc' \notin {"working", "reporting"} => inbox = <<>>
  PROVE  CommandInv'
<1>1. reply'.cmds = reply.cmds
  BY NoReplyKind DEF Returned, FleetInv, CallInv, CallShape
<1> QED
  BY <1>1, Unmoved

LEMMA AgentCommandInv ==
  ASSUME FleetInv, AgentStep
  PROVE  /\ CommandInv'
         /\ \/ UNCHANGED <<status, ran>>
            \/ \E c \in Command, o \in Outcome :
                  /\ status[c] = "dispatched" /\ ran[c] = <<>>
                  /\ ran' = [ran EXCEPT ![c] = <<o>>] /\ UNCHANGED status
<1>1. pc \notin {"working", "reporting"} => inbox = <<>>
  BY DEF FleetInv, CommandInv
<1>2. CASE Start
  <2>1. ~Calling /\ inbox = <<>> /\ UNCHANGED <<status, ran, inbox, reply, lost>>
    BY <1>1, <1>2 DEF Start, Calling, serverVars, history
  <2>2. CASE file > 0
    BY <1>2, <2>1, <2>2, Unmoved DEF Start
  <2>3. CASE ~(file > 0)
    BY <1>2, <2>1, <2>3, BareCallCommandInv DEF Start
  <2> QED
    BY <2>1, <2>2, <2>3
<1>3. CASE Enrolled
  <2>1. UNCHANGED <<status, ran, inbox, net, lost>> /\ inbox = <<>> /\ Returned("enrolled")
    BY <1>1, <1>3 DEF Enrolled, serverVars, history, Returned, FleetInv, CallInv, CallShape
  <2> QED
    BY <2>1, ReturnCommandInv
<1>4. CASE OpenSecretFile
  BY <1>1, <1>4, Unmoved DEF OpenSecretFile, serverVars, history
<1>5. CASE WriteSecretFile
  BY <1>1, <1>5, Unmoved DEF WriteSecretFile, serverVars, history
<1>6. CASE Beat
  BY <1>1, <1>6, BareCallCommandInv DEF Beat, Calling, serverVars, history
<1>7. CASE ReceiveCommands
  BY <1>7, ReceiveCommandInv DEF ReceiveCommands, serverVars, history
<1>8. CASE Reported
  BY <1>8, ReturnCommandInv DEF Reported, serverVars, history
<1>9. CASE CallRaised
  <2>1. UNCHANGED <<status, ran, inbox, net, lost>> /\ Returned("refused")
    BY <1>9 DEF CallRaised, serverVars, history
  <2>2. pc' \notin {"working", "reporting"} => inbox = <<>>
    BY <1>1, <1>9 DEF CallRaised, AfterFailure, Returned, Calling
  <2> QED
    BY <2>1, <2>2, ReturnCommandInv
<1>10. CASE Rest
  BY <1>10, Unmoved DEF Rest, serverVars, history
<1>11. ASSUME NEW o \in Outcome, RunCommand(o)
       PROVE  /\ CommandInv'
              /\ \E c \in Command : /\ status[c] = "dispatched" /\ ran[c] = <<>>
                                    /\ ran' = [ran EXCEPT ![c] = <<o>>] /\ UNCHANGED status
  <2>1. UNCHANGED status
    BY <1>11 DEF RunCommand, serverVars
  <2> QED
    BY <1>11, <2>1, RunCommandInv
<1> QED
  BY <1>2, <1>3, <1>4, <1>5, <1>6, <1>7, <1>8, <1>9, <1>10, <1>11 DEF AgentStep

\* Giving up a call, or everything: what was held and is not kept counts as lost.
LEMMA GiveUpCommandInv ==
  ASSUME FleetInv, Fault, net' \in Abandoned, reply' = NoReply,
         inbox' \in {inbox, <<>>},
         pc' \notin {"working", "reporting"} => inbox' = <<>>,
         lost' = lost \cup (Held \ Elements(inbox')),
         UNCHANGED <<status, ran>>
  PROVE  CommandInv'
<1>1. /\ Live' = {}
      /\ \A r \in net' : \E q \in net :
            /\ r = q \/ (q \in Live /\ r = [q EXCEPT !.no = faults])
            /\ r.kind = q.kind /\ r.cmd = q.cmd /\ r.outcome = q.outcome
  BY FailureEnds DEF FleetInv
<1>2. /\ Elements(reply'.cmds) = {} /\ Distinct(reply'.cmds) /\ Distinct(inbox')
      /\ Elements(inbox') \subseteq Elements(inbox)
  BY NoReplyKind, EmptyBatch DEF FleetInv, CommandInv
<1>3. \A r \in net' : r.kind = "report" =>
         status[r.cmd] = "dispatched" /\ ran[r.cmd] = <<r.outcome>>
  BY <1>1 DEF FleetInv, CommandInv
<1>4. ASSUME NEW p \in net', NEW r \in net', p.kind = "report", r.kind = "report",
             p.cmd = r.cmd
      PROVE  p = r
  <2>1. PICK a \in net : /\ p = a \/ (a \in Live /\ p = [a EXCEPT !.no = faults])
                         /\ p.kind = a.kind /\ p.cmd = a.cmd
    BY <1>1
  <2>2. PICK b \in net : /\ r = b \/ (b \in Live /\ r = [b EXCEPT !.no = faults])
                         /\ r.kind = b.kind /\ r.cmd = b.cmd
    BY <1>1
  <2>3. a = b
    BY <1>4, <2>1, <2>2 DEF FleetInv, CommandInv
  <2>4. p \notin Live /\ r \notin Live
    BY <1>1 DEF Live
  <2> QED
    BY <2>1, <2>2, <2>3, <2>4
<1>5. NothingVanishes'
  <2> SUFFICES ASSUME NEW c \in Command, status[c] = "dispatched"
               PROVE  c \in Held' \cup lost'
    BY DEF NothingVanishes
  <2>1. c \in Held \/ c \in lost
    BY DEF FleetInv, CommandInv, NothingVanishes
  <2>2. Elements(inbox') \subseteq Held'
    BY DEF Held
  <2> QED
    BY <2>1, <2>2
<1> QED
  BY <1>2, <1>3, <1>4, <1>5 DEF FleetInv, CommandInv

LEMMA FailureCommandInv ==
  ASSUME FleetInv, CallFails \/ Crash
  PROVE  CommandInv' /\ UNCHANGED <<status, ran>>
<1>1. CASE CallFails
  <2>1. UNCHANGED <<status, ran, inbox>>
    BY <1>1 DEF CallFails, serverVars
  <2>2. pc' \notin {"working", "reporting"} => inbox = <<>>
    BY <1>1 DEF CallFails, AfterFailure, Calling, FleetInv, CommandInv
  <2>3. Fault /\ net' \in Abandoned /\ reply' = NoReply /\ lost' = lost \cup (Held \ Elements(inbox))
    BY <1>1 DEF CallFails
  <2>4. inbox' = inbox /\ Elements(inbox') = Elements(inbox)
    BY <2>1
  <2> QED
    BY <2>1, <2>2, <2>3, <2>4, GiveUpCommandInv
<1>2. CASE Crash
  <2>1. UNCHANGED <<status, ran>> /\ inbox' = <<>>
    BY <1>2 DEF Crash, serverVars
  <2>2. Fault /\ net' \in Abandoned /\ reply' = NoReply /\ lost' = lost \cup Held
    BY <1>2 DEF Crash
  <2>3. Held \ Elements(inbox') = Held
    BY <2>1, EmptyBatch
  <2> QED
    BY <2>1, <2>2, <2>3, GiveUpCommandInv
<1> QED
  BY <1>1, <1>2

LEMMA InitFleetInv == Init => FleetInv
<1> SUFFICES ASSUME Init PROVE FleetInv
  OBVIOUS
<1>1. /\ Distinct(inbox) /\ Elements(inbox) = {}
      /\ Distinct(reply.cmds) /\ Elements(reply.cmds) = {}
  BY NoReplyKind, EmptyBatch DEF Init
<1>2. \A c \in Command : status[c] = "none" /\ ran[c] = <<>>
  BY DEF Init
<1>3. net = {} /\ inbox = <<>>
  BY DEF Init
<1>4. NothingVanishes
  BY <1>2 DEF NothingVanishes
<1> QED
  BY <1>1, <1>2, <1>3, <1>4, InitCallInv DEF FleetInv, CommandInv

LEMMA EnqueueCommandInv ==
  ASSUME FleetInv, NEW c \in Command, Enqueue(c)
  PROVE  CommandInv'
<1>1. /\ status[c] = "none" /\ ran[c] = <<>>
      /\ \A d \in Command : status'[d] = IF d = c THEN "queued" ELSE status[d]
      /\ UNCHANGED <<ran, inbox, reply, net, pc, lost>>
  BY DEF Enqueue, agentVars, history, FleetInv, CallInv, TypeOK, CommandInv, Outcome
<1>2. Elements(inbox) \cup Elements(reply.cmds) \subseteq Command
  BY DEF FleetInv, CallInv, TypeOK, Elements, Reply
<1>3. \A d \in Elements(inbox) \cup Elements(reply.cmds) :
         status'[d] = "dispatched" /\ ran[d] = <<>>
  BY <1>1, <1>2 DEF FleetInv, CommandInv
<1>4. \A r \in net : r.kind = "report" =>
         status'[r.cmd] = "dispatched" /\ ran[r.cmd] = <<r.outcome>>
  BY <1>1 DEF FleetInv, CommandInv, CallInv, CallShape
<1>5. \A d \in Command :
        \/ status'[d] \in {"none", "queued"} /\ ran[d] = <<>>
        \/ status'[d] = "dispatched" /\ (ran[d] = <<>> \/ \E u \in Outcome : ran[d] = <<u>>)
        \/ status'[d] \in Outcome /\ ran[d] = <<status'[d]>>
  BY <1>1 DEF FleetInv, CommandInv
<1>6. Held' = Held
  BY <1>1 DEF Held, Live
<1>7. NothingVanishes'
  BY <1>1, <1>6 DEF NothingVanishes, FleetInv, CommandInv
<1> QED
  BY <1>1, <1>3, <1>4, <1>5, <1>7 DEF FleetInv, CommandInv

LEMMA NextFleetInv == FleetInv /\ [Next]_vars => FleetInv'
<1> SUFFICES ASSUME FleetInv, [Next]_vars PROVE FleetInv'
  OBVIOUS
<1>1. CallInv'
  BY NextCallInv DEF FleetInv
<1>2. CASE UNCHANGED vars
  <2>1. CommandInv'
    BY <1>2 DEF vars, serverVars, agentVars, history, FleetInv, CommandInv, NothingVanishes, Held, Live
  <2> QED
    BY <1>1, <2>1 DEF FleetInv
<1>3. CASE Next
  BY <1>1, <1>3, EnqueueCommandInv, ServeCommandInv, AgentCommandInv, FailureCommandInv DEF Next, FleetInv
<1> QED
  BY <1>2, <1>3

\* No command vanishes but by a failure: neither by what became of another command, nor
\* by a late answer, nor by an empty cycle (agent.py tick).
THEOREM CommandsAreKept == Spec => []NothingVanishes
<1>1. FleetInv => NothingVanishes
  BY DEF FleetInv, CommandInv
<1> QED
  BY <1>1, InitFleetInv, NextFleetInv, PTL DEF Spec

\* Every step of the fleet is a step of the life of a command, or none.
LEMMA StepRefines == FleetInv /\ [Next]_vars => [Life!Next]_<<status, ran>>
<1> SUFFICES ASSUME FleetInv, [Next]_vars
             PROVE  Life!Next \/ UNCHANGED <<status, ran>>
  OBVIOUS
<1>1. ASSUME NEW c \in Command, Enqueue(c)
      PROVE  Life!Queue(c)
  BY <1>1 DEF Enqueue, history, Life!Queue
<1>2. ASSUME NEW r \in net, Serve(r)
      PROVE  Life!Next \/ UNCHANGED <<status, ran>>
  <2>1. UNCHANGED ran
    BY <1>2 DEF Serve, Refuse, EnrollChecked, EnrollCommitted, Heartbeat, ReportResult, history
  <2>2. CASE Refuse(r) \/ EnrollChecked(r) \/ EnrollCommitted(r)
    BY <2>1, <2>2 DEF Refuse, EnrollChecked, EnrollCommitted, serverVars
  <2>3. CASE Heartbeat(r)
    <3>1. PICK S \in SUBSET Command :
             /\ \A c \in S : status[c] = "queued"
             /\ status' = [c \in Command |-> IF c \in S THEN "dispatched" ELSE status[c]]
      BY <2>3, HeartbeatCommandInv
    <3>2. Life!Dispatch(S)
      BY <2>1, <3>1 DEF Life!Dispatch
    <3> QED
      BY <3>2 DEF Life!Next
  <2>4. CASE ReportResult(r)
    <3>1. /\ r.cmd \in Command /\ status[r.cmd] = "dispatched" /\ ran[r.cmd] = <<r.outcome>>
          /\ status' = [status EXCEPT ![r.cmd] = r.outcome]
      BY <2>4, ReportCommandInv
    <3>2. r.outcome \in Outcome
      BY <2>4 DEF ReportResult, FleetInv, CallInv, CallShape
    <3>3. ran[r.cmd] # <<>> /\ Head(ran[r.cmd]) = r.outcome
      BY <3>1, <3>2
    <3>4. Life!Report(r.cmd)
      BY <2>1, <3>1, <3>3 DEF Life!Report
    <3> QED
      BY <3>1, <3>4 DEF Life!Next
  <2> QED
    BY <1>2, <2>2, <2>3, <2>4 DEF Serve
<1>3. CASE AgentStep
  <2>1. \/ UNCHANGED <<status, ran>>
        \/ \E c \in Command, o \in Outcome :
              /\ status[c] = "dispatched" /\ ran[c] = <<>>
              /\ ran' = [ran EXCEPT ![c] = <<o>>] /\ UNCHANGED status
    BY <1>3, AgentCommandInv
  <2>2. ASSUME NEW c \in Command, NEW o \in Outcome,
               status[c] = "dispatched", ran[c] = <<>>,
               ran' = [ran EXCEPT ![c] = <<o>>], UNCHANGED status
        PROVE  Life!Next
    <3>1. Life!CarryOut(c, o)
      BY <2>2 DEF Life!CarryOut
    <3> QED
      BY <3>1 DEF Life!Next, Life!Outcome, Outcome
  <2> QED
    BY <2>1, <2>2
<1>4. CASE CallFails \/ Crash
  BY <1>4, FailureCommandInv
<1>5. CASE UNCHANGED vars
  BY <1>5 DEF vars, serverVars, history
<1>6. (\E c \in Command : Enqueue(c)) => Life!Next
  BY <1>1 DEF Life!Next
<1> QED
  BY <1>2, <1>3, <1>4, <1>5, <1>6 DEF Next

\* The fleet queue and its agent implement the life of a command: it is handed out once,
\* run at most once and reported as it went, whatever fails and however late a call is
\* served (fleet.py heartbeat and report_command_result, agent.py tick).
THEOREM CommandLifeImplemented == Spec => ImplementsCommandLife
<1>1. Init => Life!Init
  BY DEF Init, Life!Init
<1> QED
  BY <1>1, InitFleetInv, NextFleetInv, StepRefines, PTL DEF Spec, Life!Spec, ImplementsCommandLife

-----------------------------------------------------------------------------
(* Who can lock the agent out *)

Enrolling(r) == r.kind \in {"enroll", "drawing"}

\* Where the secret is that the server expects, as long as no enrolment has failed: there
\* is one enrolment at most, the one the agent waits for, and none once there is a secret.
SecretKept ==
    /\ \A r \in net : Enrolling(r) => r.no = 0 /\ hash = NoSecret
    /\ hash = NoSecret => /\ file = NoSecret /\ pc \in {"down", "enrolling"}
                          /\ reply.kind # "enrolled"
    /\ hash # NoSecret => /\ pc = "enrolling" => reply.kind = "enrolled" /\ reply.secret = hash
                          /\ pc \in {"saving", "writing"} => secret = hash
                          /\ pc \notin {"enrolling", "saving", "writing"} => file = hash

LockInv == FleetInv /\ (~interrupted => SecretKept)

\* An agent whose secret the fleet knows is not locked out.
LEMMA SecretKeptSuffices == SecretKept => ~LockedOut
  BY DEF SecretKept, LockedOut

\* Serving a call: the secret that the fleet then knows is the one in the reply,
LEMMA ServeKeepsSecret ==
  ASSUME FleetInv, SecretKept, NEW r \in net, Serve(r)
  PROVE  SecretKept'
<1>1. UNCHANGED <<pc, file, secret>>
  BY DEF Serve, Refuse, EnrollChecked, EnrollCommitted, Heartbeat, ReportResult, agentVars
<1>2. ASSUME NEW a \in Reply, Answer(r, a), a.kind # "enrolled", ~Enrolling(r), UNCHANGED hash
      PROVE  SecretKept'
  <2>1. net' \in SUBSET net /\ (reply' = reply \/ (reply' = a /\ r \in Live))
    BY <1>2, AnswerEnds DEF FleetInv
  <2>2. r \in Live => pc # "enrolling"
    BY <1>2 DEF Enrolling, FleetInv, CallInv, CallShape
  <2> QED
    BY <1>1, <1>2, <2>1, <2>2 DEF SecretKept
<1>3. CASE Refuse(r)
  <2>1. Refused \in Reply /\ Refused.kind # "enrolled"
    BY DEF Refused, Reply, NoSecret
  <2>2. ~Enrolling(r) /\ Answer(r, Refused) /\ UNCHANGED hash
    BY <1>3 DEF Refuse, Enrolling, SecretKept, serverVars
  <2> QED
    BY <1>2, <2>1, <2>2
<1>4. CASE EnrollChecked(r)
  <2> DEFINE q == [r EXCEPT !.kind = "drawing"]
  <2>1. /\ net' = (net \ {r}) \cup {q} /\ UNCHANGED <<hash, reply>>
        /\ Enrolling(r) /\ hash = NoSecret
    BY <1>4 DEF EnrollChecked, Enrolling, serverVars
  <2>2. q.no = 0
    BY <2>1 DEF SecretKept, FleetInv, CallInv, TypeOK, Request
  <2>3. \A p \in net' : p \in net \/ p = q
    BY <2>1
  <2> HIDE DEF q
  <2> QED
    BY <1>1, <2>1, <2>2, <2>3 DEF SecretKept
<1>5. CASE EnrollCommitted(r)
  <2> DEFINE a == [kind |-> "enrolled", secret |-> drawn + 1, cmds |-> <<>>]
  <2>1. Enrolling(r) /\ Answer(r, a) /\ hash' = drawn + 1
    BY <1>5 DEF EnrollCommitted, Enrolling
  <2>2. a \in Reply /\ drawn + 1 # NoSecret /\ a.kind = "enrolled" /\ a.secret = drawn + 1
    BY DEF Reply, NoSecret, FleetInv, CallInv, TypeOK
  <2>3. r \in Live
    BY <2>1 DEF SecretKept, Live
  <2>4. net' \in SUBSET net /\ reply' = a /\ Live' = {}
    BY <2>1, <2>2, <2>3, AnswerEnds DEF FleetInv
  <2>5. pc = "enrolling"
    BY <2>1, <2>3 DEF Enrolling, FleetInv, CallInv, CallShape
  <2>6. \A p \in net' : ~Enrolling(p)
    BY <2>4 DEF SecretKept, Live
  <2> QED
    BY <1>1, <2>1, <2>2, <2>4, <2>5, <2>6 DEF SecretKept
<1>6. CASE Heartbeat(r)
  <2>1. PICK s \in Batches : Answer(r, [kind |-> "commands", secret |-> NoSecret, cmds |-> s])
    BY <1>6 DEF Heartbeat
  <2> DEFINE a == [kind |-> "commands", secret |-> NoSecret, cmds |-> s]
  <2>2. a \in Reply /\ a.kind # "enrolled"
    BY BatchIsPick DEF Reply, NoSecret, FleetInv, CallInv
  <2>3. ~Enrolling(r) /\ UNCHANGED hash
    BY <1>6 DEF Heartbeat, Enrolling
  <2> QED
    BY <1>2, <2>1, <2>2, <2>3
<1>7. CASE ReportResult(r)
  <2> DEFINE a == [kind |-> "ack", secret |-> NoSecret, cmds |-> <<>>]
  <2>1. a \in Reply /\ a.kind # "enrolled"
    BY DEF Reply, NoSecret
  <2>2. ~Enrolling(r) /\ UNCHANGED hash /\ Answer(r, a)
    BY <1>7 DEF ReportResult, Enrolling
  <2> QED
    BY <1>2, <2>1, <2>2
<1> QED
  BY <1>3, <1>4, <1>5, <1>6, <1>7 DEF Serve

\* and the agent saves the one it was given before it uses it.
LEMMA AgentKeepsSecret ==
  ASSUME FleetInv, SecretKept, AgentStep
  PROVE  SecretKept' /\ UNCHANGED interrupted
<1> USE DEF NoSecret
<1>1. /\ UNCHANGED <<hash, interrupted>>
      /\ \A r \in net' : Enrolling(r) => r \in net \/ (r.no = 0 /\ pc = "down" /\ ~(file > 0))
  BY DEF AgentStep, Start, Enrolled, OpenSecretFile, WriteSecretFile, Beat, ReceiveCommands,
     Reported, CallRaised, Rest, RunCommand, Call, Enrolling, serverVars, history
<1>2. pc = "down" /\ hash # 0 => file > 0
  BY DEF SecretKept, FleetInv, CallInv, TypeOK
<1>3. \A r \in net' : Enrolling(r) => r.no = 0 /\ hash' = 0
  BY <1>1, <1>2 DEF SecretKept
<1>4. CASE Start
  BY <1>1, <1>2, <1>3, <1>4 DEF Start, SecretKept
<1>5. CASE Enrolled
  BY <1>1, <1>3, <1>5 DEF Enrolled, Returned, SecretKept, FleetInv, CallInv, CallShape
<1>6. CASE OpenSecretFile
  BY <1>1, <1>3, <1>6 DEF OpenSecretFile, SecretKept
<1>7. CASE WriteSecretFile
  BY <1>1, <1>3, <1>7 DEF WriteSecretFile, SecretKept
<1>8. CASE CallRaised
  BY <1>1, <1>3, <1>8, NoReplyKind DEF CallRaised, AfterFailure, Returned, Calling, SecretKept
<1>9. CASE Beat \/ ReceiveCommands \/ Reported \/ Rest \/ \E o \in Outcome : RunCommand(o)
  <2>1. /\ pc \in {"idle", "beating", "reporting", "working"}
        /\ pc' \in {"idle", "beating", "reporting", "working"}
        /\ UNCHANGED file
    BY <1>9 DEF Beat, ReceiveCommands, Reported, Rest, RunCommand, Returned, FleetInv, CallInv, CallShape
  <2> QED
    BY <1>1, <1>3, <2>1 DEF SecretKept
<1> QED
  BY <1>1, <1>4, <1>5, <1>6, <1>7, <1>8, <1>9 DEF AgentStep

\* A failure that is not one of an enrolment leaves the secret where it is.
LEMMA FailureKeepsSecret ==
  ASSUME FleetInv, SecretKept, pc \notin {"enrolling", "saving", "writing"},
         CallFails \/ Crash
  PROVE  SecretKept'
<1>1. Fault /\ net' \in Abandoned /\ UNCHANGED <<hash, file>>
  BY DEF CallFails, Crash, serverVars
<1>2. \A r \in net : ~Enrolling(r)
  <2>1. \A r \in Live : ~Enrolling(r)
    BY DEF Enrolling, FleetInv, CallInv, CallShape
  <2> QED
    BY <2>1 DEF SecretKept, Live
<1>3. \A r \in net' : ~Enrolling(r)
  BY <1>1, <1>2, FailureEnds DEF FleetInv, Enrolling
<1>4. pc' \in {"down", "idle", "working"} /\ pc # "down"
  BY DEF CallFails, Crash, AfterFailure, Calling
<1> QED
  BY <1>1, <1>3, <1>4 DEF SecretKept

LEMMA NextLockInv == LockInv /\ [Next]_vars => LockInv'
<1> SUFFICES ASSUME LockInv, [Next]_vars PROVE LockInv'
  OBVIOUS
<1>1. FleetInv'
  BY NextFleetInv DEF LockInv
<1>2. ASSUME ~interrupted'
      PROVE  SecretKept'
  <2>1. CASE CallFails \/ Crash
    <3>1. ~interrupted /\ pc \notin {"enrolling", "saving", "writing"}
      BY <1>2, <2>1 DEF CallFails, Crash, Calling
    <3> QED
      BY <2>1, <3>1, FailureKeepsSecret DEF LockInv
  <2>2. ASSUME NEW r \in net, Serve(r)
        PROVE  SecretKept'
    <3>1. UNCHANGED interrupted
      BY <2>2 DEF Serve, Refuse, EnrollChecked, EnrollCommitted, Heartbeat, ReportResult, history
    <3> QED
      BY <1>2, <2>2, <3>1, ServeKeepsSecret DEF LockInv
  <2>3. CASE AgentStep
    <3>1. UNCHANGED interrupted
      BY <2>3 DEF AgentStep, Start, Enrolled, OpenSecretFile, WriteSecretFile, Beat,
         ReceiveCommands, Reported, CallRaised, Rest, RunCommand, history
    <3> QED
      BY <1>2, <2>3, <3>1, AgentKeepsSecret DEF LockInv
  <2>4. CASE UNCHANGED vars \/ \E c \in Command : Enqueue(c)
    <3>1. UNCHANGED <<interrupted, net, hash, file, pc, reply, secret>>
      BY <2>4 DEF vars, serverVars, agentVars, history, Enqueue
    <3> QED
      BY <1>2, <3>1 DEF LockInv, SecretKept
  <2> QED
    BY <2>1, <2>2, <2>3, <2>4 DEF Next
<1> QED
  BY <1>1, <1>2 DEF LockInv

\* Crashes and failed calls lock the agent out only if they hit it while it enrolls, however
\* late their requests are served: a restart re-uses the secret (config.py).
THEOREM RestartsAreAccepted == Spec => []OnlyEnrolmentLocksOut
<1>1. Init => LockInv
  <2>1. ASSUME Init
        PROVE  SecretKept
    BY <2>1, NoReplyKind DEF Init, SecretKept
  <2> QED
    BY <2>1, InitFleetInv DEF LockInv
<1>2. LockInv => OnlyEnrolmentLocksOut
  BY SecretKeptSuffices DEF LockInv, OnlyEnrolmentLocksOut
<1> QED
  BY <1>1, <1>2, NextLockInv, PTL DEF Spec
=============================================================================
