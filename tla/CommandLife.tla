---------------------------- MODULE CommandLife ----------------------------
(***************************************************************************)
(* What the fleet queue promises to whoever watches it                     *)
(* (control-api/app/routers/fleet.py list_agent_commands: "queued ->       *)
(* dispatched -> success/failure"): a command is handed out once, carried  *)
(* out at most once, and reported with the outcome it really had.          *)
(***************************************************************************)
EXTENDS Sequences

CONSTANT Command

VARIABLES
    status,  \* of each command: "none" until it is queued
    ran      \* of each command: the outcomes of its executions

Outcome == {"success", "failure"}

Init == /\ status = [c \in Command |-> "none"]
        /\ ran = [c \in Command |-> <<>>]

Queue(c) == /\ status[c] = "none"
            /\ status' = [status EXCEPT ![c] = "queued"]
            /\ UNCHANGED ran

Dispatch(S) == /\ \A c \in S : status[c] = "queued"
               /\ status' = [c \in Command |-> IF c \in S THEN "dispatched" ELSE status[c]]
               /\ UNCHANGED ran

CarryOut(c, o) == /\ status[c] = "dispatched"
                  /\ ran[c] = <<>>
                  /\ ran' = [ran EXCEPT ![c] = <<o>>]
                  /\ UNCHANGED status

Report(c) == /\ status[c] = "dispatched"
             /\ ran[c] # <<>>
             /\ status' = [status EXCEPT ![c] = Head(ran[c])]
             /\ UNCHANGED ran

Next == \/ \E c \in Command : Queue(c) \/ Report(c) \/ \E o \in Outcome : CarryOut(c, o)
        \/ \E S \in SUBSET Command : Dispatch(S)

Spec == Init /\ [][Next]_<<status, ran>>
=============================================================================
