----------------------------- MODULE Connectors -----------------------------
(***************************************************************************)
(* The connectors of a tenant: rows that say which feed is on and which    *)
(* symbols it feeds, and the containers that run the feeds.  A request     *)
(* changes both, one after the other, in a thread of its own; the topology *)
(* endpoints change the containers alone.                                  *)
(***************************************************************************)
EXTENDS Naturals, FiniteSets

CONSTANTS
    CnConnectors,
    CnScoped,       \* _SYMBOLS_ENV_VAR: those whose feed reads its symbols from the environment
    CnScopes,       \* groups of symbols, {} for all of them
    CnThreads,      \* requests at one time
    CnMaxRequests,  \* a bound: requests in all
    CnMaxFaults     \* a bound: failures of Docker and ends of the control plane

ASSUME ConnectorsAssumption ==
    /\ CnScoped \subseteq CnConnectors /\ {} \in CnScopes
    /\ CnMaxRequests \in Nat /\ CnMaxFaults \in Nat

VARIABLES
    cnRow,       \* the row of each connector
    cnBox,       \* its container, a set of none or one
    cnReq,       \* the request of each thread
    cnAstray,    \* history: whose row and container were last changed one without the other
    cnUnapplied, \* history: whose symbols were last put without an answer that they are live
    cnCount      \* requests, faults and containers so far

cnVars == <<cnRow, cnBox, cnReq, cnAstray, cnUnapplied, cnCount>>

\* The number of a container that is made now.
Number == cnCount.boxes + cnCount.faults

CnFree == [at |-> "idle"]
InFlight(c) == {t \in CnThreads : cnReq[t] # CnFree /\ cnReq[t].c = c}
CnEnds(t) == cnReq' = [cnReq EXCEPT ![t] = CnFree]
MovesTo(t, at) == cnReq' = [cnReq EXCEPT ![t].at = at]
HistoryKept == UNCHANGED <<cnAstray, cnUnapplied>>
Switched(c, up) == cnBox' = [cnBox EXCEPT ![c] = {[box EXCEPT !.up = up] : box \in @}]

\* The requests after something crossed those of a connector.
Crossed(c, req) ==
    [t \in CnThreads |-> IF req[t] # CnFree /\ req[t].c = c THEN [req[t] EXCEPT !.clean = FALSE] ELSE req[t]]

\* A request of a connector begins; those there are may want something else of it.
Joins(t, c, at, op, scope) ==
    LET crosses == \E other \in InFlight(c) : <<cnReq[other].op, cnReq[other].scope>> # <<op, scope>>
        new == [at |-> at, c |-> c, op |-> op, scope |-> scope, box |-> {}, clean |-> ~crosses]
        req == [cnReq EXCEPT ![t] = new]
    IN /\ cnReq' = IF crosses THEN Crossed(c, req) ELSE req
       /\ cnAstray' = cnAstray \cup IF crosses THEN {c} ELSE {}

CnCounted(what) == cnCount' = [cnCount EXCEPT ![what] = @ + 1]
Begins(t) == cnReq[t] = CnFree /\ cnCount.requests < CnMaxRequests /\ CnCounted("requests")

-----------------------------------------------------------------------------
(* toggle *)

Toggle(t, c) ==
    /\ Begins(t)
    /\ Joins(t, c, "switch", IF cnRow[c].enabled THEN "stop" ELSE "start", {})
    /\ UNCHANGED <<cnRow, cnBox, cnUnapplied>>

\* orchestrator.stop, orchestrator.start: without a container the row stays as it is.
Switch(t) ==
    /\ cnReq[t].at = "switch"
    /\ LET c == cnReq[t].c
       IN IF cnBox[c] = {} THEN CnEnds(t) /\ UNCHANGED cnBox
          ELSE MovesTo(t, "flip") /\ Switched(c, cnReq[t].op = "start")
    /\ HistoryKept /\ UNCHANGED <<cnRow, cnCount>>

\* Variant: the row is turned to what it is not.
TurnedRow(row, op) == [row EXCEPT !.enabled = ~@]

FlippedRow(row, op) == [row EXCEPT !.enabled = op = "start"]

Flip(t) ==
    /\ cnReq[t].at = "flip"
    /\ LET c == cnReq[t].c
       IN /\ cnRow' = [cnRow EXCEPT ![c] = FlippedRow(@, cnReq[t].op)]
          /\ cnAstray' = IF cnReq[t].clean THEN cnAstray \ {c} ELSE cnAstray
    /\ CnEnds(t) /\ UNCHANGED <<cnBox, cnUnapplied, cnCount>>

-----------------------------------------------------------------------------
(* set_connector_symbols *)

\* Variant: a container is made anew for a connector that is off, too.
AppliesAlways(c) == c \in CnScoped

\* Whether the container is made anew: the row is read again after it was written.
Applies(c) == cnRow[c].enabled /\ c \in CnScoped

PutSymbols(t, c, scope) ==
    /\ Begins(t)
    /\ cnRow' = [cnRow EXCEPT ![c].symbols = scope]
    /\ cnUnapplied' = cnUnapplied \cup {c}
    /\ IF Applies(c) THEN Joins(t, c, "find", "put", scope) ELSE UNCHANGED <<cnReq, cnAstray>>
    /\ UNCHANGED cnBox

\* set_env: the container is looked up, stopped, removed, and another run in its place.
\* Each step fails if the container is no longer there, or there again.
FindBox(t) ==
    /\ cnReq[t].at = "find"
    /\ IF cnBox[cnReq[t].c] = {} THEN CnEnds(t)
       ELSE cnReq' = [cnReq EXCEPT ![t].at = "halt", ![t].box = {b.n : b \in cnBox[cnReq[t].c]}]
    /\ HistoryKept /\ UNCHANGED <<cnRow, cnBox, cnCount>>

Found(t) == {b \in cnBox[cnReq[t].c] : b.n \in cnReq[t].box}

HaltBox(t) ==
    /\ cnReq[t].at = "halt"
    /\ IF Found(t) = {} THEN CnEnds(t) /\ UNCHANGED cnBox
       ELSE MovesTo(t, "remove") /\ Switched(cnReq[t].c, FALSE)
    /\ HistoryKept /\ UNCHANGED <<cnRow, cnCount>>

RemoveBox(t) ==
    /\ cnReq[t].at = "remove"
    /\ IF \E b \in Found(t) : ~b.up
       THEN MovesTo(t, "run") /\ cnBox' = [cnBox EXCEPT ![cnReq[t].c] = {}]
       ELSE CnEnds(t) /\ UNCHANGED cnBox
    /\ HistoryKept /\ UNCHANGED <<cnRow, cnCount>>

RunBox(t) ==
    /\ cnReq[t].at = "run"
    /\ LET c == cnReq[t].c
       IN IF cnBox[c] # {} THEN UNCHANGED <<cnBox, cnUnapplied, cnCount>>
          ELSE /\ cnBox' = [cnBox EXCEPT ![c] = {[n |-> Number, up |-> TRUE, env |-> cnReq[t].scope]}]
               /\ cnUnapplied' = IF cnReq[t].clean THEN cnUnapplied \ {c} ELSE cnUnapplied
               /\ CnCounted("boxes")
    /\ CnEnds(t) /\ UNCHANGED <<cnRow, cnAstray>>

-----------------------------------------------------------------------------
(* What crosses the requests *)

\* The topology endpoints: the container alone.
Operate(c, up) ==
    /\ cnCount.requests < CnMaxRequests /\ CnCounted("requests")
    /\ Switched(c, up) /\ cnAstray' = cnAstray \cup {c} /\ cnReq' = Crossed(c, cnReq)
    /\ UNCHANGED <<cnRow, cnUnapplied>>

\* A call of Docker fails, done or not, and the request with it.
DockerFails(t) ==
    /\ cnReq[t].at \in {"switch", "find", "halt", "remove", "run"}
    /\ cnCount.faults < CnMaxFaults /\ CnCounted("faults")
    /\ LET c == cnReq[t].c
       IN /\ \/ UNCHANGED cnBox
             \/ cnReq[t].at \in {"switch", "halt"} /\ Switched(c, cnReq[t].op = "start")
             \/ cnReq[t].at = "remove" /\ (\E b \in Found(t) : ~b.up) /\ cnBox' = [cnBox EXCEPT ![c] = {}]
             \/ /\ cnReq[t].at = "run" /\ cnBox[c] = {}
                /\ cnBox' = [cnBox EXCEPT ![c] = {[n |-> Number, up |-> FALSE, env |-> cnReq[t].scope]}]
          /\ cnAstray' = cnAstray \cup {c}
          /\ cnReq' = [Crossed(c, cnReq) EXCEPT ![t] = CnFree]
    /\ UNCHANGED <<cnRow, cnUnapplied>>

ControlPlaneEnds ==
    /\ cnCount.faults < CnMaxFaults /\ CnCounted("faults")
    /\ cnAstray' = cnAstray \cup {c \in CnConnectors : InFlight(c) # {}}
    /\ cnReq' = [t \in CnThreads |-> CnFree]
    /\ UNCHANGED <<cnRow, cnBox, cnUnapplied>>

-----------------------------------------------------------------------------
\* _seed_demo_tenant: every connector is off.  Compose may have made its container, and
\* started it.
CnMade == [CnConnectors -> {{}} \cup {{[n |-> 0, up |-> up, env |-> {}]} : up \in BOOLEAN}]
CnStart(made) ==
    /\ cnRow = [c \in CnConnectors |-> [enabled |-> FALSE, symbols |-> {}]]
    /\ cnBox = made
    /\ cnAstray = {c \in CnConnectors : \E b \in cnBox[c] : b.up}
    /\ cnReq = [t \in CnThreads |-> CnFree] /\ cnUnapplied = {}
    /\ cnCount = [requests |-> 0, faults |-> 0, boxes |-> 1]

CnNext ==
    \/ \E t \in CnThreads :
          \/ \E c \in CnConnectors : Toggle(t, c) \/ \E scope \in CnScopes : PutSymbols(t, c, scope)
          \/ Switch(t) \/ Flip(t) \/ FindBox(t) \/ HaltBox(t) \/ RemoveBox(t) \/ RunBox(t)
          \/ DockerFails(t)
    \/ \E c \in CnConnectors, up \in BOOLEAN : Operate(c, up)
    \/ ControlPlaneEnds

CnInit == \E made \in CnMade : CnStart(made)

CnSpec == CnInit /\ [][CnNext]_cnVars

-----------------------------------------------------------------------------
(* Properties *)

\* toggle_connector: once its requests are done, a connector is on if and only if its feed
\* runs, unless row and container were changed one without the other since it was last
\* switched: by two requests of different intent, an operator, or a failure half-way.
SwitchTells ==
    \A c \in CnConnectors \ cnAstray :
        InFlight(c) = {} => (cnRow[c].enabled <=> \E b \in cnBox[c] : b.up)

\* set_connector_symbols: after an answer that the symbols are live the feed has them, until
\* others are put.
LiveAppliedTells ==
    \A c \in CnScoped \ cnUnapplied :
        InFlight(c) = {} => \A b \in cnBox[c] : b.env = cnRow[c].symbols

ConnectorsTell == SwitchTells /\ LiveAppliedTells

=============================================================================
