------------------------------ MODULE Watchdog ------------------------------
(***************************************************************************)
(* The self-healing loop of watchdog/: watchdog.py visits every managed    *)
(* service in dependency order, runbooks.py says what to do with one that  *)
(* is down, flap.py remembers the restarts and the cooldowns.              *)
(*                                                                         *)
(* The watchdog is one thread.  Each action is what it does between two    *)
(* calls of the orchestrator or two sleeps; containers crash, come back    *)
(* and are removed or deployed in between.  A unit of time is one sleep:   *)
(* the poll interval and the recovery check delay are both 5 s, and the    *)
(* window and the cooldown are counted in that unit.  What is due to       *)
(* happen at a time is kept as an age or as the time left, so that there   *)
(* is no absolute clock.                                                   *)
(*                                                                         *)
(* Bound: `faults' is what may still go wrong in the whole behaviour       *)
(* (crashes, removals, calls that fail, calls that take a unit of time,    *)
(* restarts of the watchdog).                                              *)
(***************************************************************************)
EXTENDS Integers, Sequences, FiniteSets

CONSTANTS
    ShardCount,          \* SHARD_COUNT
    Tiers,               \* SHARD_TIERS, or some of them, in order
    FlapWindow,          \* FLAP_WINDOW_SEC
    FlapThreshold,       \* FLAP_THRESHOLD
    FlapCooldown,        \* FLAP_COOLDOWN_SEC
    OomMultiplier,       \* OOM_COOLDOWN_MULTIPLIER
    MaxRestartAttempts,  \* MAX_RESTART_ATTEMPTS
    Fates,               \* what may become of each service's container, see fate
    MaxFaults            \* bound on faults

ASSUME ShardsAssumption == /\ ShardCount \in Nat \ {0}
                           /\ Tiers \in Seq({"tickerplant", "wdb", "rdb", "idb", "hdb"})
ASSUME AttemptsAssumption == MaxRestartAttempts \in Nat \ {0}
ASSUME FaultsAssumption == MaxFaults \in Nat
\* The defaults are 120 s, 3 restarts, 300 s and a multiplier of 6.
ASSUME FlapAssumption == /\ FlapWindow \in Nat
                         /\ FlapThreshold \in Nat \ {0}
                         /\ FlapCooldown \in Nat
                         /\ OomMultiplier \in Nat \ {0}
                         /\ FlapCooldown > FlapWindow

-----------------------------------------------------------------------------
(* The services and what they depend on *)

Gateway == <<"gateway", 0>>

\* healed_services: shard after shard, each in the order of the tiers, then the gateway.
Services ==
    [k \in 1 .. ShardCount * Len(Tiers) + 1 |->
        IF k > ShardCount * Len(Tiers)
        THEN Gateway
        ELSE <<Tiers[((k - 1) % Len(Tiers)) + 1], (k - 1) \div Len(Tiers)>>]

Service == {Services[k] : k \in DOMAIN Services}

\* The tickerplants s needs: one or none.
Dependency(s) ==
    IF s[1] \in {"wdb", "rdb", "idb"} THEN {<<"tickerplant", s[2]>>} ELSE {}

ASSUME DependencyAssumption == \A s \in Service : Dependency(s) \subseteq Service

\* What becomes of the container of a service that is started: it runs, it dies at
\* once, or the call that starts it fails.
Fate == {"runs", "dies", "raises"}

ASSUME FatesAssumption == Fates \subseteq [Service -> Fate]

Status == {"running", "exited", "not_found"}

NoCooldown == -1

-----------------------------------------------------------------------------
VARIABLES
    container,   \* the state of each service's container
    fate,        \* the fate of each service: a constant of the behaviour
    faults,      \* how much may still go wrong
    pc,          \* where the loop is
    at,          \* the index of the service being read or visited
    attempt,     \* restart_and_verify: the attempt under way
    statusMap,   \* status_map: what the pass knows of each service
    restarts,    \* _restarts: the ages of the restarts within the window
    cooldown,    \* _cooldown_until: the time left of each cooldown
    incidents,   \* history: the ages of every restart this process decided within the window
    glimpsed     \* history: the states each container was in during this pass

flapVars == <<restarts, cooldown, incidents>>
loopVars == <<pc, at, attempt, statusMap>>
vars == <<container, fate, faults, loopVars, flapVars, glimpsed>>

Unread == [s \in Service |-> "unread"]
Cur == Services[at]

-----------------------------------------------------------------------------
(* The flap tracker *)

\* The time that passes: ages grow, restarts older than the window are forgotten
\* (_prune), cooldowns run down.
Aged(S) == {a + 1 : a \in S} \cap (0 .. FlapWindow)

TimePasses ==
    /\ restarts' = [s \in Service |-> Aged(restarts[s])]
    /\ incidents' = [s \in Service |-> Aged(incidents[s])]
    /\ cooldown' = [s \in Service |-> IF cooldown[s] > 0 THEN cooldown[s] - 1 ELSE cooldown[s]]

InCooldown(s) == cooldown[s] > 0

\* Variant: a service without a cooldown is not told from one whose cooldown expired.
KeptRestartsForgetful(s) == IF InCooldown(s) THEN restarts[s] ELSE {}

\* in_cooldown answered no: an expired cooldown is dropped with the restart history.
KeptRestarts(s) == IF cooldown[s] = 0 THEN {} ELSE restarts[s]

Released(s) == [cooldown EXCEPT ![s] = NoCooldown]

Flapping(s) == Cardinality(KeptRestarts(s)) >= FlapThreshold

-----------------------------------------------------------------------------
(* One pass of check_and_heal *)

InPass == pc # "poll"
Sleeping == pc \in {"poll", "settle"}

BeginPass(c) ==
    /\ pc' = "read"
    /\ at' = 1
    /\ attempt' = 0
    /\ statusMap' = Unread
    /\ glimpsed' = [s \in Service |-> {c[s]}]

\* The pass is over, or an exception ended it: main sleeps until the next one.
EndPass ==
    /\ pc' = "poll"
    /\ at' = 1
    /\ attempt' = 0
    /\ statusMap' = Unread
    /\ glimpsed' = [s \in Service |-> {}]

\* On to the next service, knowing m.
NextService(m) ==
    IF at = Len(Services)
    THEN EndPass
    ELSE /\ pc' = "visit"
         /\ at' = at + 1
         /\ attempt' = 0
         /\ statusMap' = m
         /\ UNCHANGED glimpsed

GoTo(p) == pc' = p /\ UNCHANGED <<at, statusMap, glimpsed>>

\* status_map is filled one call at a time.
ReadStatus ==
    /\ pc = "read"
    /\ statusMap' = [statusMap EXCEPT ![Cur] = container[Cur]]
    /\ IF at = Len(Services)
       THEN pc' = "visit" /\ at' = 1
       ELSE at' = at + 1 /\ UNCHANGED pc
    /\ UNCHANGED <<container, fate, faults, attempt, flapVars, glimpsed>>

SkipCoolingDown ==
    /\ pc = "visit"
    /\ InCooldown(Cur)
    /\ NextService(statusMap)
    /\ UNCHANGED <<container, fate, faults, flapVars>>

\* A service that is not cooling down is looked at.
Considers(s) ==
    /\ pc = "visit"
    /\ s = Cur
    /\ ~InCooldown(s)

\* Variant: a service that is not deployed counts as down.
DownOrAbsent(s) == statusMap[s] # "running"

Down(s) == statusMap[s] = "exited"

DependencyDown(s) == \E d \in Dependency(s) : statusMap[d] # "running"

\* Up, or not deployed.
LeaveAlone == \E s \in Service :
    /\ Considers(s)
    /\ ~Down(s)
    /\ restarts' = [restarts EXCEPT ![s] = KeptRestarts(s)]
    /\ cooldown' = Released(s)
    /\ NextService(statusMap)
    /\ UNCHANGED <<container, fate, faults, incidents>>

\* defer_to_dependency
Defer == \E s \in Service :
    /\ Considers(s)
    /\ Down(s)
    /\ DependencyDown(s)
    /\ restarts' = [restarts EXCEPT ![s] = KeptRestarts(s)]
    /\ cooldown' = Released(s)
    /\ GoTo("refresh")
    /\ UNCHANGED <<container, fate, faults, attempt, incidents>>

\* Variant: the escalation opens no cooldown.
EscalateOnly == \E s \in Service :
    /\ Considers(s)
    /\ Down(s)
    /\ ~DependencyDown(s)
    /\ Flapping(s)
    /\ cooldown' = Released(s)
    /\ GoTo("refresh")
    /\ UNCHANGED <<container, fate, faults, attempt, restarts, incidents>>

\* escalate, and escalate_oom when the last exit was an OOM kill.
Escalate == \E s \in Service, oom \in BOOLEAN :
    /\ Considers(s)
    /\ Down(s)
    /\ ~DependencyDown(s)
    /\ Flapping(s)
    /\ restarts' = [restarts EXCEPT ![s] = KeptRestarts(s)]
    /\ cooldown' = [cooldown EXCEPT ![s] =
                        IF oom THEN OomMultiplier * FlapCooldown ELSE FlapCooldown]
    /\ GoTo("refresh")
    /\ UNCHANGED <<container, fate, faults, attempt, incidents>>

\* Variant: the restart is not recorded before the attempts.
BeginRestartUnrecorded == \E s \in Service :
    /\ Considers(s)
    /\ Down(s)
    /\ ~DependencyDown(s)
    /\ ~Flapping(s)
    /\ cooldown' = Released(s)
    /\ GoTo("start")
    /\ attempt' = 1
    /\ UNCHANGED <<container, fate, faults, restarts, incidents>>

\* restart_and_verify: the restart is recorded before the first attempt.
BeginRestart == \E s \in Service :
    /\ Considers(s)
    /\ Down(s)
    /\ ~DependencyDown(s)
    /\ ~Flapping(s)
    /\ restarts' = [restarts EXCEPT ![s] = KeptRestarts(s) \cup {0}]
    /\ incidents' = [incidents EXCEPT ![s] = @ \cup {0}]
    /\ cooldown' = Released(s)
    /\ GoTo("start")
    /\ attempt' = 1
    /\ UNCHANGED <<container, fate, faults>>

\* orchestrator.start, and the sleep before the verification.  Starting a container
\* that runs does nothing, one that is not there answers False.
StartedAs(s) == IF container[s] = "exited" /\ fate[s] = "runs" THEN "running" ELSE container[s]

Becomes(s, st) ==
    /\ container' = [container EXCEPT ![s] = st]
    /\ glimpsed' = IF InPass THEN [glimpsed EXCEPT ![s] = @ \cup {st}] ELSE glimpsed

Start ==
    /\ pc = "start"
    /\ ~(fate[Cur] = "raises" /\ container[Cur] = "exited")
    /\ Becomes(Cur, StartedAs(Cur))
    /\ pc' = "settle"
    /\ UNCHANGED <<fate, faults, at, attempt, statusMap, flapVars>>

StartRaises ==
    /\ pc = "start"
    /\ fate[Cur] = "raises" /\ container[Cur] = "exited"
    /\ EndPass
    /\ UNCHANGED <<container, fate, faults, flapVars>>

Verify ==
    /\ pc = "verify"
    /\ IF container[Cur] # "running" /\ attempt < MaxRestartAttempts
       THEN GoTo("start") /\ attempt' = attempt + 1
       ELSE GoTo("refresh") /\ UNCHANGED attempt
    /\ UNCHANGED <<container, fate, faults, flapVars>>

\* Variant: a service that was restarted is taken to run.
RefreshTrusting ==
    /\ pc = "refresh"
    /\ NextService([statusMap EXCEPT ![Cur] = "running"])
    /\ UNCHANGED <<container, fate, faults, flapVars>>

\* status_map learns what the runbook left behind.
Refresh ==
    /\ pc = "refresh"
    /\ NextService([statusMap EXCEPT ![Cur] = container[Cur]])
    /\ UNCHANGED <<container, fate, faults, flapVars>>

\* A sleep is over.
Wake ==
    /\ Sleeping
    /\ TimePasses
    /\ IF pc = "poll"
       THEN BeginPass(container)
       ELSE GoTo("verify") /\ UNCHANGED attempt
    /\ UNCHANGED <<container, fate, faults>>

-----------------------------------------------------------------------------
(* What goes on around the loop *)

Fault == faults > 0 /\ faults' = faults - 1

Crash(s) ==
    /\ Fault
    /\ container[s] = "running"
    /\ Becomes(s, "exited")
    /\ UNCHANGED <<fate, loopVars, flapVars>>

Remove(s) ==
    /\ Fault
    /\ container[s] # "not_found"
    /\ Becomes(s, "not_found")
    /\ UNCHANGED <<fate, loopVars, flapVars>>

Deploy(s) ==
    /\ container[s] = "not_found"
    /\ Becomes(s, IF fate[s] = "runs" THEN "running" ELSE "exited")
    /\ UNCHANGED <<fate, faults, loopVars, flapVars>>

\* The restart policy of the container runtime.
ComesBack(s) ==
    /\ container[s] = "exited" /\ fate[s] = "runs"
    /\ Becomes(s, "running")
    /\ UNCHANGED <<fate, faults, loopVars, flapVars>>

\* A call of the orchestrator raises: main catches it and the pass is lost.
CallRaises ==
    /\ Fault
    /\ pc \in {"read", "start", "verify", "refresh"}
    /\ EndPass
    /\ UNCHANGED <<container, fate, flapVars>>

\* A call, or the audit report, takes a unit of time.
SlowCall ==
    /\ Fault
    /\ ~Sleeping
    /\ TimePasses
    /\ UNCHANGED <<container, fate, loopVars, glimpsed>>

\* The watchdog's process is restarted: the tracker starts empty.
RestartWatchdog ==
    /\ Fault
    /\ restarts' = [s \in Service |-> {}]
    /\ incidents' = [s \in Service |-> {}]
    /\ cooldown' = [s \in Service |-> NoCooldown]
    /\ BeginPass(container)
    /\ UNCHANGED <<container, fate>>

-----------------------------------------------------------------------------
Init ==
    /\ fate \in Fates
    /\ container \in [Service -> Status]
    /\ \A s \in Service : fate[s] # "runs" => container[s] # "running"
    /\ faults = MaxFaults
    /\ pc = "read" /\ at = 1 /\ attempt = 0
    /\ statusMap = Unread
    /\ restarts = [s \in Service |-> {}]
    /\ incidents = [s \in Service |-> {}]
    /\ cooldown = [s \in Service |-> NoCooldown]
    /\ glimpsed = [s \in Service |-> {container[s]}]

Loop ==
    \/ ReadStatus
    \/ SkipCoolingDown \/ LeaveAlone \/ Defer \/ Escalate \/ BeginRestart
    \/ Start \/ StartRaises \/ Verify \/ Refresh
    \/ Wake

Next ==
    \/ Loop
    \/ \E s \in Service : Crash(s) \/ Remove(s) \/ Deploy(s) \/ ComesBack(s)
    \/ CallRaises \/ SlowCall \/ RestartWatchdog

Spec == Init /\ [][Next]_vars

\* The loop never stops: every sleep ends and every call returns or raises.
FairSpec == Spec /\ WF_vars(Loop)

-----------------------------------------------------------------------------
(* Properties *)

\* Every variable has its type; a restart under way has an attempt number and nothing
\* else has (the loop of runbooks.py restart_and_verify).
TypeOK ==
    /\ container \in [Service -> Status]
    /\ fate \in [Service -> Fate]
    /\ faults \in 0 .. MaxFaults
    /\ pc \in {"poll", "read", "visit", "start", "settle", "verify", "refresh"}
    /\ at \in DOMAIN Services
    /\ attempt \in 0 .. MaxRestartAttempts
    /\ statusMap \in [Service -> Status \cup {"unread"}]
    /\ restarts \in [Service -> SUBSET (0 .. FlapWindow)]
    /\ incidents \in [Service -> SUBSET (0 .. FlapWindow)]
    /\ cooldown \in [Service -> Int]
    /\ \A s \in Service : cooldown[s] \in NoCooldown .. OomMultiplier * FlapCooldown
    /\ glimpsed \in [Service -> SUBSET Status]

\* However it fails, and whatever cooldowns have come and gone, no service is restarted
\* more than FlapThreshold times in any window: the end of a cooldown, which wipes the
\* history (flap.py in_cooldown), never lets a crash loop be hammered.
NoHammering ==
    \A s \in Service : Cardinality(incidents[s]) <= FlapThreshold

\* A service is sent a start only if its container was really down at some moment of
\* this very pass: nothing is restarted on what an earlier pass saw.
OnlyTheDownAreStarted ==
    pc \in {"start", "settle", "verify"} => "exited" \in glimpsed[Cur]

\* The root cause first (runbooks.py classify): a service that needs a tickerplant is
\* restarted only if the tickerplant ran at some moment of this very pass.
RootCauseFirst ==
    pc \in {"start", "settle", "verify"} =>
        \A d \in Dependency(Cur) : "running" \in glimpsed[d]

\* s cannot run: it is not deployed, its container is beyond repair, or its
\* tickerplant is down.
Excused(s) ==
    \/ container[s] = "not_found"
    \/ fate[s] # "runs"
    \/ \E d \in Dependency(s) : container[d] # "running"

\* Once nothing new goes wrong, every service that can run does, for good: neither a
\* cooldown nor a service that fails at every pass, even one whose start raises and so
\* ends the pass before the others are visited, keeps the others down.
EverythingRecovers ==
    \A s \in Service : <>[](container[s] = "running" \/ Excused(s))

\* A service that cannot be kept up is, over and over, escalated and left alone
\* (docs/tickerplant-administration.md:137-138).
CrashLoopsAreEscalated ==
    \A s \in Service :
        []<>\/ fate[s] = "runs"
            \/ container[s] # "exited"
            \/ \E d \in Dependency(s) : container[d] # "running"
            \/ InCooldown(s)

\* The watchdog restores what can be restored and escalates what cannot.
WatchdogKeepsUp == EverythingRecovers /\ CrashLoopsAreEscalated
=============================================================================
