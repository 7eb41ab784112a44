--------------------------- MODULE WatchdogProofs ---------------------------
(***************************************************************************)
(* What TLAPS proves about the watchdog, for every number of shards, every *)
(* window, threshold and cooldown longer than the window, every fate of    *)
(* the containers and every number of faults.                              *)
(***************************************************************************)
EXTENDS Watchdog, FiniteSetTheorems, TLAPS

-----------------------------------------------------------------------------
(* The flap tracker *)

\* What the tracker holds.  The ages recorded by it are all there are: what the end of a
\* cooldown wipes is older than the window by then, which the last conjunct is for.
FlapInv ==
    /\ restarts \in [Service -> SUBSET (0 .. FlapWindow)]
    /\ cooldown \in [Service -> Int]
    /\ incidents = restarts
    /\ \A s \in Service : Cardinality(restarts[s]) <= FlapThreshold
    /\ \A s \in Service : cooldown[s] >= NoCooldown
    /\ \A s \in Service : cooldown[s] # NoCooldown =>
            \A a \in restarts[s] : a + cooldown[s] >= FlapCooldown

\* Ages within the window are finitely many.
LEMMA AgesFinite ==
  ASSUME NEW S \in SUBSET (0 .. FlapWindow)
  PROVE  IsFiniteSet(S) /\ Cardinality(S) \in Nat
<1>1. IsFiniteSet(0 .. FlapWindow)
  BY FS_Interval, FlapAssumption
<1>2. IsFiniteSet(S)
  BY <1>1, FS_Subset
<1> QED
  BY <1>2, FS_CardinalityType

\* The time that passes makes no restart more.
LEMMA AgedShrinks ==
  ASSUME NEW S \in SUBSET (0 .. FlapWindow)
  PROVE  /\ Aged(S) \in SUBSET (0 .. FlapWindow)
         /\ Cardinality(Aged(S)) <= Cardinality(S)
<1> DEFINE younger == [a \in Aged(S) |-> a - 1]
<1>1. \A a \in Aged(S) : a \in Int /\ a - 1 \in S
  BY FlapAssumption DEF Aged
<1>2. younger \in Injection(Aged(S), S)
  BY <1>1 DEF Injection, IsInjective
<1>3. Cardinality(Aged(S)) <= Cardinality(S)
  BY <1>2, AgesFinite, FS_Injection
<1> QED
  BY <1>3 DEF Aged

\* A restart more is at most one more.
LEMMA OneMore ==
  ASSUME NEW S \in SUBSET (0 .. FlapWindow), Cardinality(S) < FlapThreshold
  PROVE  /\ S \cup {0} \in SUBSET (0 .. FlapWindow)
         /\ Cardinality(S \cup {0}) <= FlapThreshold
<1>1. IsFiniteSet(S) /\ Cardinality(S) \in Nat
  BY AgesFinite
<1>2. Cardinality(S \cup {0}) <= Cardinality(S) + 1
  BY <1>1, FS_AddElement
<1>3. IsFiniteSet(S \cup {0}) /\ Cardinality(S \cup {0}) \in Nat
  BY <1>1, FS_AddElement, FS_CardinalityType
<1> QED
  BY <1>1, <1>2, <1>3, FlapAssumption

\* When a cooldown is over nothing is left in the history for its end to wipe.
LEMMA WipeIsIdle ==
  ASSUME FlapInv, NEW s \in Service
  PROVE  KeptRestarts(s) = restarts[s]
<1>1. CASE cooldown[s] = 0
  <2>1. \A a \in restarts[s] : a >= FlapCooldown /\ a <= FlapWindow
    BY <1>1, FlapAssumption DEF FlapInv, NoCooldown
  <2>2. \A a \in restarts[s] : a \in Int
    BY FlapAssumption DEF FlapInv
  <2>3. restarts[s] = {}
    BY <2>1, <2>2, FlapAssumption
  <2> QED
    BY <1>1, <2>3 DEF KeptRestarts
<1>2. CASE cooldown[s] # 0
  BY <1>2 DEF KeptRestarts
<1> QED
  BY <1>1, <1>2

\* The tracker of a watchdog that has just started.
LEMMA EmptyTracker ==
  ASSUME restarts' = [s \in Service |-> {}],
         incidents' = [s \in Service |-> {}],
         cooldown' = [s \in Service |-> NoCooldown]
  PROVE  FlapInv'
  BY FS_EmptySet, FlapAssumption DEF FlapInv, NoCooldown

LEMMA InitFlapInv == Init => FlapInv
<1> SUFFICES ASSUME Init PROVE FlapInv
  OBVIOUS
<1> QED
  BY FS_EmptySet, FlapAssumption DEF Init, FlapInv, NoCooldown

\* The time that passes.
LEMMA TimePassesFlapInv ==
  ASSUME FlapInv, TimePasses
  PROVE  FlapInv'
<1> USE DEF TimePasses
<1>1. /\ restarts' \in [Service -> SUBSET (0 .. FlapWindow)]
      /\ \A s \in Service : Cardinality(restarts'[s]) <= FlapThreshold
  <2>1. ASSUME NEW s \in Service
        PROVE  /\ Aged(restarts[s]) \in SUBSET (0 .. FlapWindow)
               /\ Cardinality(Aged(restarts[s])) <= FlapThreshold
    <3>1. restarts[s] \in SUBSET (0 .. FlapWindow) /\ Cardinality(restarts[s]) <= FlapThreshold
      BY DEF FlapInv
    <3>2. Cardinality(Aged(restarts[s])) <= Cardinality(restarts[s])
      BY <3>1, AgedShrinks
    <3>3. Aged(restarts[s]) \in SUBSET (0 .. FlapWindow)
      BY <3>1, AgedShrinks
    <3>4. Cardinality(restarts[s]) \in Nat /\ Cardinality(Aged(restarts[s])) \in Nat
      BY <3>1, <3>3, AgesFinite
    <3> QED
      BY <3>1, <3>2, <3>3, <3>4, FlapAssumption
  <2> QED
    BY <2>1
<1>2. incidents' = restarts'
  BY DEF FlapInv
<1>3. /\ cooldown' \in [Service -> Int]
      /\ \A s \in Service : cooldown'[s] >= NoCooldown
  BY DEF FlapInv, NoCooldown
<1>4. ASSUME NEW s \in Service, cooldown'[s] # NoCooldown, NEW a \in restarts'[s]
      PROVE  a + cooldown'[s] >= FlapCooldown
  <2>1. PICK b \in restarts[s] : a = b + 1
    BY <1>4 DEF FlapInv, Aged
  <2>2. cooldown[s] # NoCooldown /\ cooldown'[s] >= cooldown[s] - 1
    BY <1>4 DEF FlapInv, NoCooldown
  <2>3. b + cooldown[s] >= FlapCooldown
    BY <2>2 DEF FlapInv
  <2>4. b \in Int /\ cooldown[s] \in Int /\ cooldown'[s] \in Int
    BY <1>3, FlapAssumption DEF FlapInv
  <2> QED
    BY <2>1, <2>2, <2>3, <2>4, FlapAssumption
<1> QED
  BY <1>1, <1>2, <1>3, <1>4 DEF FlapInv

\* Every step keeps it.
LEMMA NextFlapInv ==
  ASSUME FlapInv, [Next]_vars
  PROVE  FlapInv'
<1>1. CASE UNCHANGED flapVars
  BY <1>1 DEF FlapInv, flapVars
<1>2. CASE LeaveAlone \/ Defer
  <2>1. PICK s \in Service : /\ restarts' = [restarts EXCEPT ![s] = KeptRestarts(s)]
                             /\ cooldown' = Released(s)
                             /\ incidents' = incidents
    BY <1>2 DEF LeaveAlone, Defer
  <2>2. restarts' = restarts
    BY <2>1, WipeIsIdle DEF FlapInv
  <2> QED
    BY <2>1, <2>2 DEF FlapInv, Released, NoCooldown
<1>3. CASE Escalate
  <2>1. PICK s \in Service, oom \in BOOLEAN :
          /\ restarts' = [restarts EXCEPT ![s] = KeptRestarts(s)]
          /\ cooldown' = [cooldown EXCEPT ![s] =
                              IF oom THEN OomMultiplier * FlapCooldown ELSE FlapCooldown]
          /\ incidents' = incidents
    BY <1>3 DEF Escalate
  <2>2. restarts' = restarts
    BY <2>1, WipeIsIdle DEF FlapInv
  <2>3. /\ OomMultiplier * FlapCooldown \in Int
        /\ OomMultiplier * FlapCooldown >= FlapCooldown
    BY FlapAssumption
  <2>4. cooldown'[s] \in Int /\ cooldown'[s] >= FlapCooldown
    BY <2>1, <2>3, FlapAssumption DEF FlapInv
  <2>5. \A a \in restarts[s] : a \in Nat
    BY FlapAssumption DEF FlapInv
  <2>6. \A r \in Service : r # s => cooldown'[r] = cooldown[r]
    BY <2>1 DEF FlapInv
  <2>7. cooldown' \in [Service -> Int]
    BY <2>1, <2>3, FlapAssumption DEF FlapInv
  <2>8. \A r \in Service : /\ cooldown'[r] >= NoCooldown
                           /\ cooldown'[r] # NoCooldown =>
                                \A a \in restarts[r] : a + cooldown'[r] >= FlapCooldown
    BY <2>4, <2>5, <2>6, FlapAssumption DEF FlapInv, NoCooldown
  <2> QED
    BY <2>1, <2>2, <2>7, <2>8 DEF FlapInv
<1>4. CASE BeginRestart
  <2>1. PICK s \in Service :
          /\ ~Flapping(s)
          /\ restarts' = [restarts EXCEPT ![s] = KeptRestarts(s) \cup {0}]
          /\ incidents' = [incidents EXCEPT ![s] = @ \cup {0}]
          /\ cooldown' = Released(s)
    BY <1>4 DEF BeginRestart
  <2>2. restarts' = [restarts EXCEPT ![s] = restarts[s] \cup {0}]
    BY <2>1, WipeIsIdle
  <2>3. restarts[s] \in SUBSET (0 .. FlapWindow)
    BY DEF FlapInv
  <2>4. Cardinality(restarts[s]) < FlapThreshold
    BY <2>1, <2>3, WipeIsIdle, AgesFinite, FlapAssumption DEF Flapping
  <2>5. /\ restarts[s] \cup {0} \in SUBSET (0 .. FlapWindow)
        /\ Cardinality(restarts[s] \cup {0}) <= FlapThreshold
    BY <2>3, <2>4, OneMore
  <2>6. /\ restarts' \in [Service -> SUBSET (0 .. FlapWindow)]
        /\ incidents' = restarts'
        /\ \A r \in Service : Cardinality(restarts'[r]) <= FlapThreshold
    BY <2>1, <2>2, <2>5 DEF FlapInv
  <2>7. /\ cooldown' \in [Service -> Int]
        /\ \A r \in Service : /\ cooldown'[r] >= NoCooldown
                              /\ cooldown'[r] # NoCooldown =>
                                   r # s /\ cooldown'[r] = cooldown[r]
    BY <2>1 DEF FlapInv, Released, NoCooldown
  <2> QED
    BY <2>2, <2>6, <2>7 DEF FlapInv
<1>5. CASE TimePasses
  BY <1>5, TimePassesFlapInv
<1>6. CASE RestartWatchdog
  BY <1>6, EmptyTracker DEF RestartWatchdog
<1>7. CASE Loop
  BY <1>1, <1>2, <1>3, <1>4, <1>5, <1>7
     DEF Loop, ReadStatus, SkipCoolingDown, Start, StartRaises, Verify, Refresh, Wake
<1>8. CASE \E s \in Service : Crash(s) \/ Remove(s) \/ Deploy(s) \/ ComesBack(s)
  BY <1>1, <1>8 DEF Crash, Remove, Deploy, ComesBack
<1>9. CASE CallRaises \/ SlowCall
  BY <1>1, <1>5, <1>9 DEF CallRaises, SlowCall
<1>10. CASE UNCHANGED vars
  BY <1>1, <1>10 DEF vars
<1> QED
  BY <1>6, <1>7, <1>8, <1>9, <1>10 DEF Next

\* The history a cooldown's end wipes is empty by then, so that a service is never
\* restarted more than FlapThreshold times in a window (flap.py in_cooldown).
THEOREM HammeringBounded == Spec => []NoHammering
<1>1. FlapInv => NoHammering
  BY DEF FlapInv, NoHammering
<1> QED
  BY <1>1, InitFlapInv, NextFlapInv, PTL DEF Spec

-----------------------------------------------------------------------------
(* The pass *)

\* What a pass knows: whatever it has read of a container was true at some moment of
\* the pass, and a restart is under way only of what it read as down, with every
\* dependency read as running.
PassInv ==
    /\ container \in [Service -> Status]
    /\ fate \in [Service -> Fate]
    /\ faults \in 0 .. MaxFaults
    /\ pc \in {"poll", "read", "visit", "start", "settle", "verify", "refresh"}
    /\ at \in DOMAIN Services
    /\ attempt \in 0 .. MaxRestartAttempts
    /\ statusMap \in [Service -> Status \cup {"unread"}]
    /\ glimpsed \in [Service -> SUBSET Status]
    /\ InPass => \A s \in Service : container[s] \in glimpsed[s]
    /\ \A s \in Service : statusMap[s] # "unread" => statusMap[s] \in glimpsed[s]
    /\ pc \in {"start", "settle", "verify"} =>
            statusMap[Cur] = "exited" /\ ~DependencyDown(Cur)

\* The services are numbered from 1, and each number is that of a service.
LEMMA ServiceNumbers ==
  /\ Len(Services) \in Nat \ {0}
  /\ DOMAIN Services = 1 .. Len(Services)
  /\ \A k \in DOMAIN Services : Services[k] \in Service
<1> DEFINE n == ShardCount * Len(Tiers) + 1
<1>1. n \in Nat \ {0}
  BY ShardsAssumption
<1>2. DOMAIN Services = 1 .. n
  BY DEF Services
<1>3. Len(Services) = n
  <2>1. \E S : Services \in Seq(S)
    <3> HIDE DEF n
    <3>1. Services \in [1 .. n -> Service]
      BY <1>1, <1>2 DEF Service, Services
    <3> QED
      BY <1>1, <3>1
  <2> QED
    BY <1>1, <1>2, <2>1
<1> QED
  BY <1>1, <1>2, <1>3 DEF Service

LEMMA InitPassInv == Init => PassInv
<1> SUFFICES ASSUME Init PROVE PassInv
  OBVIOUS
<1>1. at \in DOMAIN Services
  BY ServiceNumbers DEF Init
<1> QED
  BY <1>1, FatesAssumption, FaultsAssumption, AttemptsAssumption
     DEF Init, PassInv, Unread, InPass, Status

\* A new pass has seen the containers as they are, and knows nothing yet.
LEMMA BeginPassInv ==
  ASSUME PassInv, BeginPass(container), UNCHANGED <<container, fate>>, faults' \in 0 .. MaxFaults
  PROVE  PassInv'
<1>1. at' \in DOMAIN Services
  BY ServiceNumbers DEF BeginPass
<1> QED
  BY <1>1, AttemptsAssumption DEF PassInv, BeginPass, Unread, InPass, Status

\* The end of a pass forgets what it knew.
LEMMA EndPassInv ==
  ASSUME PassInv, EndPass, UNCHANGED <<container, fate>>, faults' \in 0 .. MaxFaults
  PROVE  PassInv'
<1>1. at' \in DOMAIN Services
  BY ServiceNumbers DEF EndPass
<1> QED
  BY <1>1, AttemptsAssumption DEF PassInv, EndPass, Unread, InPass, Status

\* The next service is visited with what is known of every one.
LEMMA NextServiceInv ==
  ASSUME PassInv, InPass, UNCHANGED <<container, fate, faults>>,
         NEW m \in [Service -> Status \cup {"unread"}],
         \A s \in Service : m[s] # "unread" => m[s] \in glimpsed[s],
         NextService(m)
  PROVE  PassInv'
<1>1. CASE at = Len(Services)
  BY <1>1, EndPassInv DEF NextService, PassInv
<1>2. CASE at # Len(Services)
  <2>1. at' \in DOMAIN Services
    BY <1>2, ServiceNumbers DEF NextService, PassInv
  <2> QED
    BY <1>2, <2>1, AttemptsAssumption DEF NextService, PassInv, InPass
<1> QED
  BY <1>1, <1>2

\* Another moment of the same pass, for the same service.
LEMMA GoToInv ==
  ASSUME PassInv, InPass, NEW p \in {"start", "settle", "verify", "refresh"}, GoTo(p),
         attempt' \in 0 .. MaxRestartAttempts, UNCHANGED <<container, fate, faults>>,
         p = "refresh" \/ (statusMap[Cur] = "exited" /\ ~DependencyDown(Cur))
  PROVE  PassInv'
  BY DEF PassInv, GoTo, InPass, Cur, DependencyDown

\* A container that changes state is seen to by the pass under way.
LEMMA BecomesInv ==
  ASSUME PassInv, NEW s \in Service, NEW st \in Status, Becomes(s, st),
         UNCHANGED <<fate, loopVars>>, faults' \in 0 .. MaxFaults
  PROVE  PassInv'
<1>1. /\ glimpsed' \in [Service -> SUBSET Status]
      /\ \A r \in Service : glimpsed[r] \subseteq glimpsed'[r]
  BY DEF PassInv, Becomes
<1>2. InPass' => \A r \in Service : container'[r] \in glimpsed'[r]
  BY DEF PassInv, Becomes, InPass, loopVars
<1> QED
  BY <1>1, <1>2 DEF PassInv, Becomes, loopVars, Cur, DependencyDown, InPass

\* The steps that read the statuses and decide.
LEMMA DecideInv ==
  ASSUME PassInv,
         ReadStatus \/ SkipCoolingDown \/ LeaveAlone \/ Defer \/ Escalate \/ BeginRestart
  PROVE  PassInv'
<1> USE DEF InPass
<1>0. Cur \in Service
  BY ServiceNumbers DEF PassInv, Cur
<1>1. CASE ReadStatus
  <2>1. at' \in DOMAIN Services
    BY <1>1, ServiceNumbers DEF ReadStatus, PassInv
  <2>2. /\ statusMap' \in [Service -> Status \cup {"unread"}]
        /\ \A s \in Service : statusMap'[s] # "unread" => statusMap'[s] \in glimpsed[s]
    BY <1>0, <1>1 DEF ReadStatus, PassInv
  <2>3. pc' \in {"read", "visit"}
    BY <1>1 DEF ReadStatus
  <2> QED
    BY <1>1, <2>1, <2>2, <2>3 DEF ReadStatus, PassInv
<1>2. CASE SkipCoolingDown \/ LeaveAlone
  <2>1. pc = "visit" /\ NextService(statusMap) /\ UNCHANGED <<container, fate, faults>>
    BY <1>2 DEF SkipCoolingDown, LeaveAlone, Considers
  <2> QED
    BY <2>1, NextServiceInv DEF PassInv
<1>3. CASE Defer \/ Escalate
  <2>1. pc = "visit" /\ GoTo("refresh") /\ UNCHANGED <<container, fate, faults, attempt>>
    BY <1>3 DEF Defer, Escalate, Considers
  <2>2. attempt' \in 0 .. MaxRestartAttempts
    BY <2>1 DEF PassInv
  <2> QED
    BY <2>1, <2>2 DEF PassInv, GoTo
<1>4. CASE BeginRestart
  <2>1. /\ pc = "visit" /\ GoTo("start") /\ UNCHANGED <<container, fate, faults>>
        /\ statusMap[Cur] = "exited" /\ ~DependencyDown(Cur)
        /\ attempt' = 1
    BY <1>4 DEF BeginRestart, Considers, Down
  <2>2. attempt' \in 0 .. MaxRestartAttempts
    BY <2>1, AttemptsAssumption
  <2> QED
    BY <2>1, <2>2, GoToInv
<1> QED
  BY <1>1, <1>2, <1>3, <1>4

\* The steps that carry a restart out.
LEMMA RestartInv ==
  ASSUME PassInv, Start \/ StartRaises \/ Verify \/ Refresh \/ Wake
  PROVE  PassInv'
<1> USE DEF InPass
<1>0. Cur \in Service
  BY ServiceNumbers DEF PassInv, Cur
<1>1. CASE Start
  <2>1. StartedAs(Cur) \in Status
    BY <1>0 DEF StartedAs, PassInv, Status
  <2>2. /\ glimpsed' \in [Service -> SUBSET Status]
        /\ \A r \in Service : glimpsed[r] \subseteq glimpsed'[r]
        /\ \A r \in Service : container'[r] \in glimpsed'[r]
    BY <1>0, <1>1, <2>1 DEF PassInv, Start, Becomes
  <2> QED
    BY <1>0, <1>1, <2>1, <2>2 DEF PassInv, Start, Becomes, Cur, DependencyDown
<1>2. CASE StartRaises
  <2>1. faults' \in 0 .. MaxFaults
    BY <1>2 DEF StartRaises, PassInv
  <2> QED
    BY <1>2, <2>1, EndPassInv DEF StartRaises
<1>3. CASE Verify
  <2>1. /\ pc = "verify" /\ UNCHANGED <<container, fate, faults>>
        /\ statusMap[Cur] = "exited" /\ ~DependencyDown(Cur)
    BY <1>3 DEF Verify, PassInv
  <2>2. CASE GoTo("start") /\ attempt < MaxRestartAttempts /\ attempt' = attempt + 1
    <3>1. attempt' \in 0 .. MaxRestartAttempts
      BY <2>2, AttemptsAssumption DEF PassInv
    <3> QED
      BY <2>1, <2>2, <3>1, GoToInv
  <2>3. CASE GoTo("refresh") /\ UNCHANGED attempt
    <3>1. attempt' \in 0 .. MaxRestartAttempts
      BY <2>3 DEF PassInv
    <3> QED
      BY <2>1, <2>3, <3>1, GoToInv
  <2> QED
    BY <1>3, <2>2, <2>3 DEF Verify
<1>4. CASE Refresh
  <2> DEFINE m == [statusMap EXCEPT ![Cur] = container[Cur]]
  <2>1. pc = "refresh" /\ NextService(m) /\ UNCHANGED <<container, fate, faults>>
    BY <1>4 DEF Refresh
  <2>2. /\ m \in [Service -> Status \cup {"unread"}]
        /\ \A s \in Service : m[s] # "unread" => m[s] \in glimpsed[s]
    BY <1>0, <2>1 DEF PassInv
  <2> QED
    BY <2>1, <2>2, NextServiceInv
<1>5. CASE Wake
  <2>1. UNCHANGED <<container, fate, faults>> /\ faults' \in 0 .. MaxFaults
    BY <1>5 DEF Wake, PassInv
  <2>2. CASE pc = "poll"
    BY <1>5, <2>1, <2>2, BeginPassInv DEF Wake
  <2>3. CASE pc # "poll"
    <3>1. pc = "settle" /\ GoTo("verify") /\ UNCHANGED attempt
      BY <1>5, <2>3 DEF Wake, Sleeping
    <3>2. /\ attempt' \in 0 .. MaxRestartAttempts
          /\ statusMap[Cur] = "exited" /\ ~DependencyDown(Cur)
      BY <3>1 DEF PassInv
    <3> QED
      BY <2>1, <3>1, <3>2, GoToInv
  <2> QED
    BY <2>2, <2>3
<1> QED
  BY <1>1, <1>2, <1>3, <1>4, <1>5

\* Every step keeps what the pass knows.
LEMMA NextPassInv ==
  ASSUME PassInv, [Next]_vars
  PROVE  PassInv'
<1>1. CASE Loop
  BY <1>1, DecideInv, RestartInv DEF Loop
<1>2. ASSUME NEW s \in Service, Crash(s) \/ Remove(s) \/ Deploy(s) \/ ComesBack(s)
      PROVE  PassInv'
  <2>1. PICK st \in Status : Becomes(s, st)
    BY <1>2 DEF Crash, Remove, Deploy, ComesBack, Status
  <2>2. UNCHANGED <<fate, loopVars>> /\ faults' \in 0 .. MaxFaults
    BY <1>2, FaultsAssumption DEF Crash, Remove, Deploy, ComesBack, Fault, PassInv
  <2> QED
    BY <2>1, <2>2, BecomesInv
<1>3. CASE CallRaises
  <2>1. faults' \in 0 .. MaxFaults
    BY <1>3, FaultsAssumption DEF CallRaises, Fault, PassInv
  <2> QED
    BY <1>3, <2>1, EndPassInv DEF CallRaises
<1>4. CASE SlowCall
  <2>1. faults' \in 0 .. MaxFaults
    BY <1>4, FaultsAssumption DEF SlowCall, Fault, PassInv
  <2> QED
    BY <1>4, <2>1 DEF SlowCall, loopVars, PassInv, InPass, Cur, DependencyDown
<1>5. CASE RestartWatchdog
  <2>1. faults' \in 0 .. MaxFaults
    BY <1>5, FaultsAssumption DEF RestartWatchdog, Fault, PassInv
  <2> QED
    BY <1>5, <2>1, BeginPassInv DEF RestartWatchdog
<1>6. CASE UNCHANGED vars
  BY <1>6 DEF vars, loopVars, PassInv, InPass, Cur, DependencyDown
<1> QED
  BY <1>1, <1>2, <1>3, <1>4, <1>5, <1>6 DEF Next

\* Nothing is restarted on what an earlier pass saw (watchdog.py check_and_heal).
THEOREM OnlyTheDown == Spec => []OnlyTheDownAreStarted
<1>1. PassInv => OnlyTheDownAreStarted
  <2> SUFFICES ASSUME PassInv PROVE OnlyTheDownAreStarted
    OBVIOUS
  <2>1. Cur \in Service
    BY ServiceNumbers DEF PassInv, Cur
  <2> QED
    BY <2>1 DEF PassInv, OnlyTheDownAreStarted
<1> QED
  BY <1>1, InitPassInv, NextPassInv, PTL DEF Spec

\* A service is restarted only if its tickerplant ran during the pass (runbooks.py
\* classify).
THEOREM TickerplantFirst == Spec => []RootCauseFirst
<1>1. PassInv => RootCauseFirst
  <2> SUFFICES ASSUME PassInv, pc \in {"start", "settle", "verify"}, NEW d \in Dependency(Cur)
               PROVE  "running" \in glimpsed[d]
    BY DEF RootCauseFirst
  <2>1. d \in Service
    BY ServiceNumbers, DependencyAssumption DEF PassInv, Cur
  <2>2. statusMap[d] = "running"
    BY DEF PassInv, DependencyDown
  <2> QED
    BY <2>1, <2>2 DEF PassInv
<1> QED
  BY <1>1, InitPassInv, NextPassInv, PTL DEF Spec

-----------------------------------------------------------------------------
(* Types *)

\* No cooldown is longer than that of an out-of-memory crash loop.
CooldownsBounded == \A s \in Service : cooldown[s] <= OomMultiplier * FlapCooldown

LEMMA InitCooldownsBounded == Init => CooldownsBounded
<1>1. OomMultiplier * FlapCooldown \in Nat
  BY FlapAssumption
<1> QED
  BY <1>1 DEF Init, CooldownsBounded, NoCooldown

LEMMA NextCooldownsBounded ==
  ASSUME FlapInv, CooldownsBounded, [Next]_vars
  PROVE  CooldownsBounded'
<1>1. /\ OomMultiplier * FlapCooldown \in Nat
      /\ OomMultiplier * FlapCooldown >= FlapCooldown
  BY FlapAssumption
<1>2. \A s \in Service : cooldown[s] \in Int
  BY DEF FlapInv
<1>3. CASE UNCHANGED cooldown
  BY <1>3 DEF CooldownsBounded
<1>4. ASSUME NEW s \in Service,
             \/ cooldown' = Released(s)
             \/ \E oom \in BOOLEAN :
                   cooldown' = [cooldown EXCEPT ![s] =
                                   IF oom THEN OomMultiplier * FlapCooldown ELSE FlapCooldown]
      PROVE  CooldownsBounded'
  <2>1. \A r \in Service : \/ cooldown'[r] = cooldown[r]
                           \/ cooldown'[r] = NoCooldown
                           \/ cooldown'[r] = OomMultiplier * FlapCooldown
                           \/ cooldown'[r] = FlapCooldown
    BY <1>4 DEF Released, FlapInv
  <2> QED
    BY <1>1, <2>1 DEF CooldownsBounded, NoCooldown
<1>5. CASE TimePasses
  <2>1. \A r \in Service : cooldown'[r] \in Int /\ cooldown'[r] <= cooldown[r]
    BY <1>2, <1>5 DEF TimePasses
  <2> QED
    BY <1>1, <1>2, <2>1 DEF CooldownsBounded
<1>6. CASE RestartWatchdog
  BY <1>1, <1>6 DEF RestartWatchdog, CooldownsBounded, NoCooldown
<1>7. CASE LeaveAlone \/ Defer \/ BeginRestart
  BY <1>4, <1>7 DEF LeaveAlone, Defer, BeginRestart
<1>8. CASE Escalate
  BY <1>4, <1>8 DEF Escalate
<1>9. CASE ReadStatus \/ SkipCoolingDown \/ Start \/ StartRaises \/ Verify \/ Refresh
  BY <1>3, <1>9 DEF ReadStatus, SkipCoolingDown, Start, StartRaises, Verify, Refresh, flapVars
<1>10. CASE Wake \/ SlowCall
  BY <1>5, <1>10 DEF Wake, SlowCall
<1>11. CASE CallRaises \/ \E s \in Service : Crash(s) \/ Remove(s) \/ Deploy(s) \/ ComesBack(s)
  BY <1>3, <1>11 DEF CallRaises, Crash, Remove, Deploy, ComesBack, flapVars
<1>12. CASE UNCHANGED vars
  BY <1>3, <1>12 DEF vars, flapVars
<1> QED
  BY <1>6, <1>7, <1>8, <1>9, <1>10, <1>11, <1>12 DEF Next, Loop

\* Every variable keeps its type; in particular no restart exceeds its attempts and no
\* cooldown the longest one (runbooks.py restart_and_verify, escalate_oom).
THEOREM TypeCorrect == Spec => []TypeOK
<1>1. ASSUME FlapInv, PassInv, CooldownsBounded
      PROVE  TypeOK
  <2>1. OomMultiplier * FlapCooldown \in Int
    BY FlapAssumption
  <2>2. \A s \in Service : cooldown[s] \in NoCooldown .. OomMultiplier * FlapCooldown
    BY <1>1, <2>1 DEF FlapInv, CooldownsBounded, NoCooldown
  <2> QED
    BY <1>1, <2>2 DEF FlapInv, PassInv, TypeOK
<1> QED
  BY <1>1, InitFlapInv, NextFlapInv, InitPassInv, NextPassInv,
     InitCooldownsBounded, NextCooldownsBounded, PTL DEF Spec
=============================================================================
