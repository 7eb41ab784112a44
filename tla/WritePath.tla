----------------------------- MODULE WritePath -----------------------------
(***************************************************************************)
(* The write path of one shard: the tickerplant (tick.q), the write-down   *)
(* database that subscribes to it (wdb.q), and the directories it writes.  *)
(*                                                                         *)
(* Feeds publish rows stamped up to MaxLate ticks before they arrive.      *)
(* What may go wrong in a behaviour is bounded by Budget: how many times   *)
(* each kind of fault still happens.                                       *)
(***************************************************************************)
EXTENDS Tickerplant, WriteDownDb

CONSTANTS
    MaxTime,  \* bound: the clock stops here
    MaxRows,  \* bound: rows published in a behaviour
    MaxLate,  \* how late a row may reach the tickerplant
    MaxChan,  \* bound: feeds wait while a queue is this long
    Lingers,  \* does the last tick of the clock go on until all timers are due again
    Budget    \* bound: the number of faults of each kind

\* The crash of one of the two processes, the loss of their connection, a .Q.dpft
\* that signals, an early .u.end.
FaultKinds == {"tp", "wdb", "cut", "dpft", "end"}

ASSUME PathAssumption ==
    /\ "wdb" \in Handles
    /\ MaxTime \in Nat /\ MaxRows \in Nat /\ MaxLate \in Nat /\ MaxChan \in Nat
    /\ Lingers \in BOOLEAN
    /\ Budget \in [FaultKinds -> Nat]

VARIABLE left   \* the faults of each kind still to come

pathVars == <<now, tpVars, wdbVars, diskVars, left>>

LoggedRows == {e.row : e \in logged}

\* What is safely on disk.
Durable == scratch \cup sealed

Fault(k) == left[k] > 0 /\ left' = [left EXCEPT ![k] = @ - 1]
NoFault == UNCHANGED left

TpSame == UNCHANGED <<now, tpVars>>
WdbSame == UNCHANGED <<wdbVars, diskVars>>

-----------------------------------------------------------------------------
PathInit ==
    /\ now = EodOffset
    /\ TpInitWith([t \in Tables |-> Handles])
    /\ WdbInit(now)
    /\ DiskInit
    /\ left = Budget

(* The tickerplant and what surrounds it *)

Tick == now < MaxTime /\ now' = now + 1 /\ UNCHANGED tpVars /\ WdbSame /\ NoFault

\* What the bound on the clock must not do is to stop the timers: within its last
\* tick a long time passes, again and again, and the dates stay the same.
Linger ==
    /\ Lingers /\ now = MaxTime /\ wdbUp
    /\ \A h \in Handles : Len(chan[h]) < MaxChan
    /\ lastFlush' = now - FlushIntv - 1
    /\ lastCatchUp' = now - CatchUpIntv - 1
    /\ TpSame /\ UNCHANGED <<wdbUp, buf, todo, lastSealed, diskVars>> /\ NoFault

Feed(r) ==
    /\ r \notin LoggedRows
    /\ Cardinality(logged) < MaxRows
    /\ \A h \in Handles : Len(chan[h]) < MaxChan
    /\ Upd(r)
    /\ UNCHANGED now /\ WdbSame /\ NoFault

\* The rows that may reach the tickerplant now.
Arriving == {r \in [tbl : Tables, time : (now - MaxLate) .. now] : r.time >= 0}

TpTimer == Timer /\ UNCHANGED now /\ WdbSame /\ NoFault

ForceEnd == today = TradingDate(now) /\ End(today) /\ Fault("end") /\ UNCHANGED now /\ WdbSame

TpCrash == TpRestart /\ Fault("tp") /\ UNCHANGED now /\ WdbSame

Cut == PortClosed("wdb") /\ Fault("cut") /\ UNCHANGED now /\ WdbSame

TpStep ==
    \/ Tick \/ Linger
    \/ \E r \in Arriving : Feed(r)
    \/ TpTimer \/ ForceEnd \/ TpCrash \/ Cut

\* The message at the head of the queue of h is processed.
Consume(h) ==
    /\ chan[h] # <<>>
    /\ chan' = [chan EXCEPT ![h] = Tail(@)]
    /\ UNCHANGED <<now, subs, strikes, today, logDate, logged, breaches>>

\* The process behind h dies, and what it had not read with it.
Vanish(h) ==
    IF h \in SubHandles
    THEN PortClosed(h) /\ chan'[h] = <<>> /\ UNCHANGED now
    ELSE /\ chan' = [chan EXCEPT ![h] = <<>>]
         /\ UNCHANGED <<now, subs, strikes, today, logDate, logged, breaches>>

\* One subscription of a .connectTp.  The second fails if the connection was lost
\* after the first.
SubWorks(h, t) == t = "trade" \/ h \in SubHandles
TrySub(h, t) == IF SubWorks(h, t) THEN Sub(h, t) /\ UNCHANGED now ELSE TpSame

-----------------------------------------------------------------------------
(* The write-down database *)

WdbReceive == Consume("wdb") /\ WdbHandle(Head(chan["wdb"])) /\ NoFault

\* connect: the connection is lost and the backoff is over.
WdbTickWith(connect) ==
    /\ connect => "wdb" \notin SubHandles
    /\ WdbTimer(now, connect)
    /\ TpSame /\ NoFault

WdbTick == \E connect \in BOOLEAN : WdbTickWith(connect)

WdbSubscribe == WdbAt("sub") /\ TrySub("wdb", Head(todo).tbl) /\ WdbStepDone /\ NoFault

WdbFlushStep == WdbFlush(now) /\ TpSame /\ NoFault

\* The watermark goes to the tickerplant on a connection opened for it, and from
\* there to every subscriber.
WdbAnnounce ==
    /\ WdbAt("watermark")
    /\ BroadcastWatermark(Head(todo).wm) /\ UNCHANGED now
    /\ WdbStepDone /\ NoFault

\* The tickerplant dies just then: if the connection cannot be opened the step is
\* skipped; if the call itself fails the error ends the handler.
WdbAnnounceFails ==
    /\ WdbAt("watermark")
    /\ TpRestart /\ Fault("tp") /\ UNCHANGED now
    /\ todo' \in {Tail(todo), <<>>}
    /\ UNCHANGED <<wdbUp, buf, lastFlush, lastCatchUp, lastSealed, diskVars>>

WdbCatchUpStep == WdbCatchUp(TradingDate(now)) /\ TpSame /\ NoFault

WdbClearStep == WdbClear /\ TpSame /\ NoFault

WdbSplayStep ==
    /\ \/ WdbSplay(TRUE) /\ NoFault
       \/ WdbSplay(FALSE) /\ Fault("dpft")
    /\ TpSame

WdbRetireStep == WdbRetire /\ TpSame /\ NoFault

\* .wdb.notify to the historical, then to the intraday database.
WdbReload == WdbAt("reload") /\ WdbStepDone /\ TpSame /\ NoFault
WdbDrop == WdbAt("drop") /\ WdbStepDone /\ TpSame /\ NoFault

WdbSealedStep == WdbSealed /\ TpSame /\ NoFault

\* The steps that no process but the tickerplant takes part in.
WdbOwnStep ==
    \/ WdbSubscribe \/ WdbFlushStep \/ WdbAnnounce \/ WdbCatchUpStep
    \/ WdbClearStep \/ WdbSplayStep \/ WdbRetireStep \/ WdbSealedStep

WdbStep == WdbOwnStep \/ WdbReload \/ WdbDrop

WdbDies == WdbCrash /\ Vanish("wdb") /\ Fault("wdb")
WdbStarts == WdbStart(now) /\ TpSame /\ NoFault

\* Whatever happens without the readers.
WriteStep ==
    \/ TpStep
    \/ WdbReceive \/ WdbTick \/ WdbOwnStep \/ WdbAnnounceFails \/ WdbDies \/ WdbStarts

-----------------------------------------------------------------------------
PathNext == WriteStep \/ WdbReload \/ WdbDrop

PathSpec == PathInit /\ [][PathNext]_pathVars

\* Time passes, the processes run their timers and read their connections as long
\* as they live, and the supervisor starts the dead ones again.  The backoff between
\* two attempts to connect is bounded, so among the timer's ticks there is always
\* another that connects.
PathFairness ==
    /\ WF_pathVars(Tick) /\ WF_pathVars(Linger)
    /\ WF_pathVars(TpTimer)
    /\ WF_pathVars(WdbReceive) /\ WF_pathVars(WdbTick) /\ SF_pathVars(WdbTickWith(TRUE))
    /\ WF_pathVars(WdbStep) /\ WF_pathVars(WdbStarts)

FairPathSpec == PathSpec /\ PathFairness

-----------------------------------------------------------------------------
(* Properties *)

Step == [op : {"sub"}, tbl : Tables]
          \cup [op : {"flush", "catchup", "reload"}]
          \cup [op : {"watermark"}, wm : Int]
          \cup [op : {"drop", "sealed"}, date : Int]
          \cup [op : {"clear", "splay", "retire"}, file : File]

\* Every variable keeps its type; rows are only where they can have come to from
\* the tickerplant, and a dead process holds nothing.
PathTypeOK ==
    /\ now \in Nat
    /\ subs \in [Tables -> SUBSET Handles]
    /\ chan \in [Handles -> Seq(Message)]
    /\ strikes \in [Handles -> Nat] /\ breaches \in [Handles -> Nat]
    /\ today \in Int /\ logDate = today
    /\ logged \in SUBSET [date : Int, row : Row]
    /\ wdbUp \in BOOLEAN
    /\ todo \in Seq(Step)
    /\ lastFlush \in Int /\ lastCatchUp \in Int /\ lastSealed \in Int
    /\ buf \in SUBSET Row /\ scratch \in SUBSET Row /\ sealed \in SUBSET Row
    /\ splays \in SUBSET File
    /\ left \in [FaultKinds -> Nat]

\* What is safely on disk stays on disk: a row leaves the scratch files only into
\* the partitions, and leaves those never.
DurableForGood == [][Durable \subseteq Durable']_pathVars

\* A scratch file is deleted only once its partition has its rows, wherever the write-down
\* database dies; but for a .Q.dpft that signalled, which .wdb.seal only logs.
RetiredOnlyIntoHdb ==
    [][scratch \ scratch' \subseteq sealed' \/ left["dpft"] < Budget["dpft"]]_pathVars

\* The partition of a sealed day holds every row of that day that the tickerplant
\* logged during the day.
SealedDayComplete ==
    \A e \in logged :
        e.date = DateOf(e.row.time) /\ e.date <= lastSealed => e.row \in sealed

\* The whole day: also the rows stamped after midnight that the tickerplant logged
\* before its timer noticed midnight.
WholeDaySealed ==
    \A r \in LoggedRows : DateOf(r.time) <= lastSealed => r \in sealed

\* No day is sealed before it is over, unless an operator ended it (.u.end); and
\* then not the day after it.
SealsOnlyClosedDays ==
    \A f \in splays : \/ f.date < TradingDate(now)
                      \/ f.date = TradingDate(now) /\ left["end"] < Budget["end"]

\* A date that was sealed has both tables, when the write-down database is at rest.
BothTablesSplayed ==
    WdbIdle => \A f \in splays : \A t \in Tables : [f EXCEPT !.tbl = t] \in splays

\* A row is in a scratch file or in a partition, not in both, when the write-down
\* database is at rest: the tiers that read them do not both count it.
ScratchXorHdb == WdbIdle => scratch \cap sealed = {}

\* The disk at the end of a day: its partitions are whole, in both tables, and no row
\* is kept twice (.wdb.eod, .wdb.seal).
SealedDaysAreWhole == PathTypeOK /\ SealedDayComplete /\ BothTablesSplayed /\ ScratchXorHdb

\* However connections and processes come and go, also between the two
\* subscriptions of a reconnect, every subscriber is again and again subscribed to
\* both tables (.wdb.checkConnection, .rdb.checkConnection).
SubscribedAgain == []<>(\A t \in Tables : subs[t] = Handles)

\* A scratch file of a closed day does not stay for ever: a missed end-of-day
\* message is caught up.
BacklogDrains ==
    \A d \in 0 .. (TradingDate(MaxTime) - 1) :
        (d \in ScratchDates /\ d < TradingDate(now)) ~> (d \notin ScratchDates)

=============================================================================
