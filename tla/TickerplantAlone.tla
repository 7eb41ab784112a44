-------------------------- MODULE TickerplantAlone --------------------------
(***************************************************************************)
(* The tickerplant of data-plane/q/tick.q with an arbitrary environment:   *)
(* feeds publish rows stamped by their own clocks, subscribers connect,    *)
(* read at their own pace and vanish, the write-down database asks for     *)
(* watermarks, an operator forces the end of the day and the process is    *)
(* restarted by its supervisor (docker-compose restart: unless-stopped).   *)
(***************************************************************************)
EXTENDS Tickerplant

CONSTANTS
    MaxTime,     \* bound: the clock stops here
    MaxRows,     \* bound: rows published in a behaviour
    MaxQueue,    \* bound: no row or watermark is sent while a queue is this long
    Restarts     \* may the process be restarted

ASSUME BoundsAssumption == /\ MaxTime \in Nat /\ MaxRows \in Nat /\ MaxQueue \in Nat
                           /\ Restarts \in BOOLEAN

vars == <<now, subs, chan, strikes, today, logDate, logged, breaches>>

LoggedRows == {e.row : e \in logged}

Room == \A h \in Handles : Len(chan[h]) < MaxQueue

\* The wall clock advances.
Tick == /\ now < MaxTime
        /\ now' = now + 1
        /\ UNCHANGED tpVars

Feed(r) == /\ r \notin LoggedRows
           /\ Cardinality(logged) < MaxRows
           /\ Room
           /\ Upd(r)
           /\ UNCHANGED now

Flushed(wm) == Room /\ BroadcastWatermark(wm) /\ UNCHANGED now

\* A subscriber processes the oldest message sent to it.
Deliver(h) == /\ chan[h] # <<>>
              /\ chan' = [chan EXCEPT ![h] = Tail(@)]
              /\ UNCHANGED <<now, subs, strikes, today, logDate, logged, breaches>>

\* An operator ends the day in progress early; a closed day is never ended again.
ForceEnd == /\ today = TradingDate(now)
            /\ Room
            /\ End(today)
            /\ UNCHANGED now

Restart == Restarts /\ TpRestart /\ UNCHANGED now

Init == now = EodOffset /\ TpInit

TimerStep == Timer /\ UNCHANGED now

Next ==
    \/ Tick
    \/ \E r \in [tbl : Tables, time : {now}] : Feed(r)
    \/ Flushed(NoTime)  \* which watermark it is makes no difference to the relay
    \/ TimerStep
    \/ ForceEnd
    \/ Restart
    \/ \E h \in Handles :
          \/ \E t \in Tables : Sub(h, t) /\ UNCHANGED now
          \/ Deliver(h)
          \/ PortClosed(h) /\ UNCHANGED now

Spec == Init /\ [][Next]_vars

\* q runs .z.ts at every timer period for as long as the process lives.
FairSpec == Spec /\ WF_vars(TimerStep)

-----------------------------------------------------------------------------
(* Properties *)

\* Every variable keeps its type, and the log is always the one of .u.today.
TypeOK ==
    /\ now \in Nat
    /\ subs \in [Tables -> SUBSET Handles]
    /\ chan \in [Handles -> Seq(Message)]
    /\ strikes \in [Handles -> 0 .. SlowStrikes]
    /\ today \in Int /\ logDate = today
    /\ logged \in SUBSET [date : Int, row : Row]
    /\ breaches \in [Handles -> 0 .. SlowStrikes]

\* A subscriber is never charged with strikes that an earlier connection with
\* the same handle number earned (.z.pc and .u.dropSub clear them): its count is
\* the number of checks in a row that found this connection over the limit.
StrikesAreOfThisConnection ==
    \A h \in Handles : strikes[h] = IF h \in SubHandles THEN breaches[h] ELSE 0

\* The plant is protected: no subscriber survives SlowStrikes checks in a row
\* that found it over the limit (.u.checkSlow).
NoSlowSubscriberKept ==
    \A h \in SubHandles : breaches[h] < SlowStrikes

\* ... and the timer disconnects nobody else: a subscriber that caught up between
\* two checks starts again from no strikes.
DropsOnlyTheSlow ==
    [][TimerStep => \A h \in SubHandles \ SubHandles' : breaches'[h] = SlowStrikes]_vars

\* The end-of-day message of a day splits what each subscriber receives exactly
\* as the log files do (.u.doEod announces, then rotates): what comes before it
\* is in the log of that day or an earlier one, what comes after it in a later one.
EodSplitsAsTheLogDoes ==
    \A h \in Handles : \A i, j \in 1 .. Len(chan[h]) :
        \A e \in logged :
            /\ chan[h][i].kind = "eod"
            /\ chan[h][j].kind = "upd"
            /\ chan[h][j].row = e.row
            => (j < i <=> e.date <= chan[h][i].date)

\* On one connection the days are closed in order, each at most once, also when
\* .u.end has closed the day in progress early.
DaysCloseInOrder ==
    \A h \in Handles : \A i, j \in 1 .. Len(chan[h]) :
        /\ chan[h][i].kind = "eod"
        /\ chan[h][j].kind = "eod"
        /\ i < j
        => chan[h][i].date < chan[h][j].date

\* A row reaches subscribers only once the disaster-recovery log has it.
LoggedBeforePublished ==
    \A h \in Handles : RowsIn(chan[h]) \subseteq LoggedRows

\* What subscribers are sent is the disaster-recovery log, in its order and cut into
\* its days: a log replayed after a crash gives the day they saw.
StreamMirrorsLog == LoggedBeforePublished /\ EodSplitsAsTheLogDoes /\ DaysCloseInOrder

\* A day that is over is closed: the boundary is found by the timer alone.
ClosedDayIsAnnounced ==
    (today < TradingDate(now)) ~> (today >= TradingDate(now))

\* A subscriber over the limit does not stay both subscribed and over it.
SlowSubscriberIsShed ==
    \A h \in Handles :
        (h \in SubHandles /\ Breach(chan, h)) ~> (h \notin SubHandles \/ ~Breach(chan, h))

\* What the timer is for comes to pass: days that are over are closed and slow
\* subscribers shed, as long as it ticks.
PlantKeepsUp == ClosedDayIsAnnounced /\ SlowSubscriberIsShed

=============================================================================
