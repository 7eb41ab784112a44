---------------------------- MODULE Tickerplant ----------------------------
(***************************************************************************)
(* The tickerplant of one shard, data-plane/q/tick.q.                      *)
(*                                                                         *)
(* A single-threaded q process: each action is one handler run to its end. *)
(* Feeds call .u.upd; the write-down database and the chained RDB          *)
(* subscribe; a timer detects the end of the trading day and disconnects   *)
(* subscribers whose outbound queue stays too long.                        *)
(*                                                                         *)
(* chan[h] is what has been sent to handle h and not processed by the      *)
(* subscriber; its length stands for the bytes of .z.W h.  When the        *)
(* connection of h ends, what had already left the tickerplant may still   *)
(* be processed: an arbitrary prefix of chan[h] survives (Truncated).      *)
(***************************************************************************)
EXTENDS ShardTypes

CONSTANTS
    Handles,       \* the subscribers' connections
    MaxSubBytes,   \* .u.maxSubBytes, in queued messages
    SlowStrikes    \* .u.slowStrikes

ASSUME SlowAssumption == /\ MaxSubBytes \in Nat
                         /\ SlowStrikes \in Nat \ {0}

VARIABLES
    now,      \* .z.p, the wall clock
    subs,     \* .u.w: the handles subscribed to each table
    chan,     \* the messages on their way to each handle
    strikes,  \* .u.strikes: consecutive breaches seen on each handle (absent is 0)
    today,    \* .u.today
    logDate,  \* the date in the name of the open log file, TPLOG
    logged,   \* the entries of the log files: the date in the file's name, and the row
    breaches  \* history: slow checks in a row, on its present connection, that found
              \* each handle over the limit

tpVars == <<subs, chan, strikes, today, logDate, logged, breaches>>

-----------------------------------------------------------------------------
(* Operators on the subscription state *)

SubHandles == UNION {subs[t] : t \in Tables}

\* The handles that are sent a message to "every subscriber".
Broadcast(q, m) ==
    [h \in Handles |-> IF h \in SubHandles THEN Append(q[h], m) ELSE q[h]]

\* .u.checkSlow: more is queued for h than the limit.
Breach(q, h) == Len(q[h]) > MaxSubBytes

\* What may be left of the queues once the connections of the handles in H end.
Truncated(q, H) ==
    {c \in [Handles -> UNION {{SubSeq(q[h], 1, n) : n \in 0 .. Len(q[h])} : h \in Handles}] :
        \A h \in Handles :
            IF h \in H THEN \E n \in 0 .. Len(q[h]) : c[h] = SubSeq(q[h], 1, n)
                       ELSE c[h] = q[h]}

Unsubscribed(H) == [t \in Tables |-> subs[t] \ H]

NoCounts == [h \in Handles |-> 0]

-----------------------------------------------------------------------------
\* Started, with the subscribers of w.
TpInitWith(w) ==
    /\ subs = w
    /\ chan = [h \in Handles |-> <<>>]
    /\ strikes = NoCounts
    /\ today = TradingDate(now)
    /\ logDate = TradingDate(now)
    /\ logged = {}
    /\ breaches = NoCounts

TpInit == TpInitWith([t \in Tables |-> {}])

\* .u.sub for table t.  On a fresh connection, what an earlier connection with
\* the same handle number had left unread is gone with it.
Sub(h, t) ==
    /\ h \notin subs[t]
    /\ subs' = [subs EXCEPT ![t] = @ \cup {h}]
    /\ IF h \in SubHandles
       THEN UNCHANGED <<chan, breaches>>
       ELSE /\ chan' = [chan EXCEPT ![h] = <<>>]
            /\ breaches' = [breaches EXCEPT ![h] = 0]
    /\ UNCHANGED <<strikes, today, logDate, logged>>

\* Variant: the row is published and not logged.
UpdUnlogged(r) ==
    /\ chan' = [h \in Handles |-> IF h \in subs[r.tbl] THEN Append(chan[h], UpdMsg(r))
                                                        ELSE chan[h]]
    /\ UNCHANGED <<subs, strikes, today, logDate, logged, breaches>>

\* .u.doUpd: log the row, then publish it to the subscribers of its table.
Upd(r) ==
    /\ logged' = logged \cup {[date |-> logDate, row |-> r]}
    /\ chan' = [h \in Handles |-> IF h \in subs[r.tbl] THEN Append(chan[h], UpdMsg(r))
                                                        ELSE chan[h]]
    /\ UNCHANGED <<subs, strikes, today, logDate, breaches>>

\* .u.broadcastWatermark
BroadcastWatermark(wm) ==
    /\ chan' = Broadcast(chan, ShedMsg(wm))
    /\ UNCHANGED <<subs, strikes, today, logDate, logged, breaches>>

\* The queues once .u.checkEod has run: the closing day is announced if it is over.
AfterEod == IF TradingDate(now) > today THEN Broadcast(chan, EodMsg(today)) ELSE chan

\* Variant: off by one, a day is closed a day late.
CheckEodLate ==
    IF TradingDate(now) > today + 1
    THEN /\ today' = TradingDate(now)
         /\ logDate' = TradingDate(now)
    ELSE UNCHANGED <<today, logDate>>

\* .u.checkEod: move to the new trading day, announce the closed one, rotate the log.
CheckEod ==
    IF TradingDate(now) > today
    THEN /\ today' = TradingDate(now)
         /\ logDate' = TradingDate(now)
    ELSE UNCHANGED <<today, logDate>>

\* Variant: off by one, a handle is dropped one strike too late.
TooSlowLate(q) == {h \in SubHandles : Breach(q, h) /\ strikes[h] + 1 > SlowStrikes}

\* The handles .u.checkSlow disconnects, given the queues q.
TooSlow(q) == {h \in SubHandles : Breach(q, h) /\ strikes[h] + 1 >= SlowStrikes}

\* Variant: a handle that caught up keeps its strikes.
CheckSlowUnforgiving(q) ==
    /\ strikes' = [h \in Handles |-> IF h \in TooSlow(q) THEN 0
                                     ELSE IF h \in SubHandles /\ Breach(q, h)
                                     THEN strikes[h] + 1 ELSE strikes[h]]
    /\ subs' = Unsubscribed(TooSlow(q))
    /\ chan' \in Truncated(q, TooSlow(q))

\* .u.checkSlow: count a strike for each handle over the limit, reset the
\* others, and drop (.u.dropSub) those that reach the limit of strikes.
CheckSlow(q) ==
    /\ strikes' = [h \in Handles |-> IF h \notin SubHandles THEN strikes[h]
                                     ELSE IF Breach(q, h) /\ h \notin TooSlow(q)
                                     THEN strikes[h] + 1 ELSE 0]
    /\ subs' = Unsubscribed(TooSlow(q))
    /\ chan' \in Truncated(q, TooSlow(q))

\* History: how many checks in a row, up to and including this one, found h over.
CountBreaches(q) ==
    breaches' = [h \in Handles |-> IF h \in SubHandles /\ Breach(q, h)
                                   THEN breaches[h] + 1 ELSE 0]

\* Variant: the sweep is left out.
TimerUnswept == CheckEod /\ chan' = AfterEod /\ UNCHANGED <<subs, strikes, logged, breaches>>

\* .z.ts: the end-of-day check, then the slow-subscriber sweep.
Timer ==
    /\ CheckEod
    /\ CheckSlow(AfterEod)
    /\ CountBreaches(AfterEod)
    /\ UNCHANGED logged

\* Variant: the log is not rotated.
EndKeepingLog(d) ==
    /\ today' = d + 1
    /\ chan' = Broadcast(chan, EodMsg(d))
    /\ UNCHANGED <<subs, strikes, logDate, logged, breaches>>

\* Variant: the trading day stays, so that the timer closes it again.
EndKeepingDay(d) ==
    /\ chan' = Broadcast(chan, EodMsg(d))
    /\ UNCHANGED <<subs, strikes, today, logDate, logged, breaches>>

\* .u.end: an operator forces the end of day d.
End(d) ==
    /\ today' = d + 1
    /\ logDate' = d + 1
    /\ chan' = Broadcast(chan, EodMsg(d))
    /\ UNCHANGED <<subs, strikes, logged, breaches>>

\* .z.pc: the connection of h ended on its own.
PortClosed(h) ==
    /\ h \in SubHandles
    /\ subs' = Unsubscribed({h})
    /\ strikes' = [strikes EXCEPT ![h] = 0]
    /\ chan' \in Truncated(chan, {h})
    /\ UNCHANGED <<today, logDate, logged, breaches>>

\* The process dies and is started again: every connection ends, the trading
\* date is read afresh from the clock and the log of that date is reopened.
TpRestart ==
    /\ subs' = [t \in Tables |-> {}]
    /\ strikes' = NoCounts
    /\ chan' \in Truncated(chan, Handles)
    /\ today' = TradingDate(now)
    /\ logDate' = TradingDate(now)
    /\ UNCHANGED <<logged, breaches>>

=============================================================================
