------------------------- MODULE TickerplantProofs -------------------------
(***************************************************************************)
(* What TLAPS proves about the tickerplant, for every set of subscribers,  *)
(* every limit and every number of strikes; and about the feed handler     *)
(* that publishes to it, for every tape, window, threshold and batch size. *)
(***************************************************************************)
EXTENDS TickerplantAlone, FeedHandler, NumberLemmas, FiniteSetTheorems, SequenceTheorems, TLAPS

-----------------------------------------------------------------------------
(* Lemmas on the operators of the model *)

\* A trading date is an integer, whatever the clock reads.
LEMMA TradingDateInt == \A t \in Int : TradingDate(t) \in Int
  BY DayLenAssumption, EodOffsetAssumption DEF TradingDate

\* A message appended for every subscriber keeps the type of the queues.
LEMMA BroadcastType ==
  ASSUME NEW q \in [Handles -> Seq(Message)], NEW m \in Message
  PROVE  Broadcast(q, m) \in [Handles -> Seq(Message)]
  BY DEF Broadcast

\* What is left of queues of messages after disconnections is queues of messages.
LEMMA TruncatedType ==
  ASSUME NEW q \in [Handles -> Seq(Message)], NEW H, NEW c \in Truncated(q, H)
  PROVE  c \in [Handles -> Seq(Message)]
<1>1. \A h \in Handles : c[h] \in Seq(Message)
  <2>1. TAKE h \in Handles
  <2>2. CASE h \notin H
    BY <2>2 DEF Truncated
  <2>3. CASE h \in H
    <3>1. PICK n \in 0 .. Len(q[h]) : c[h] = SubSeq(q[h], 1, n)
      BY <2>3 DEF Truncated
    <3>2. q[h] \in Seq(Message)
      OBVIOUS
    <3> QED
      BY <3>1, <3>2
  <2> QED
    BY <2>2, <2>3
<1> QED
  BY <1>1 DEF Truncated
\* Dropping the handles in H from every table leaves the other subscribers.
LEMMA UnsubscribedHandles ==
  ASSUME NEW H, subs' = Unsubscribed(H)
  PROVE  SubHandles' = SubHandles \ H
  BY DEF Unsubscribed, SubHandles

\* The messages the tickerplant sends are messages.
LEMMA MessagesSent ==
  /\ \A r \in Row : UpdMsg(r) \in Message
  /\ \A wm \in Int : ShedMsg(wm) \in Message
  /\ \A d \in Int : EodMsg(d) \in Message
  BY DEF UpdMsg, ShedMsg, EodMsg, Message

-----------------------------------------------------------------------------
(* The slow-subscriber sweep *)

SlowInv == TypeOK /\ StrikesAreOfThisConnection /\ NoSlowSubscriberKept

LEMMA InitSlowInv == Init => SlowInv
<1> SUFFICES ASSUME Init PROVE SlowInv
  OBVIOUS
<1> USE DEF Init, TpInit, TpInitWith
<1>1. now \in Nat
  BY EodOffsetAssumption, DayLenAssumption
<1>2. SubHandles = {}
  BY DEF SubHandles
<1>3. TypeOK
  <2>1. TradingDate(now) \in Int
    BY <1>1, TradingDateInt
  <2>2. chan \in [Handles -> Seq(Message)]
    OBVIOUS
  <2> QED
    BY <1>1, <2>1, <2>2, SlowAssumption DEF TypeOK, NoCounts
<1>4. StrikesAreOfThisConnection /\ NoSlowSubscriberKept
  BY <1>2 DEF StrikesAreOfThisConnection, NoSlowSubscriberKept, NoCounts
<1> QED
  BY <1>3, <1>4 DEF SlowInv

\* The sweep itself, on the queues q the end-of-day check leaves.
LEMMA SweepSlowInv ==
  ASSUME SlowInv, NEW q \in [Handles -> Seq(Message)], CheckSlow(q), CountBreaches(q)
  PROVE  /\ subs' \in [Tables -> SUBSET Handles]
         /\ chan' \in [Handles -> Seq(Message)]
         /\ strikes' \in [Handles -> 0 .. SlowStrikes]
         /\ breaches' \in [Handles -> 0 .. SlowStrikes]
         /\ StrikesAreOfThisConnection'
         /\ NoSlowSubscriberKept'
         /\ \A h \in SubHandles \ SubHandles' : breaches'[h] = SlowStrikes
<1> USE DEF SlowInv
<1>1. SubHandles' = SubHandles \ TooSlow(q)
  BY UnsubscribedHandles DEF CheckSlow
<1>2. SubHandles \subseteq Handles
  BY DEF TypeOK, SubHandles
<1>3. subs' \in [Tables -> SUBSET Handles]
  BY DEF CheckSlow, Unsubscribed, TypeOK
<1>4. chan' \in [Handles -> Seq(Message)]
  BY TruncatedType DEF CheckSlow
<1>5. \A h \in Handles :
        /\ strikes'[h] \in 0 .. SlowStrikes
        /\ breaches'[h] \in 0 .. SlowStrikes
        /\ strikes'[h] = IF h \in SubHandles' THEN breaches'[h] ELSE 0
        /\ h \in SubHandles' => breaches'[h] < SlowStrikes
        /\ h \in SubHandles \ SubHandles' => breaches'[h] = SlowStrikes
  <2> TAKE h \in Handles
  <2>1. CASE h \notin SubHandles
    BY <2>1, <1>1, SlowAssumption
       DEF CheckSlow, CountBreaches, TypeOK, StrikesAreOfThisConnection
  <2>2. CASE h \in SubHandles /\ ~Breach(q, h)
    BY <2>2, <1>1, SlowAssumption DEF CheckSlow, CountBreaches, TooSlow
  <2>3. CASE h \in SubHandles /\ Breach(q, h)
    <3>1. strikes[h] = breaches[h] /\ breaches[h] \in 0 .. (SlowStrikes - 1)
      BY <2>3, SlowAssumption DEF TypeOK, StrikesAreOfThisConnection, NoSlowSubscriberKept
    <3>2. breaches'[h] = breaches[h] + 1
      BY <2>3 DEF CountBreaches
    <3>3. h \in TooSlow(q) <=> strikes[h] + 1 >= SlowStrikes
      BY <2>3 DEF TooSlow
    <3>4. strikes'[h] = IF h \in TooSlow(q) THEN 0 ELSE strikes[h] + 1
      BY <2>3 DEF CheckSlow
    <3> QED
      BY <3>1, <3>2, <3>3, <3>4, <1>1, <2>3, SlowAssumption
  <2> QED
    BY <2>1, <2>2, <2>3
<1>6. strikes' \in [Handles -> 0 .. SlowStrikes] /\ breaches' \in [Handles -> 0 .. SlowStrikes]
  BY <1>5 DEF CheckSlow, CountBreaches
<1>7. StrikesAreOfThisConnection' /\ NoSlowSubscriberKept'
  BY <1>1, <1>2, <1>5 DEF StrikesAreOfThisConnection, NoSlowSubscriberKept
<1> QED
  BY <1>1, <1>2, <1>3, <1>4, <1>5, <1>6, <1>7

LEMMA StepSlowInv == SlowInv /\ [Next]_vars => SlowInv'
<1> SUFFICES ASSUME SlowInv, [Next]_vars PROVE SlowInv'
  OBVIOUS
<1> USE DEF SlowInv
<1> now \in Nat /\ now \in Int /\ SubHandles \subseteq Handles
  BY DEF TypeOK, SubHandles
<1>1. CASE Tick
  BY <1>1 DEF Tick, tpVars, TypeOK, StrikesAreOfThisConnection, NoSlowSubscriberKept, SubHandles
<1>2. ASSUME NEW r \in [tbl : Tables, time : {now}], Feed(r) PROVE SlowInv'
  <2>1. r \in Row /\ UpdMsg(r) \in Message
    BY MessagesSent DEF Row
  <2>2. chan' \in [Handles -> Seq(Message)] /\ logged' \in SUBSET [date : Int, row : Row]
    BY <1>2, <2>1 DEF Feed, Upd, TypeOK
  <2> QED
    BY <1>2, <2>2
       DEF Feed, Upd, TypeOK, StrikesAreOfThisConnection, NoSlowSubscriberKept, SubHandles
<1>3. CASE Flushed(NoTime)
  <2> NoTime \in Int
    BY DEF NoTime
  <2>0. ShedMsg(NoTime) \in Message
    BY MessagesSent
  <2>1. chan' \in [Handles -> Seq(Message)]
    BY <1>3, <2>0, BroadcastType DEF Flushed, BroadcastWatermark, TypeOK
  <2> QED
    BY <1>3, <2>1 DEF Flushed, BroadcastWatermark, TypeOK,
                      StrikesAreOfThisConnection, NoSlowSubscriberKept, SubHandles
<1>4. CASE TimerStep
  <2>1. AfterEod \in [Handles -> Seq(Message)]
    BY MessagesSent, BroadcastType DEF AfterEod, TypeOK
  <2>2. CheckSlow(AfterEod) /\ CountBreaches(AfterEod)
    BY <1>4 DEF TimerStep, Timer
  <2>3. today' \in Int /\ logDate' = today'
    BY <1>4, TradingDateInt DEF TimerStep, Timer, CheckEod, TypeOK
  <2> QED
    BY <1>4, <2>1, <2>2, <2>3, SweepSlowInv DEF TimerStep, Timer, TypeOK
<1>5. CASE ForceEnd
  <2>1. chan' \in [Handles -> Seq(Message)]
    BY <1>5, MessagesSent, BroadcastType DEF ForceEnd, End, TypeOK
  <2> QED
    BY <1>5, <2>1 DEF ForceEnd, End, TypeOK,
                      StrikesAreOfThisConnection, NoSlowSubscriberKept, SubHandles
<1>6. CASE Restart
  <2>1. chan' \in [Handles -> Seq(Message)]
    BY <1>6, TruncatedType DEF Restart, TpRestart, TypeOK
  <2>2. SubHandles' = {}
    BY <1>6 DEF Restart, TpRestart, SubHandles
  <2> QED
    BY <1>6, <2>1, <2>2, TradingDateInt, SlowAssumption
       DEF Restart, TpRestart, NoCounts, TypeOK, StrikesAreOfThisConnection, NoSlowSubscriberKept
<1>7. ASSUME NEW h \in Handles, NEW t \in Tables, Sub(h, t), UNCHANGED now PROVE SlowInv'
  <2>1. SubHandles' = SubHandles \cup {h}
    BY <1>7 DEF Sub, SubHandles, TypeOK
  <2>2. CASE h \in SubHandles
    BY <1>7, <2>1, <2>2 DEF Sub, TypeOK, StrikesAreOfThisConnection, NoSlowSubscriberKept
  <2>3. CASE h \notin SubHandles
    <3>0. chan' = [chan EXCEPT ![h] = <<>>] /\ chan \in [Handles -> Seq(Message)]
      BY <1>7, <2>3 DEF Sub, TypeOK
    <3>1. chan' \in [Handles -> Seq(Message)]
      BY <3>0
    <3>2. breaches' = [breaches EXCEPT ![h] = 0]
      BY <1>7, <2>3 DEF Sub
    <3>3. strikes[h] = 0 /\ strikes' = strikes
      BY <1>7, <2>3 DEF Sub, StrikesAreOfThisConnection
    <3>4. TypeOK'
      BY <1>7, <3>1, <3>2, SlowAssumption DEF Sub, TypeOK
    <3>5. \A g \in Handles : g # h => breaches'[g] = breaches[g]
      BY <3>2 DEF TypeOK
    <3>6. breaches'[h] = 0
      BY <3>2 DEF TypeOK
    <3>7. StrikesAreOfThisConnection'
      BY <2>1, <3>3, <3>5, <3>6 DEF StrikesAreOfThisConnection
    <3>8. NoSlowSubscriberKept'
      BY <2>1, <3>5, <3>6, SlowAssumption DEF NoSlowSubscriberKept
    <3> QED
      BY <3>4, <3>7, <3>8
  <2> QED
    BY <2>2, <2>3
<1>8. ASSUME NEW h \in Handles, Deliver(h) PROVE SlowInv'
  <2>1. chan' \in [Handles -> Seq(Message)]
    BY <1>8 DEF Deliver, TypeOK
  <2> QED
    BY <1>8, <2>1
       DEF Deliver, TypeOK, StrikesAreOfThisConnection, NoSlowSubscriberKept, SubHandles
<1>9. ASSUME NEW h \in Handles, PortClosed(h), UNCHANGED now PROVE SlowInv'
  <2>1. SubHandles' = SubHandles \ {h}
    BY <1>9, UnsubscribedHandles DEF PortClosed
  <2>2. chan' \in [Handles -> Seq(Message)]
    BY <1>9, TruncatedType DEF PortClosed, TypeOK
  <2>3. subs' \in [Tables -> SUBSET Handles]
    BY <1>9 DEF PortClosed, Unsubscribed, TypeOK
  <2>4. strikes' = [strikes EXCEPT ![h] = 0] /\ breaches' = breaches
    BY <1>9 DEF PortClosed
  <2>5. TypeOK'
    <3>1. strikes' \in [Handles -> 0 .. SlowStrikes]
      BY <2>4, SlowAssumption DEF TypeOK
    <3> QED
      BY <1>9, <2>2, <2>3, <2>4, <3>1 DEF PortClosed, TypeOK
  <2>6. StrikesAreOfThisConnection'
    BY <2>1, <2>4 DEF TypeOK, StrikesAreOfThisConnection
  <2>7. NoSlowSubscriberKept'
    BY <2>1, <2>4 DEF NoSlowSubscriberKept
  <2> QED
    BY <2>5, <2>6, <2>7
<1>10. CASE UNCHANGED vars
  BY <1>10 DEF vars, TypeOK, StrikesAreOfThisConnection, NoSlowSubscriberKept, SubHandles
<1> QED
  BY <1>1, <1>2, <1>3, <1>4, <1>5, <1>6, <1>7, <1>8, <1>9, <1>10 DEF Next

\* Type correctness of the tickerplant.
THEOREM TypeCorrect == Spec => []TypeOK
<1>1. SlowInv => TypeOK
  BY DEF SlowInv
<1> QED
  BY <1>1, InitSlowInv, StepSlowInv, PTL DEF Spec

\* Strikes are never inherited from an earlier connection with the same handle
\* number (.z.pc and .u.dropSub clear .u.strikes).
THEOREM StrikesOfConnection == Spec => []StrikesAreOfThisConnection
<1>1. SlowInv => StrikesAreOfThisConnection
  BY DEF SlowInv
<1> QED
  BY <1>1, InitSlowInv, StepSlowInv, PTL DEF Spec

\* No subscriber outlives .u.slowStrikes consecutive checks over the limit.
THEOREM PlantIsProtected == Spec => []NoSlowSubscriberKept
<1>1. SlowInv => NoSlowSubscriberKept
  BY DEF SlowInv
<1> QED
  BY <1>1, InitSlowInv, StepSlowInv, PTL DEF Spec

\* The sweep disconnects only subscribers found over the limit at each of the last
\* .u.slowStrikes checks of their connection.
THEOREM OnlyTheSlowAreDropped == Spec => DropsOnlyTheSlow
<1>1. SlowInv /\ [Next]_vars
      => [TimerStep => \A h \in SubHandles \ SubHandles' : breaches'[h] = SlowStrikes]_vars
  <2> SUFFICES ASSUME SlowInv, TimerStep
               PROVE  \A h \in SubHandles \ SubHandles' : breaches'[h] = SlowStrikes
    OBVIOUS
  <2>1. AfterEod \in [Handles -> Seq(Message)]
    BY MessagesSent, BroadcastType DEF AfterEod, SlowInv, TypeOK
  <2> QED
    BY <2>1, SweepSlowInv DEF TimerStep, Timer
<1> QED
  BY <1>1, InitSlowInv, StepSlowInv, PTL DEF Spec, DropsOnlyTheSlow

-----------------------------------------------------------------------------
(* The stream and the log *)

\* What is queued in q for a subscriber mirrors the log l: its rows are in l, each
\* end of day stands where l changes files, and the days end in order.
Mirrors(q, l) ==
    \A i \in 1 .. Len(q) :
        /\ q[i].kind = "upd" => \E e \in l : e.row = q[i].row
        /\ \A j \in 1 .. Len(q) :
              /\ q[i].kind = "eod" /\ q[j].kind = "upd"
                 => \A e \in l : e.row = q[j].row => (j < i <=> e.date <= q[i].date)
              /\ q[i].kind = "eod" /\ q[j].kind = "eod" /\ i < j
                 => q[i].date < q[j].date

\* Nothing in q is about a day after d, and day d has not ended in it.
UpToDay(q, l, d) ==
    \A i \in 1 .. Len(q) :
        /\ q[i].kind = "eod" => q[i].date < d
        /\ q[i].kind = "upd" => \A e \in l : e.row = q[i].row => e.date <= d

\* The inductive invariant.  That a queue mirrors the log survives the next row or
\* end of day only because the day in progress has not ended in it; a restart may
\* take .u.today back, which is why the second part is about subscribers only.
MirrorInv ==
    /\ TypeOK
    /\ \A h \in Handles : Mirrors(chan[h], logged)
    /\ \A h \in SubHandles : UpToDay(chan[h], logged, today)

\* A queue with nothing in it says nothing that the log does not.
LEMMA EmptyMirrors == \A l, d : Mirrors(<<>>, l) /\ UpToDay(<<>>, l, d)
  BY DEF Mirrors, UpToDay

\* What a broken connection leaves of a queue still mirrors the log, and so does
\* what its subscriber has not processed yet.
LEMMA PrefixMirrors ==
  ASSUME NEW q \in Seq(Message), NEW n \in 0 .. Len(q), NEW l, Mirrors(q, l)
  PROVE  /\ Mirrors(SubSeq(q, 1, n), l)
         /\ \A d : UpToDay(q, l, d) => UpToDay(SubSeq(q, 1, n), l, d)
<1> DEFINE p == SubSeq(q, 1, n)
<1>1. Len(p) = n /\ \A i \in 1 .. n : i \in 1 .. Len(q) /\ p[i] = q[i]
  OBVIOUS
<1> HIDE DEF p
<1>2. Mirrors(p, l)
  BY <1>1 DEF Mirrors
<1>3. \A d : UpToDay(q, l, d) => UpToDay(p, l, d)
  BY <1>1 DEF UpToDay
<1> QED
  BY <1>2, <1>3 DEF p

\* Nor does what is left after a message is read,
LEMMA TailMirrors ==
  ASSUME NEW q \in Seq(Message), q # <<>>, NEW l, Mirrors(q, l)
  PROVE  /\ Mirrors(Tail(q), l)
         /\ \A d : UpToDay(q, l, d) => UpToDay(Tail(q), l, d)
<1> DEFINE p == Tail(q)
<1>1. /\ Len(q) \in Nat /\ Len(p) = Len(q) - 1
      /\ \A i \in 1 .. Len(p) : i + 1 \in 1 .. Len(q) /\ p[i] = q[i + 1]
  OBVIOUS
<1> HIDE DEF p
<1>2. Mirrors(p, l)
  <2> SUFFICES ASSUME NEW i \in 1 .. Len(p), NEW j \in 1 .. Len(p)
               PROVE  /\ p[i].kind = "upd" => \E e \in l : e.row = p[i].row
                      /\ p[i].kind = "eod" /\ p[j].kind = "upd"
                         => \A e \in l : e.row = p[j].row => (j < i <=> e.date <= p[i].date)
                      /\ p[i].kind = "eod" /\ p[j].kind = "eod" /\ i < j
                         => p[i].date < p[j].date
    BY DEF Mirrors
  <2>1. /\ i + 1 \in 1 .. Len(q) /\ j + 1 \in 1 .. Len(q)
        /\ p[i] = q[i + 1] /\ p[j] = q[j + 1]
        /\ (j < i <=> j + 1 < i + 1) /\ (i < j <=> i + 1 < j + 1)
    BY <1>1
  <2> QED
    BY <2>1 DEF Mirrors
<1>3. \A d : UpToDay(q, l, d) => UpToDay(p, l, d)
  BY <1>1 DEF UpToDay
<1> QED
  BY <1>2, <1>3 DEF p

\* nor what is left of it when the connection is lost,
LEMMA TruncatedMirrors ==
  ASSUME NEW q \in [Handles -> Seq(Message)], NEW H, NEW c \in Truncated(q, H),
         NEW h \in Handles, NEW l, Mirrors(q[h], l)
  PROVE  /\ Mirrors(c[h], l)
         /\ \A d : UpToDay(q[h], l, d) => UpToDay(c[h], l, d)
<1>1. CASE h \notin H
  BY <1>1 DEF Truncated
<1>2. CASE h \in H
  <2>1. PICK n \in 0 .. Len(q[h]) : c[h] = SubSeq(q[h], 1, n)
    BY <1>2 DEF Truncated
  <2> QED
    BY <2>1, PrefixMirrors
<1> QED
  BY <1>1, <1>2

\* A row logged under the day in progress, and not before, changes nothing for the
\* queues it is not sent on ...
LEMMA RowLoggedMirrors ==
  ASSUME NEW q, NEW l, NEW r, \A e \in l : e.row # r, NEW d, Mirrors(q, l)
  PROVE  /\ Mirrors(q, l \cup {[date |-> d, row |-> r]})
         /\ \A b : UpToDay(q, l, b) => UpToDay(q, l \cup {[date |-> d, row |-> r]}, b)
<1> DEFINE m == l \cup {[date |-> d, row |-> r]}
<1>1. \A i \in 1 .. Len(q) : q[i].kind = "upd" => q[i].row # r
  BY DEF Mirrors
<1>2. \A e \in m : e.row # r => e \in l
  OBVIOUS
<1>3. l \subseteq m
  OBVIOUS
<1> HIDE DEF m
<1>4. Mirrors(q, m)
  BY <1>1, <1>2, <1>3 DEF Mirrors
<1>5. \A b : UpToDay(q, l, b) => UpToDay(q, m, b)
  BY <1>1, <1>2 DEF UpToDay
<1> QED
  BY <1>4, <1>5 DEF m

\* ... and comes after every day that has ended in the queues it is sent on.
LEMMA RowSentMirrors ==
  ASSUME NEW q \in Seq(Message), NEW l, NEW r \in Row, \A e \in l : e.row # r,
         NEW d \in Int, Mirrors(q, l), UpToDay(q, l, d)
  PROVE  /\ Mirrors(Append(q, UpdMsg(r)), l \cup {[date |-> d, row |-> r]})
         /\ UpToDay(Append(q, UpdMsg(r)), l \cup {[date |-> d, row |-> r]}, d)
<1> DEFINE new == [date |-> d, row |-> r]
           m == l \cup {new}
           p == Append(q, UpdMsg(r))
<1>1. Mirrors(q, m) /\ UpToDay(q, m, d)
  BY RowLoggedMirrors
<1>2. /\ Len(q) \in Nat /\ Len(p) = Len(q) + 1
      /\ p[Len(q) + 1].kind = "upd" /\ p[Len(q) + 1].row = r
      /\ \A i \in 1 .. Len(q) : p[i] = q[i]
  BY MessagesSent DEF UpdMsg
<1>3. new \in m /\ \A e \in m : e.row = r => e.date = d
  OBVIOUS
<1>4. \A i \in 1 .. Len(q) : q[i].kind = "eod" => q[i].date \in Int /\ q[i].date < d
  BY DEF UpToDay, Message
<1>5. new.row = r
  OBVIOUS
<1> HIDE DEF m, p, new
<1>6. Mirrors(p, m)
  <2> SUFFICES ASSUME NEW i \in 1 .. Len(p), NEW j \in 1 .. Len(p)
               PROVE  /\ p[i].kind = "upd" => \E e \in m : e.row = p[i].row
                      /\ p[i].kind = "eod" /\ p[j].kind = "upd"
                         => \A e \in m : e.row = p[j].row => (j < i <=> e.date <= p[i].date)
                      /\ p[i].kind = "eod" /\ p[j].kind = "eod" /\ i < j
                         => p[i].date < p[j].date
    BY DEF Mirrors
  <2>1. CASE i \in 1 .. Len(q) /\ j \in 1 .. Len(q)
    BY <2>1, <1>1, <1>2 DEF Mirrors
  <2>2. CASE i = Len(q) + 1
    BY <2>2, <1>2, <1>3, <1>5
  <2>3. CASE i \in 1 .. Len(q) /\ j = Len(q) + 1
    <3>1. p[i].kind = "upd" => \E e \in m : e.row = p[i].row
      BY <2>3, <1>1, <1>2 DEF Mirrors
    <3> QED
      BY <3>1, <2>3, <1>2, <1>3, <1>4
  <2> QED
    BY <2>1, <2>2, <2>3, <1>2
<1>7. UpToDay(p, m, d)
  BY <1>1, <1>2, <1>3 DEF UpToDay
<1> QED
  BY <1>6, <1>7 DEF m, p, new

\* nor a queue that a watermark is added to.
LEMMA WatermarkMirrors ==
  ASSUME NEW q \in Seq(Message), NEW l, NEW wm \in Int, Mirrors(q, l)
  PROVE  /\ Mirrors(Append(q, ShedMsg(wm)), l)
         /\ \A d : UpToDay(q, l, d) => UpToDay(Append(q, ShedMsg(wm)), l, d)
<1> DEFINE p == Append(q, ShedMsg(wm))
<1>1. /\ Len(q) \in Nat /\ Len(p) = Len(q) + 1
      /\ p[Len(q) + 1].kind = "shed"
      /\ \A i \in 1 .. Len(q) : p[i] = q[i]
  BY MessagesSent DEF ShedMsg
<1> HIDE DEF p
<1>2. \A i \in 1 .. Len(p) : p[i].kind # "shed" => i \in 1 .. Len(q) /\ p[i] = q[i]
  BY <1>1
<1>3. Mirrors(p, l)
  BY <1>1, <1>2 DEF Mirrors
<1>4. \A d : UpToDay(q, l, d) => UpToDay(p, l, d)
  BY <1>1, <1>2 DEF UpToDay
<1> QED
  BY <1>3, <1>4 DEF p

\* The end of the day in progress comes after everything queued about it.
LEMMA DayEndMirrors ==
  ASSUME NEW q \in Seq(Message), NEW l, \A e \in l : e.date \in Int,
         NEW d \in Int, NEW b \in Int, d < b, Mirrors(q, l), UpToDay(q, l, d)
  PROVE  /\ Mirrors(Append(q, EodMsg(d)), l)
         /\ UpToDay(Append(q, EodMsg(d)), l, b)
<1> DEFINE p == Append(q, EodMsg(d))
<1>1. /\ Len(q) \in Nat /\ Len(p) = Len(q) + 1
      /\ p[Len(q) + 1].kind = "eod" /\ p[Len(q) + 1].date = d
      /\ \A i \in 1 .. Len(q) : p[i] = q[i]
  BY MessagesSent DEF EodMsg
<1>2. \A i \in 1 .. Len(q) : q[i].kind = "eod" => q[i].date \in Int /\ q[i].date < d
  BY DEF UpToDay, Message
<1> HIDE DEF p
<1>3. Mirrors(p, l)
  <2> SUFFICES ASSUME NEW i \in 1 .. Len(p), NEW j \in 1 .. Len(p)
               PROVE  /\ p[i].kind = "upd" => \E e \in l : e.row = p[i].row
                      /\ p[i].kind = "eod" /\ p[j].kind = "upd"
                         => \A e \in l : e.row = p[j].row => (j < i <=> e.date <= p[i].date)
                      /\ p[i].kind = "eod" /\ p[j].kind = "eod" /\ i < j
                         => p[i].date < p[j].date
    BY DEF Mirrors
  <2>1. CASE i \in 1 .. Len(q) /\ j \in 1 .. Len(q)
    BY <2>1, <1>1 DEF Mirrors
  <2>2. CASE i = Len(q) + 1 /\ j \in 1 .. Len(q)
    BY <2>2, <1>1 DEF UpToDay
  <2>3. CASE i \in 1 .. Len(q) /\ j = Len(q) + 1
    <3>1. p[i].kind = "upd" => \E e \in l : e.row = p[i].row
      BY <2>3, <1>1 DEF Mirrors
    <3> QED
      BY <3>1, <2>3, <1>1, <1>2
  <2>4. CASE i = Len(q) + 1 /\ j = Len(q) + 1
    BY <2>4, <1>1
  <2> QED
    BY <2>1, <2>2, <2>3, <2>4, <1>1
<1>4. UpToDay(p, l, b)
  <2> SUFFICES ASSUME NEW i \in 1 .. Len(p)
               PROVE  /\ p[i].kind = "eod" => p[i].date < b
                      /\ p[i].kind = "upd" => \A e \in l : e.row = p[i].row => e.date <= b
    BY DEF UpToDay
  <2>1. CASE i \in 1 .. Len(q)
    BY <2>1, <1>1, <1>2 DEF UpToDay
  <2>2. CASE i = Len(q) + 1
    BY <2>2, <1>1
  <2> QED
    BY <2>1, <2>2, <1>1
<1> QED
  BY <1>3, <1>4 DEF p

LEMMA InitMirrorInv == Init => MirrorInv
<1> SUFFICES ASSUME Init PROVE MirrorInv
  OBVIOUS
<1>1. TypeOK
  BY InitSlowInv DEF SlowInv
<1>2. SubHandles = {} /\ \A h \in Handles : chan[h] = <<>>
  BY DEF Init, TpInit, TpInitWith, SubHandles
<1> QED
  BY <1>1, <1>2, EmptyMirrors DEF MirrorInv

\* The queues once .u.checkEod has run, and once .u.end has.
LEMMA DayEndBroadcast ==
  ASSUME MirrorInv, NEW b \in Int, today < b
  PROVE  LET q == Broadcast(chan, EodMsg(today))
         IN  /\ q \in [Handles -> Seq(Message)]
             /\ \A h \in Handles : Mirrors(q[h], logged)
             /\ \A h \in SubHandles : UpToDay(q[h], logged, b)
<1> DEFINE q == Broadcast(chan, EodMsg(today))
<1>1. today \in Int /\ chan \in [Handles -> Seq(Message)] /\ SubHandles \subseteq Handles
  BY DEF MirrorInv, TypeOK, SubHandles
<1>2. \A e \in logged : e.date \in Int
  BY DEF MirrorInv, TypeOK
<1>3. q \in [Handles -> Seq(Message)]
  BY <1>1, BroadcastType, MessagesSent
<1>4. \A h \in SubHandles : Mirrors(q[h], logged) /\ UpToDay(q[h], logged, b)
  <2> TAKE h \in SubHandles
  <2>1. q[h] = Append(chan[h], EodMsg(today)) /\ chan[h] \in Seq(Message)
    BY <1>1 DEF Broadcast
  <2> QED
    BY <2>1, <1>1, <1>2, DayEndMirrors DEF MirrorInv
<1>5. \A h \in Handles \ SubHandles : q[h] = chan[h]
  BY <1>1 DEF Broadcast
<1> QED
  BY <1>3, <1>4, <1>5 DEF MirrorInv

LEMMA StepMirrorInv == MirrorInv /\ TypeOK' /\ [Next]_vars => MirrorInv'
<1> SUFFICES ASSUME MirrorInv, TypeOK', [Next]_vars
             PROVE  /\ \A h \in Handles : Mirrors(chan'[h], logged')
                    /\ \A h \in SubHandles' : UpToDay(chan'[h], logged', today')
  BY DEF MirrorInv
<1> today \in Int /\ chan \in [Handles -> Seq(Message)] /\ SubHandles \subseteq Handles
  BY DEF MirrorInv, TypeOK, SubHandles
<1>1. CASE UNCHANGED tpVars
  BY <1>1 DEF tpVars, MirrorInv, SubHandles
<1>2. ASSUME NEW r \in [tbl : Tables, time : {now}], Feed(r)
      PROVE  /\ \A h \in Handles : Mirrors(chan'[h], logged')
             /\ \A h \in SubHandles' : UpToDay(chan'[h], logged', today')
  <2>1. r \in Row /\ \A e \in logged : e.row # r
    BY <1>2 DEF Feed, LoggedRows, Row, MirrorInv, TypeOK
  <2>2. /\ logged' = logged \cup {[date |-> today, row |-> r]}
        /\ SubHandles' = SubHandles /\ today' = today
        /\ \A h \in Handles : chan'[h] = IF h \in subs[r.tbl] THEN Append(chan[h], UpdMsg(r))
                                                           ELSE chan[h]
    BY <1>2 DEF Feed, Upd, SubHandles, MirrorInv, TypeOK
  <2>3. subs[r.tbl] \subseteq SubHandles
    BY <2>1 DEF SubHandles, Row
  <2>4. ASSUME NEW h \in subs[r.tbl]
        PROVE  Mirrors(chan'[h], logged') /\ UpToDay(chan'[h], logged', today')
    <3>1. chan'[h] = Append(chan[h], UpdMsg(r)) /\ chan[h] \in Seq(Message)
      BY <2>2, <2>3, <2>4
    <3>2. Mirrors(chan[h], logged) /\ UpToDay(chan[h], logged, today)
      BY <2>3, <2>4 DEF MirrorInv
    <3>3. LET m == logged \cup {[date |-> today, row |-> r]}
          IN  Mirrors(Append(chan[h], UpdMsg(r)), m) /\ UpToDay(Append(chan[h], UpdMsg(r)), m, today)
      BY <3>1, <3>2, <2>1, RowSentMirrors
    <3> QED
      BY <3>1, <3>3, <2>2
  <2>5. ASSUME NEW h \in Handles \ subs[r.tbl]
        PROVE  /\ Mirrors(chan'[h], logged')
               /\ h \in SubHandles => UpToDay(chan'[h], logged', today')
    <3>1. chan'[h] = chan[h] /\ Mirrors(chan[h], logged)
      BY <2>2, <2>5 DEF MirrorInv
    <3>2. Mirrors(chan[h], logged') /\ (UpToDay(chan[h], logged, today) => UpToDay(chan[h], logged', today))
      BY <3>1, <2>1, <2>2, RowLoggedMirrors
    <3> QED
      BY <3>1, <3>2, <2>2 DEF MirrorInv
  <2> QED
    BY <2>2, <2>4, <2>5
<1>3. CASE Flushed(NoTime)
  <2>1. /\ SubHandles' = SubHandles /\ today' = today /\ logged' = logged
        /\ \A h \in Handles : chan'[h] = IF h \in SubHandles THEN Append(chan[h], ShedMsg(NoTime))
                                                           ELSE chan[h]
    BY <1>3 DEF Flushed, BroadcastWatermark, Broadcast, SubHandles
  <2>2. NoTime \in Int
    BY DEF NoTime
  <2>3. ASSUME NEW h \in Handles
        PROVE  /\ Mirrors(chan'[h], logged)
               /\ h \in SubHandles => UpToDay(chan'[h], logged, today)
    <3>1. chan[h] \in Seq(Message) /\ Mirrors(chan[h], logged)
      BY DEF MirrorInv
    <3> QED
      BY <3>1, <2>1, <2>2, WatermarkMirrors DEF MirrorInv
  <2> QED
    BY <2>1, <2>3
<1>4. CASE TimerStep
  <2>1. /\ chan' \in Truncated(AfterEod, TooSlow(AfterEod))
        /\ SubHandles' = SubHandles \ TooSlow(AfterEod)
        /\ logged' = logged
    BY <1>4, UnsubscribedHandles DEF TimerStep, Timer, CheckSlow
  <2>2. /\ AfterEod \in [Handles -> Seq(Message)]
        /\ \A h \in Handles : Mirrors(AfterEod[h], logged)
        /\ \A h \in SubHandles : UpToDay(AfterEod[h], logged, today')
    <3>1. CASE TradingDate(now) > today
      <4>1. today' = TradingDate(now) /\ today' \in Int /\ today < today'
        BY <1>4, <3>1 DEF TimerStep, Timer, CheckEod, TypeOK
      <4>2. AfterEod = Broadcast(chan, EodMsg(today))
        BY <3>1 DEF AfterEod
      <4> QED
        BY <4>1, <4>2, DayEndBroadcast
    <3>2. CASE ~(TradingDate(now) > today)
      BY <1>4, <3>2 DEF TimerStep, Timer, CheckEod, AfterEod, MirrorInv
    <3> QED
      BY <3>1, <3>2
  <2> HIDE DEF AfterEod
  <2>3. ASSUME NEW h \in Handles
        PROVE  /\ Mirrors(chan'[h], logged)
               /\ h \in SubHandles => UpToDay(chan'[h], logged, today')
    BY <2>1, <2>2, TruncatedMirrors
  <2> QED
    BY <2>1, <2>3
<1>5. CASE ForceEnd
  <2>1. /\ chan' = Broadcast(chan, EodMsg(today)) /\ today' = today + 1
        /\ SubHandles' = SubHandles /\ logged' = logged
    BY <1>5 DEF ForceEnd, End, SubHandles
  <2>2. today < today + 1 /\ today + 1 \in Int
    OBVIOUS
  <2>3. /\ \A h \in Handles : Mirrors(Broadcast(chan, EodMsg(today))[h], logged)
        /\ \A h \in SubHandles : UpToDay(Broadcast(chan, EodMsg(today))[h], logged, today + 1)
    BY <2>2, DayEndBroadcast
  <2> QED
    BY <2>1, <2>3
<1>6. CASE Restart
  <2>1. chan' \in Truncated(chan, Handles) /\ SubHandles' = {} /\ logged' = logged
    BY <1>6 DEF Restart, TpRestart, SubHandles
  <2> QED
    BY <2>1, TruncatedMirrors DEF MirrorInv
<1>7. ASSUME NEW h \in Handles, NEW t \in Tables, Sub(h, t)
      PROVE  /\ \A g \in Handles : Mirrors(chan'[g], logged')
             /\ \A g \in SubHandles' : UpToDay(chan'[g], logged', today')
  <2>1. SubHandles' = SubHandles \cup {h} /\ logged' = logged /\ today' = today
    BY <1>7 DEF Sub, SubHandles, MirrorInv, TypeOK
  <2>2. CASE h \in SubHandles
    BY <1>7, <2>1, <2>2 DEF Sub, MirrorInv
  <2>3. CASE h \notin SubHandles
    <3>1. chan'[h] = <<>> /\ \A g \in Handles \ {h} : chan'[g] = chan[g]
      BY <1>7, <2>3 DEF Sub
    <3> QED
      BY <3>1, <2>1, EmptyMirrors DEF MirrorInv
  <2> QED
    BY <2>2, <2>3
<1>8. ASSUME NEW h \in Handles, Deliver(h)
      PROVE  /\ \A g \in Handles : Mirrors(chan'[g], logged')
             /\ \A g \in SubHandles' : UpToDay(chan'[g], logged', today')
  <2>1. /\ SubHandles' = SubHandles /\ logged' = logged /\ today' = today
        /\ chan[h] # <<>> /\ chan'[h] = Tail(chan[h])
        /\ \A g \in Handles \ {h} : chan'[g] = chan[g]
    BY <1>8 DEF Deliver, SubHandles
  <2>2. /\ Mirrors(chan'[h], logged)
        /\ h \in SubHandles => UpToDay(chan'[h], logged, today)
    BY <2>1, TailMirrors DEF MirrorInv
  <2> QED
    BY <2>1, <2>2 DEF MirrorInv
<1>9. ASSUME NEW h \in Handles, PortClosed(h)
      PROVE  /\ \A g \in Handles : Mirrors(chan'[g], logged')
             /\ \A g \in SubHandles' : UpToDay(chan'[g], logged', today')
  <2>1. /\ chan' \in Truncated(chan, {h}) /\ SubHandles' = SubHandles \ {h}
        /\ logged' = logged /\ today' = today
    BY <1>9, UnsubscribedHandles DEF PortClosed
  <2>2. ASSUME NEW g \in Handles
        PROVE  /\ Mirrors(chan'[g], logged)
               /\ g \in SubHandles => UpToDay(chan'[g], logged, today)
    <3>1. Mirrors(chan[g], logged)
      BY DEF MirrorInv
    <3> QED
      BY <3>1, <2>1, TruncatedMirrors DEF MirrorInv
  <2> QED
    BY <2>1, <2>2
<1> QED
  BY <1>1, <1>2, <1>3, <1>4, <1>5, <1>6, <1>7, <1>8, <1>9 DEF Next, Tick, vars, tpVars

\* The three parts of the mirror, handle by handle.
LEMMA MirrorsTells == MirrorInv => StreamMirrorsLog
<1> SUFFICES ASSUME MirrorInv PROVE StreamMirrorsLog
  OBVIOUS
<1>1. LoggedBeforePublished
  BY DEF MirrorInv, Mirrors, LoggedBeforePublished, RowsIn, LoggedRows
<1>2. EodSplitsAsTheLogDoes
  BY DEF MirrorInv, Mirrors, EodSplitsAsTheLogDoes
<1>3. DaysCloseInOrder
  BY DEF MirrorInv, Mirrors, DaysCloseInOrder
<1> QED
  BY <1>1, <1>2, <1>3 DEF StreamMirrorsLog

\* What subscribers are sent is the disaster-recovery log, in its order and cut into
\* its days, across forced ends of day, slow subscribers, broken connections and
\* restarts: .u.doUpd logs before it publishes, and .u.checkEod and .u.end announce
\* a day once, before anything of the next one.
THEOREM LogIsWhatWasSent == Spec => []StreamMirrorsLog
<1>1. SlowInv => TypeOK
  BY DEF SlowInv
<1> QED
  BY <1>1, InitSlowInv, StepSlowInv, InitMirrorInv, StepMirrorInv, MirrorsTells, PTL DEF Spec

-----------------------------------------------------------------------------
(* The feed handler: a packet's messages and a message's events are folds.  *)

\* A nonempty set of indices has a greatest one.
LEMMA MaxOfIndices ==
    ASSUME NEW k \in Nat, NEW S \in SUBSET (1 .. k), S # {}
    PROVE  /\ Max(S) \in S
           /\ \A x \in S : x <= Max(S)
    <1> DEFINE T == {k - x : x \in S}
    <1>1. T \in SUBSET Nat /\ T # {}
        <2>1. ASSUME NEW x \in S PROVE k - x \in Nat
            <3>1. x \in 1 .. k
                OBVIOUS
            <3> QED
                BY <3>1
        <2> QED
            BY <2>1
    <1>2. PICK t \in T : \A y \in T : t <= y
        <2> HIDE DEF T
        <2> QED
            BY <1>1, LeastNat
    <1>3. PICK m \in S : t = k - m
        OBVIOUS
    <1>4. ASSUME NEW x \in S PROVE m >= x
        <2>1. t <= k - x
            BY <1>2
        <2> QED
            BY <1>3, <2>1
    <1>5. \E x \in S : \A y \in S : x >= y
        BY <1>4
    <1>6. Max(S) \in S /\ \A y \in S : Max(S) >= y
        BY <1>5 DEF Max
    <1>7. \A y \in S : y \in Int
        OBVIOUS
    <1>8. ASSUME NEW y \in S PROVE y <= Max(S)
        <2>1. y \in Int /\ Max(S) \in Int /\ Max(S) >= y
            BY <1>6, <1>7
        <2> QED
            BY <2>1
    <1> QED
        BY <1>6, <1>8

\* The engine and the publisher, as a packet finds them.
Now == [e |-> eng, b |-> pub]

\* The messages of a packet one after another.
MessagesStep(f, ms, n) ==
    /\ f[0] = Now
    /\ \A i \in 1 .. n : f[i] = OnMessage(f[i - 1], ms[i])
    /\ OnMessages(ms) = f[n]
\* There is such a sequence of states for every packet (the fold of OnMessages).
LEMMA OnMessageFolds ==
    ASSUME NEW ms, NEW n \in Nat, DOMAIN ms = 1 .. n
    PROVE  \E f : MessagesStep(f, ms, n)
    <1> DEFINE Rec(g, k) == [s \in SUBSET (1 .. k) |->
                   IF s = {} THEN Now ELSE OnMessage(g[s \ {Max(s)}], ms[Max(s)])]
               iter == CHOOSE g : g = Rec(g, n)
               S == {k \in 0 .. n : ~\E g : g = Rec(g, k)}
    <1>1. OnMessages(ms) = iter[1 .. n]
        BY DEF OnMessages, Now, FoldLeft, MapThenFoldSet
    <1>2. \E g : g = Rec(g, n)
        <2>1. SUFFICES ASSUME S # {} PROVE \E g : g = Rec(g, n)
            <3>1. n \in 0 .. n
                OBVIOUS
            <3>2. S = {} => n \notin S
                OBVIOUS
            <3>3. n \notin S => \E g : g = Rec(g, n)
                BY <3>1
            <3> HIDE DEF S
            <3> QED
                BY <2>1, <3>2, <3>3
        <2>2. PICK k \in S : \A y \in S : k <= y
            <3>1. S \in SUBSET Nat
                OBVIOUS
            <3> HIDE DEF S
            <3> QED
                BY <2>1, <3>1, LeastNat
        <2>3. k \in 0 .. n /\ ~\E g : g = Rec(g, k)
            OBVIOUS
        <2>4. CASE k = 0
            <3>1. SUBSET (1 .. 0) = {{}}
                OBVIOUS
            <3>2. [s \in {{}} |-> Now] = Rec([s \in {{}} |-> Now], 0)
                BY <3>1
            <3> QED
                BY <2>3, <2>4, <3>2
        <2>5. CASE k # 0
            <3>1. k - 1 \in 0 .. n /\ k \in Nat /\ k - 1 \in Nat
                BY <2>3, <2>5
            <3>2. k - 1 \notin S
                <4>1. ~(k <= k - 1)
                    BY <3>1
                <4> HIDE DEF S
                <4> QED
                    BY <2>2, <4>1
            <3>3. PICK g : g = Rec(g, k - 1)
                BY <3>1, <3>2
            <3> DEFINE h == [s \in SUBSET (1 .. k) |->
                               IF k \in s THEN OnMessage(g[s \ {k}], ms[k]) ELSE g[s]]
            <3>4. ASSUME NEW s \in SUBSET (1 .. k)
                  PROVE  h[s] = IF s = {} THEN Now ELSE OnMessage(h[s \ {Max(s)}], ms[Max(s)])
                <4>1. CASE k \in s
                    <5>1. Max(s) \in s /\ \A x \in s : x <= Max(s)
                        BY <3>1, <4>1, MaxOfIndices
                    <5>2. Max(s) = k
                        <6>1. Max(s) \in 1 .. k /\ k <= Max(s)
                            BY <4>1, <5>1
                        <6> QED
                            BY <3>1, <6>1
                    <5>3. h[s \ {k}] = g[s \ {k}]
                        OBVIOUS
                    <5>4. h[s] = OnMessage(g[s \ {k}], ms[k])
                        BY <4>1
                    <5> HIDE DEF h
                    <5> QED
                        BY <4>1, <5>2, <5>3, <5>4
                <4>2. CASE k \notin s
                    <5>1. s \in SUBSET (1 .. k - 1)
                        BY <3>1, <4>2
                    <5>2. h[s] = g[s]
                        BY <4>2
                    <5>3. h[s \ {Max(s)}] = g[s \ {Max(s)}]
                        BY <4>2
                    <5>4. g[s] = IF s = {} THEN Now ELSE OnMessage(g[s \ {Max(s)}], ms[Max(s)])
                        BY <3>3, <5>1
                    <5> HIDE DEF h
                    <5> QED
                        BY <5>2, <5>3, <5>4
                <4> QED
                    BY <4>1, <4>2
            <3>5. h = Rec(h, k)
                <4> HIDE DEF h
                <4>1. h = [s \in SUBSET (1 .. k) |-> h[s]]
                    BY DEF h
                <4> QED
                    BY <3>4, <4>1
            <3> QED
                BY <2>3, <3>5
        <2> QED
            BY <2>4, <2>5
    <1>3. iter = Rec(iter, n)
        <2> HIDE DEF Rec
        <2> QED
            BY <1>2
    <1> HIDE DEF iter
    <1>4. \A s \in SUBSET (1 .. n) :
            iter[s] = IF s = {} THEN Now ELSE OnMessage(iter[s \ {Max(s)}], ms[Max(s)])
        BY <1>3
    <1> HIDE DEF Rec
    <1> DEFINE f == [i \in 0 .. n |-> iter[1 .. i]]
    <1>5. f[0] = Now
        <2>1. 1 .. 0 = {} /\ 0 \in 0 .. n
            OBVIOUS
        <2> QED
            BY <1>4, <2>1
    <1>6. ASSUME NEW i \in 1 .. n PROVE f[i] = OnMessage(f[i - 1], ms[i])
        <2>1. i \in 0 .. n /\ i - 1 \in 0 .. n /\ i \in Nat
            OBVIOUS
        <2>2. 1 .. i \in SUBSET (1 .. n) /\ i \in 1 .. i /\ (1 .. i) \ {i} = 1 .. i - 1
            OBVIOUS
        <2>3. Max(1 .. i) = i
            <3>1. Max(1 .. i) \in 1 .. i /\ \A x \in 1 .. i : x <= Max(1 .. i)
                BY <2>1, <2>2, MaxOfIndices
            <3> QED
                BY <2>1, <2>2, <3>1
        <2>4. iter[1 .. i] = OnMessage(iter[(1 .. i) \ {i}], ms[i])
            BY <1>4, <2>2, <2>3
        <2> QED
            BY <2>1, <2>2, <2>4
    <1>7. f[n] = iter[1 .. n]
        OBVIOUS
    <1> HIDE DEF f
    <1> QED
        BY <1>1, <1>5, <1>6, <1>7 DEF MessagesStep

\* The events of a message one after another.
EventsStep(f, b, events, n) ==
    /\ f[0] = b
    /\ \A i \in 1 .. n : f[i] = OnEvent(f[i - 1], events[i])
    /\ OnEvents(b, events) = f[n]
\* There is such a sequence of publishers for every message (the fold of OnEvents).
LEMMA OnEventFolds ==
    ASSUME NEW s0, NEW ms, NEW n \in Nat, DOMAIN ms = 1 .. n
    PROVE  \E f : EventsStep(f, s0, ms, n)
    <1> DEFINE Rec(g, k) == [s \in SUBSET (1 .. k) |->
                   IF s = {} THEN s0 ELSE OnEvent(g[s \ {Max(s)}], ms[Max(s)])]
               iter == CHOOSE g : g = Rec(g, n)
               S == {k \in 0 .. n : ~\E g : g = Rec(g, k)}
    <1>1. OnEvents(s0, ms) = iter[1 .. n]
        BY DEF OnEvents, FoldLeft, MapThenFoldSet
    <1>2. \E g : g = Rec(g, n)
        <2>1. SUFFICES ASSUME S # {} PROVE \E g : g = Rec(g, n)
            <3>1. n \in 0 .. n
                OBVIOUS
            <3>2. S = {} => n \notin S
                OBVIOUS
            <3>3. n \notin S => \E g : g = Rec(g, n)
                BY <3>1
            <3> HIDE DEF S
            <3> QED
                BY <2>1, <3>2, <3>3
        <2>2. PICK k \in S : \A y \in S : k <= y
            <3>1. S \in SUBSET Nat
                OBVIOUS
            <3> HIDE DEF S
            <3> QED
                BY <2>1, <3>1, LeastNat
        <2>3. k \in 0 .. n /\ ~\E g : g = Rec(g, k)
            OBVIOUS
        <2>4. CASE k = 0
            <3>1. SUBSET (1 .. 0) = {{}}
                OBVIOUS
            <3>2. [s \in {{}} |-> s0] = Rec([s \in {{}} |-> s0], 0)
                BY <3>1
            <3> QED
                BY <2>3, <2>4, <3>2
        <2>5. CASE k # 0
            <3>1. k - 1 \in 0 .. n /\ k \in Nat /\ k - 1 \in Nat
                BY <2>3, <2>5
            <3>2. k - 1 \notin S
                <4>1. ~(k <= k - 1)
                    BY <3>1
                <4> HIDE DEF S
                <4> QED
                    BY <2>2, <4>1
            <3>3. PICK g : g = Rec(g, k - 1)
                BY <3>1, <3>2
            <3> DEFINE h == [s \in SUBSET (1 .. k) |->
                               IF k \in s THEN OnEvent(g[s \ {k}], ms[k]) ELSE g[s]]
            <3>4. ASSUME NEW s \in SUBSET (1 .. k)
                  PROVE  h[s] = IF s = {} THEN s0 ELSE OnEvent(h[s \ {Max(s)}], ms[Max(s)])
                <4>1. CASE k \in s
                    <5>1. Max(s) \in s /\ \A x \in s : x <= Max(s)
                        BY <3>1, <4>1, MaxOfIndices
                    <5>2. Max(s) = k
                        <6>1. Max(s) \in 1 .. k /\ k <= Max(s)
                            BY <4>1, <5>1
                        <6> QED
                            BY <3>1, <6>1
                    <5>3. h[s \ {k}] = g[s \ {k}]
                        OBVIOUS
                    <5>4. h[s] = OnEvent(g[s \ {k}], ms[k])
                        BY <4>1
                    <5> HIDE DEF h
                    <5> QED
                        BY <4>1, <5>2, <5>3, <5>4
                <4>2. CASE k \notin s
                    <5>1. s \in SUBSET (1 .. k - 1)
                        BY <3>1, <4>2
                    <5>2. h[s] = g[s]
                        BY <4>2
                    <5>3. h[s \ {Max(s)}] = g[s \ {Max(s)}]
                        BY <4>2
                    <5>4. g[s] = IF s = {} THEN s0 ELSE OnEvent(g[s \ {Max(s)}], ms[Max(s)])
                        BY <3>3, <5>1
                    <5> HIDE DEF h
                    <5> QED
                        BY <5>2, <5>3, <5>4
                <4> QED
                    BY <4>1, <4>2
            <3>5. h = Rec(h, k)
                <4> HIDE DEF h
                <4>1. h = [s \in SUBSET (1 .. k) |-> h[s]]
                    BY DEF h
                <4> QED
                    BY <3>4, <4>1
            <3> QED
                BY <2>3, <3>5
        <2> QED
            BY <2>4, <2>5
    <1>3. iter = Rec(iter, n)
        <2> HIDE DEF Rec
        <2> QED
            BY <1>2
    <1> HIDE DEF iter
    <1>4. \A s \in SUBSET (1 .. n) :
            iter[s] = IF s = {} THEN s0 ELSE OnEvent(iter[s \ {Max(s)}], ms[Max(s)])
        BY <1>3
    <1> HIDE DEF Rec
    <1> DEFINE f == [i \in 0 .. n |-> iter[1 .. i]]
    <1>5. f[0] = s0
        <2>1. 1 .. 0 = {} /\ 0 \in 0 .. n
            OBVIOUS
        <2> QED
            BY <1>4, <2>1
    <1>6. ASSUME NEW i \in 1 .. n PROVE f[i] = OnEvent(f[i - 1], ms[i])
        <2>1. i \in 0 .. n /\ i - 1 \in 0 .. n /\ i \in Nat
            OBVIOUS
        <2>2. 1 .. i \in SUBSET (1 .. n) /\ i \in 1 .. i /\ (1 .. i) \ {i} = 1 .. i - 1
            OBVIOUS
        <2>3. Max(1 .. i) = i
            <3>1. Max(1 .. i) \in 1 .. i /\ \A x \in 1 .. i : x <= Max(1 .. i)
                BY <2>1, <2>2, MaxOfIndices
            <3> QED
                BY <2>1, <2>2, <3>1
        <2>4. iter[1 .. i] = OnEvent(iter[(1 .. i) \ {i}], ms[i])
            BY <1>4, <2>2, <2>3
        <2> QED
            BY <2>1, <2>2, <2>4
    <1>7. f[n] = iter[1 .. n]
        OBVIOUS
    <1> HIDE DEF f
    <1> QED
        BY <1>1, <1>5, <1>6, <1>7 DEF EventsStep

-----------------------------------------------------------------------------
(* The feed handler's publisher *)

Items == UNION {Range(Tapes[f]) : f \in {"mold", "soup", "sbe", "fix", "wsjson"}}
Symbols == {""} \cup {x.stock : x \in Items}
EventTypes == {"TradingStatus", "Instrument", "AddOrder", "Execute", "ModifyOrder", "DeleteOrder",
               "Trade", "Quote", "none"}
Events == [type : EventTypes, sym : Symbols, item : Items]
Publisher == [batch : Seq(Events), failures : Nat, published : Nat, tp : Seq(Events),
              gone : Seq(Events), taken : Seq(Events), raced : BOOLEAN]

\* What was decoded is with the tickerplant, gone or in the batch; the counters.
Held(b) ==
    /\ \A x : Count(b.taken, x) = Count(b.tp, x) + Count(b.gone, x) + Count(b.batch, x)
    /\ Len(b.tp) <= b.published /\ b.published <= Len(b.tp) + Len(b.gone)
    /\ b.published < Len(b.tp) + Len(b.gone) => b.failures > 0

\* The indices at which a sequence holds something are finitely many.
LEMMA CountIsNat ==
    ASSUME NEW E, NEW q \in Seq(E), NEW x
    PROVE  /\ IsFiniteSet({i \in DOMAIN q : q[i] = x})
           /\ Count(q, x) \in Nat
    <1>1. IsFiniteSet(1 .. Len(q))
        BY FS_Interval, LenProperties
    <1>2. {i \in DOMAIN q : q[i] = x} \in SUBSET (1 .. Len(q))
        BY LenProperties
    <1>3. IsFiniteSet({i \in DOMAIN q : q[i] = x})
        BY <1>1, <1>2, FS_Subset
    <1> QED
        BY <1>3, FS_CardinalityType DEF Count

\* One more element counts for itself alone.
LEMMA CountAppend ==
    ASSUME NEW E, NEW q \in Seq(E), NEW a \in E, NEW x
    PROVE  Count(Append(q, a), x) = Count(q, x) + (IF a = x THEN 1 ELSE 0)
    <1> DEFINE S == {i \in DOMAIN q : q[i] = x}
               T == {i \in DOMAIN Append(q, a) : Append(q, a)[i] = x}
               n == Len(q) + 1
    <1>1. Append(q, a) \in Seq(E) /\ DOMAIN Append(q, a) = 1 .. n /\ DOMAIN q = 1 .. Len(q)
          /\ Len(q) \in Nat /\ Append(q, a)[n] = a
          /\ \A i \in 1 .. Len(q) : Append(q, a)[i] = q[i]
        BY AppendProperties, LenProperties
    <1>2. IsFiniteSet(S) /\ Cardinality(S) \in Nat
        BY CountIsNat DEF Count
    <1>3. n \notin S
        BY <1>1
    <1>4. CASE a = x
        <2>1. T = S \cup {n}
            BY <1>1, <1>4
        <2>2. Cardinality(S \cup {n}) = Cardinality(S) + 1
            BY <1>2, <1>3, FS_AddElement
        <2> QED
            BY <1>4, <2>1, <2>2 DEF Count
    <1>5. CASE a # x
        <2>1. T = S
            BY <1>1, <1>5
        <2>2. Count(Append(q, a), x) = Cardinality(T) /\ Count(q, x) = Cardinality(S)
            BY DEF Count
        <2> HIDE DEF S, T
        <2> QED
            BY <1>2, <1>5, <2>1, <2>2
    <1> QED
        BY <1>4, <1>5

\* A concatenation counts for both parts.
LEMMA CountConcat ==
    ASSUME NEW E, NEW q \in Seq(E), NEW r \in Seq(E), NEW x
    PROVE  Count(q \o r, x) = Count(q, x) + Count(r, x)
    <1> DEFINE S == {i \in DOMAIN q : q[i] = x}
               R == {i \in DOMAIN r : r[i] = x}
               M == {i \in 1 .. Len(q) + Len(r) : (q \o r)[i] = x /\ i > Len(q)}
               T == {i \in DOMAIN (q \o r) : (q \o r)[i] = x}
    <1>1. DOMAIN q = 1 .. Len(q) /\ DOMAIN r = 1 .. Len(r) /\ Len(q) \in Nat /\ Len(r) \in Nat
        BY LenProperties
    <1>2. /\ DOMAIN (q \o r) = 1 .. Len(q) + Len(r)
          /\ \A i \in 1 .. Len(q) : (q \o r)[i] = q[i]
          /\ \A i \in 1 .. Len(r) : (q \o r)[Len(q) + i] = r[i]
        <2>1. Len(q \o r) = Len(q) + Len(r) /\ q \o r \in Seq(E)
              /\ \A i \in 1 .. Len(q) + Len(r) :
                    (q \o r)[i] = IF i <= Len(q) THEN q[i] ELSE r[i - Len(q)]
            BY ConcatProperties
        <2>2. DOMAIN (q \o r) = 1 .. Len(q \o r)
            BY <2>1, LenProperties
        <2> QED
            BY <1>1, <2>1, <2>2
    <1>3. IsFiniteSet(S) /\ Cardinality(S) \in Nat /\ IsFiniteSet(R) /\ Cardinality(R) \in Nat
        BY CountIsNat DEF Count
    <1>4. Cardinality(M) = Cardinality(R) /\ IsFiniteSet(M)
        <2> DEFINE g == [i \in R |-> Len(q) + i]
        <2>1. ASSUME NEW i \in R PROVE g[i] \in M
            <3>1. i \in 1 .. Len(r) /\ r[i] = x
                BY <1>1
            <3> QED
                BY <1>1, <1>2, <3>1
        <2>2. ASSUME NEW i \in R, NEW j \in R, g[i] = g[j] PROVE i = j
            BY <1>1, <2>2
        <2>3. ASSUME NEW m \in M PROVE \E i \in R : g[i] = m
            <3>1. m - Len(q) \in 1 .. Len(r) /\ m = Len(q) + (m - Len(q)) /\ (q \o r)[m] = x
                BY <1>1
            <3>2. r[m - Len(q)] = x
                BY <1>2, <3>1
            <3>3. m - Len(q) \in R
                BY <1>1, <3>1, <3>2
            <3>4. g[m - Len(q)] = m
                BY <1>1, <3>1, <3>3
            <3> QED
                BY <3>3, <3>4
        <2>4. g \in Bijection(R, M)
            <3>1. g \in [R -> M]
                BY <2>1
            <3> HIDE DEF g, R, M
            <3> QED
                BY <2>2, <2>3, <3>1 DEF Bijection, Injection, Surjection, IsInjective
        <2> HIDE DEF g, R, M
        <2>5. ExistsBijection(R, M)
            BY <2>4 DEF ExistsBijection
        <2> QED
            BY <1>3, <2>5, FS_Bijection
    <1>5. S \cap M = {} /\ T = S \cup M
        <2>1. T = {i \in 1 .. Len(q) + Len(r) : (q \o r)[i] = x}
            BY <1>2
        <2>2. S = {i \in 1 .. Len(q) + Len(r) : (q \o r)[i] = x /\ ~(i > Len(q))}
            BY <1>1, <1>2
        <2> QED
            BY <2>1, <2>2
    <1>6. Cardinality(S \cup M) = Cardinality(S) + Cardinality(M)
        <2> HIDE DEF S, M
        <2>1. Cardinality(S \cup M) = Cardinality(S) + Cardinality(M) - Cardinality(S \cap M)
            BY <1>3, <1>4, FS_Union
        <2>2. Cardinality(S \cap M) = 0
            BY <1>5, FS_EmptySet
        <2> QED
            BY <1>3, <1>4, <2>1, <2>2
    <1> QED
        BY <1>3, <1>4, <1>5, <1>6 DEF Count

\* A message of the tape is of its items.
LEMMA TapeItems ==
    ASSUME NEW f \in {"mold", "soup", "sbe", "fix", "wsjson"}
    PROVE  /\ Tapes[f] \in Seq(Items)
           /\ DOMAIN Tapes[f] = 1 .. Len(Tapes[f]) /\ Len(Tapes[f]) \in Nat
    <1>1. \E E : Tapes[f] \in Seq(E)
        BY TapesAssumption
    <1>2. DOMAIN Tapes[f] = 1 .. Len(Tapes[f]) /\ Len(Tapes[f]) \in Nat
        BY <1>1, LenProperties
    <1>3. \A i \in 1 .. Len(Tapes[f]) : Tapes[f][i] \in Items
        BY <1>2 DEF Items, Range
    <1>4. Tapes[f] \in Seq(Items)
        BY <1>1, <1>2, <1>3, SeqDef
    <1> QED
        BY <1>2, <1>4

\* What the publisher is after an update of its fields.
LEMMA BatchUpdate ==
    ASSUME NEW b \in Publisher, NEW s \in Seq(Events), NEW t \in Seq(Events), NEW c,
           c = [b EXCEPT !.batch = s, !.taken = t]
    PROVE  c \in Publisher
    BY DEF Publisher
\* The same of the count of failures.
LEMMA FailureUpdate ==
    ASSUME NEW b \in Publisher, NEW f \in Nat, NEW c, c = [b EXCEPT !.failures = f]
    PROVE  c \in Publisher
    BY DEF Publisher

\* A flush that sends something.
LEMMA SentIsTyped ==
    ASSUME NEW b \in Publisher, NEW encoded \in Seq(Events)
    PROVE  /\ Sent(b, encoded) \in Publisher
           /\ Sent(b, encoded).taken = b.taken /\ Sent(b, encoded).raced = b.raced
    <1> DEFINE c == Sent(b, encoded)
    <1>1. /\ b.batch \in Seq(Events) /\ b.tp \in Seq(Events) /\ b.gone \in Seq(Events)
          /\ b.failures \in Nat /\ b.published \in Nat
        BY DEF Publisher
    <1>2. /\ Len(b.batch) \in Nat
          /\ b.tp \o encoded \in Seq(Events) /\ b.gone \o encoded \in Seq(Events)
          /\ <<>> \in Seq(Events)
        BY <1>1, LenProperties, ConcatProperties, EmptySeq
    <1>3. /\ c.batch = <<>> /\ c.taken = b.taken /\ c.raced = b.raced
          /\ c.failures = IF link \in {"up", "silent"} THEN b.failures ELSE b.failures + 1
          /\ c.published = IF link \in {"up", "silent"} THEN b.published + Len(b.batch) ELSE b.published
          /\ c.tp = IF link = "up" THEN b.tp \o encoded ELSE b.tp
          /\ c.gone = IF link = "up" THEN b.gone ELSE b.gone \o encoded
        BY DEF Publisher, Sent
    <1>4. c.failures \in Nat /\ c.published \in Nat /\ c.tp \in Seq(Events) /\ c.gone \in Seq(Events)
        BY <1>1, <1>2, <1>3
    <1>5. c = [b EXCEPT !.batch = <<>>, !.failures = c.failures, !.published = c.published,
                        !.tp = c.tp, !.gone = c.gone]
        BY <1>3 DEF Sent
    <1> HIDE DEF c
    <1>6. PICK f \in Nat : f = c.failures
        BY <1>4
    <1>7. PICK p \in Nat : p = c.published
        BY <1>4
    <1>8. PICK t \in Seq(Events) : t = c.tp
        BY <1>4
    <1>9. PICK g \in Seq(Events) : g = c.gone
        BY <1>4
    <1>10. c = [b EXCEPT !.batch = <<>>, !.failures = f, !.published = p, !.tp = t, !.gone = g]
        BY <1>5, <1>6, <1>7, <1>8, <1>9
    <1>11. c \in Publisher
        BY <1>2, <1>10 DEF Publisher
    <1> QED
        BY <1>3, <1>11 DEF c

\* A flush, of the batch, moves it to the tickerplant or into a broken connection.
LEMMA SentHolds ==
    ASSUME NEW b \in Publisher
    PROVE  /\ Sent(b, b.batch) \in Publisher /\ (Held(b) => Held(Sent(b, b.batch)))
           /\ Sent(b, b.batch).taken = b.taken /\ Sent(b, b.batch).raced = b.raced
    <1> DEFINE c == Sent(b, b.batch)
    <1>1. /\ b.batch \in Seq(Events) /\ b.tp \in Seq(Events) /\ b.gone \in Seq(Events)
          /\ b.taken \in Seq(Events) /\ b.failures \in Nat /\ b.published \in Nat
          /\ b.raced \in BOOLEAN
        BY DEF Publisher
    <1>2. /\ Len(b.batch) \in Nat /\ Len(b.tp) \in Nat /\ Len(b.gone) \in Nat
          /\ b.tp \o b.batch \in Seq(Events) /\ b.gone \o b.batch \in Seq(Events)
          /\ Len(b.tp \o b.batch) = Len(b.tp) + Len(b.batch)
          /\ Len(b.gone \o b.batch) = Len(b.gone) + Len(b.batch)
          /\ <<>> \in Seq(Events)
        BY <1>1, LenProperties, ConcatProperties, EmptySeq
    <1>3. ASSUME NEW x
          PROVE  /\ Count(b.tp \o b.batch, x) = Count(b.tp, x) + Count(b.batch, x)
                 /\ Count(b.gone \o b.batch, x) = Count(b.gone, x) + Count(b.batch, x)
                 /\ Count(b.tp, x) \in Nat /\ Count(b.gone, x) \in Nat /\ Count(b.batch, x) \in Nat
        <2>1. Count(b.tp \o b.batch, x) = Count(b.tp, x) + Count(b.batch, x)
            BY <1>1, CountConcat
        <2>2. Count(b.gone \o b.batch, x) = Count(b.gone, x) + Count(b.batch, x)
            BY <1>1, CountConcat
        <2>3. Count(b.tp, x) \in Nat /\ Count(b.gone, x) \in Nat /\ Count(b.batch, x) \in Nat
            BY <1>1, CountIsNat
        <2> QED
            BY <2>1, <2>2, <2>3
    <1>4. \A x : Count(<<>>, x) = 0
        <2>1. ASSUME NEW x PROVE {i \in DOMAIN <<>> : <<>>[i] = x} = {}
            OBVIOUS
        <2> QED
            BY <2>1, FS_EmptySet DEF Count
    <1>5. /\ c.batch = <<>> /\ c.taken = b.taken /\ c.raced = b.raced
          /\ c.failures = IF link \in {"up", "silent"} THEN b.failures ELSE b.failures + 1
          /\ c.published = IF link \in {"up", "silent"} THEN b.published + Len(b.batch) ELSE b.published
          /\ c.tp = IF link = "up" THEN b.tp \o b.batch ELSE b.tp
          /\ c.gone = IF link = "up" THEN b.gone ELSE b.gone \o b.batch
        BY DEF Publisher, Sent
    <1>6. c \in Publisher
        BY <1>1, SentIsTyped
    <1> HIDE DEF c
    <1>7. ASSUME Held(b), NEW x
          PROVE  Count(c.taken, x) = Count(c.tp, x) + Count(c.gone, x) + Count(c.batch, x)
        <2>1. Count(b.taken, x) = Count(b.tp, x) + Count(b.gone, x) + Count(b.batch, x)
            BY <1>7 DEF Held
        <2>2. Count(c.batch, x) = 0
            BY <1>4, <1>5
        <2>3. CASE link = "up"
            <3>1. c.tp = b.tp \o b.batch /\ c.gone = b.gone /\ c.taken = b.taken
                BY <1>5, <2>3
            <3> QED
                BY <1>3, <2>1, <2>2, <3>1
        <2>4. CASE link # "up"
            <3>1. c.tp = b.tp /\ c.gone = b.gone \o b.batch /\ c.taken = b.taken
                BY <1>5, <2>4
            <3> QED
                BY <1>3, <2>1, <2>2, <3>1
        <2> QED
            BY <2>3, <2>4
    <1>8. ASSUME Held(b)
          PROVE  /\ Len(c.tp) <= c.published /\ c.published <= Len(c.tp) + Len(c.gone)
                 /\ c.published < Len(c.tp) + Len(c.gone) => c.failures > 0
        <2>1. /\ Len(b.tp) <= b.published /\ b.published <= Len(b.tp) + Len(b.gone)
              /\ b.published < Len(b.tp) + Len(b.gone) => b.failures > 0
            BY <1>8 DEF Held
        <2>5. /\ b.failures \in Nat /\ b.published \in Nat /\ Len(b.batch) \in Nat
              /\ Len(b.tp) \in Nat /\ Len(b.gone) \in Nat
            BY <1>1, <1>2
        <2> DEFINE T == Len(b.tp)
                   G == Len(b.gone)
                   N == Len(b.batch)
                   T2 == Len(c.tp)
                   G2 == Len(c.gone)
        <2>6. T \in Nat /\ G \in Nat /\ N \in Nat /\ b.failures \in Nat /\ b.published \in Nat
            BY <2>5
        <2>7. T <= b.published /\ b.published <= T + G /\ (b.published < T + G => b.failures > 0)
            BY <2>1
        <2>2. CASE link = "up"
            <3>1. /\ c.published = b.published + Len(b.batch) /\ c.failures = b.failures
                  /\ Len(c.tp) = Len(b.tp) + Len(b.batch) /\ Len(c.gone) = Len(b.gone)
                BY <1>2, <1>5, <2>2
            <3>2. c.published = b.published + N /\ c.failures = b.failures /\ T2 = T + N /\ G2 = G
                BY <3>1
            <3> HIDE DEF T, G, N, T2, G2
            <3>3. T2 <= c.published /\ c.published <= T2 + G2 /\ (c.published < T2 + G2 => c.failures > 0)
                BY <2>6, <2>7, <3>2
            <3> QED
                BY <3>3 DEF T2, G2
        <2>3. CASE link = "silent"
            <3>1. /\ c.published = b.published + Len(b.batch) /\ c.failures = b.failures
                  /\ Len(c.tp) = Len(b.tp) /\ Len(c.gone) = Len(b.gone) + Len(b.batch)
                BY <1>2, <1>5, <2>3
            <3>2. c.published = b.published + N /\ c.failures = b.failures /\ T2 = T /\ G2 = G + N
                BY <3>1
            <3> HIDE DEF T, G, N, T2, G2
            <3>3. T2 <= c.published /\ c.published <= T2 + G2 /\ (c.published < T2 + G2 => c.failures > 0)
                BY <2>6, <2>7, <3>2
            <3> QED
                BY <3>3 DEF T2, G2
        <2>4. CASE link \notin {"up", "silent"}
            <3>1. /\ c.published = b.published /\ c.failures = b.failures + 1
                  /\ Len(c.tp) = Len(b.tp) /\ Len(c.gone) = Len(b.gone) + Len(b.batch)
                BY <1>2, <1>5, <2>4
            <3>2. c.published = b.published /\ c.failures = b.failures + 1 /\ T2 = T /\ G2 = G + N
                BY <3>1
            <3> HIDE DEF T, G, N, T2, G2
            <3>3. T2 <= c.published /\ c.published <= T2 + G2 /\ (c.published < T2 + G2 => c.failures > 0)
                BY <2>6, <2>7, <3>2
            <3> QED
                BY <3>3 DEF T2, G2
        <2> QED
            BY <2>2, <2>3, <2>4
    <1>9. Held(b) => Held(c)
        BY <1>7, <1>8 DEF Held
    <1> QED
        BY <1>5, <1>6, <1>9 DEF c

\* KdbPublisher::flush on a connection that is there or not.
LEMMA BatchFlushedHolds ==
    ASSUME NEW b \in Publisher
    PROVE  /\ BatchFlushed(b) \in Publisher /\ (Held(b) => Held(BatchFlushed(b)))
           /\ BatchFlushed(b).taken = b.taken /\ BatchFlushed(b).raced = b.raced
    <1> DEFINE c == [b EXCEPT !.failures = @ + 1]
    <1>0. c \in Publisher
        <2>1. b.failures \in Nat
            BY DEF Publisher
        <2>2. b.failures + 1 \in Nat
            BY <2>1
        <2> QED
            BY <2>2, FailureUpdate
    <1>1. /\ c.taken = b.taken /\ c.raced = b.raced /\ c.tp = b.tp
          /\ c.gone = b.gone /\ c.batch = b.batch /\ c.published = b.published
          /\ c.failures = b.failures + 1 /\ b.failures \in Nat
        BY DEF Publisher
    <1>2. BatchFlushed(b) = IF b.batch = <<>> THEN b
                            ELSE IF ~Connected THEN c ELSE Sent(b, b.batch)
        BY DEF BatchFlushed
    <1> HIDE DEF c
    <1>3. Held(b) => Held(c)
        <2>1. c.failures > 0
            BY <1>1
        <2> QED
            BY <1>1, <2>1 DEF Held
    <1> QED
        BY <1>0, <1>1, <1>2, <1>3, SentHolds

\* KdbPublisher::onEvent loses nothing and adds nothing.
LEMMA OnEventHolds ==
    ASSUME NEW b \in Publisher, NEW event \in Events
    PROVE  /\ OnEvent(b, event) \in Publisher
           /\ OnEvent(b, event).raced = b.raced
           /\ OnEvent(b, event).taken =
                IF event.type = "Trade" THEN Append(b.taken, event) ELSE b.taken
           /\ event.type # "Trade" => OnEvent(b, event) = b
           /\ Held(b) => Held(OnEvent(b, event))
    <1> DEFINE grown == [b EXCEPT !.batch = Append(@, event), !.taken = Append(@, event)]
    <1>1. /\ b.batch \in Seq(Events) /\ b.tp \in Seq(Events) /\ b.gone \in Seq(Events)
          /\ b.taken \in Seq(Events) /\ b.failures \in Nat /\ b.published \in Nat
          /\ b.raced \in BOOLEAN
        BY DEF Publisher
    <1>2. Append(b.batch, event) \in Seq(Events) /\ Append(b.taken, event) \in Seq(Events)
        BY <1>1, AppendProperties
    <1>3. /\ grown.batch = Append(b.batch, event) /\ grown.taken = Append(b.taken, event)
          /\ grown.tp = b.tp /\ grown.gone = b.gone /\ grown.failures = b.failures
          /\ grown.published = b.published /\ grown.raced = b.raced
        BY DEF Publisher
    <1>4. grown \in Publisher
        BY <1>2, BatchUpdate
    <1>5. OnEvent(b, event) = IF event.type # "Trade" THEN b
                              ELSE IF Len(grown.batch) >= MaxBatch THEN BatchFlushed(grown) ELSE grown
        BY DEF OnEvent
    <1> HIDE DEF grown
    <1>6. Held(b) => Held(grown)
        <2>1. ASSUME Held(b), NEW x
              PROVE  Count(grown.taken, x) = Count(grown.tp, x) + Count(grown.gone, x) + Count(grown.batch, x)
            <3>1. Count(b.taken, x) = Count(b.tp, x) + Count(b.gone, x) + Count(b.batch, x)
                BY <2>1 DEF Held
            <3>2. Count(b.tp, x) \in Nat /\ Count(b.gone, x) \in Nat /\ Count(b.batch, x) \in Nat
                BY <1>1, CountIsNat
            <3>3. /\ Count(grown.taken, x) = Count(b.taken, x) + (IF event = x THEN 1 ELSE 0)
                  /\ Count(grown.batch, x) = Count(b.batch, x) + (IF event = x THEN 1 ELSE 0)
                BY <1>1, <1>3, CountAppend
            <3> QED
                BY <1>3, <3>1, <3>2, <3>3
        <2> QED
            BY <1>3, <2>1 DEF Held
    <1>7. /\ BatchFlushed(grown) \in Publisher
          /\ BatchFlushed(grown).raced = grown.raced /\ BatchFlushed(grown).taken = grown.taken
        BY <1>4, BatchFlushedHolds
    <1>8. Held(grown) => Held(BatchFlushed(grown))
        BY <1>4, BatchFlushedHolds
    <1> QED
        BY <1>1, <1>3, <1>4, <1>5, <1>6, <1>7, <1>8

\* What the publisher has done to the events of one message.
Took(b, c, events) ==
    /\ c \in Publisher /\ c.raced = b.raced /\ (Held(b) => Held(c))
    /\ Len(c.taken) >= Len(b.taken)
    /\ Len(c.taken) = Len(b.taken) => c.batch = b.batch /\ c.taken = b.taken
    /\ \A i \in DOMAIN c.taken :
          \/ \E j \in DOMAIN b.taken : c.taken[i] = b.taken[j]
          \/ \E j \in DOMAIN events : c.taken[i] = events[j] /\ events[j].type = "Trade"

\* KdbPublisher::onEvent for one event more of the message.
LEMMA OneEventTaken ==
    ASSUME NEW b \in Publisher, NEW c, NEW events \in Seq(Events), NEW j \in DOMAIN events,
           Took(b, c, events)
    PROVE  Took(b, OnEvent(c, events[j]), events)
    <1> DEFINE d == OnEvent(c, events[j])
    <1>1. events[j] \in Events
        BY ElementOfSeq, LenProperties
    <1>2. c \in Publisher /\ c.raced = b.raced /\ Len(c.taken) >= Len(b.taken)
        BY DEF Took
    <1>3. /\ d \in Publisher /\ d.raced = b.raced /\ (Held(b) => Held(d))
          /\ d.taken = IF events[j].type = "Trade" THEN Append(c.taken, events[j]) ELSE c.taken
          /\ events[j].type # "Trade" => d = c
        BY <1>1, <1>2, OnEventHolds DEF Took
    <1> HIDE DEF d
    <1>4. CASE events[j].type # "Trade"
        BY <1>3, <1>4 DEF d
    <1>5. CASE events[j].type = "Trade"
        <2>1. /\ c.taken \in Seq(Events) /\ b.taken \in Seq(Events)
              /\ Len(c.taken) \in Nat /\ Len(b.taken) \in Nat
            BY <1>2, LenProperties DEF Publisher
        <2>2. /\ d.taken = Append(c.taken, events[j])
              /\ DOMAIN d.taken = 1 .. Len(c.taken) + 1 /\ DOMAIN c.taken = 1 .. Len(c.taken)
              /\ Len(d.taken) = Len(c.taken) + 1
              /\ \A i \in 1 .. Len(c.taken) : d.taken[i] = c.taken[i]
              /\ d.taken[Len(c.taken) + 1] = events[j]
            BY <1>1, <1>3, <1>5, <2>1, AppendProperties, LenProperties
        <2>3. Len(d.taken) > Len(b.taken)
            <3> DEFINE m == Len(d.taken)
                       n == Len(c.taken)
                       k == Len(b.taken)
            <3>1. m = n + 1 /\ n >= k /\ n \in Nat /\ k \in Nat
                BY <1>2, <2>1, <2>2
            <3> HIDE DEF m, n, k
            <3>2. m > k
                BY <3>1
            <3> QED
                BY <3>2 DEF m, k
        <2>4. Len(d.taken) >= Len(b.taken) /\ Len(d.taken) # Len(b.taken)
            <3> DEFINE m == Len(d.taken)
                       k == Len(b.taken)
            <3>1. m > k /\ m \in Int /\ k \in Int
                BY <2>1, <2>2, <2>3
            <3> HIDE DEF m, k
            <3>2. m >= k /\ m # k
                BY <3>1
            <3> QED
                BY <3>2 DEF m, k
        <2>5. ASSUME NEW i \in DOMAIN d.taken
              PROVE  \/ \E h \in DOMAIN b.taken : d.taken[i] = b.taken[h]
                     \/ \E h \in DOMAIN events : d.taken[i] = events[h] /\ events[h].type = "Trade"
            <3>1. CASE i = Len(c.taken) + 1
                BY <1>5, <2>2, <3>1
            <3>2. CASE i # Len(c.taken) + 1
                <4>1. i \in 1 .. Len(c.taken)
                    BY <2>1, <2>2, <3>2
                <4>2. d.taken[i] = c.taken[i] /\ i \in DOMAIN c.taken
                    BY <2>2, <4>1
                <4> QED
                    BY <4>2 DEF Took
            <3> QED
                BY <3>1, <3>2
        <2> QED
            BY <1>3, <2>4, <2>5 DEF Took, d
    <1> QED
        BY <1>4, <1>5

\* All events of a message (the adapter's calls of the sink's onEvent).
LEMMA EventsTaken ==
    ASSUME NEW b \in Publisher, NEW events \in Seq(Events)
    PROVE  Took(b, OnEvents(b, events), events)
    <1> DEFINE n == Len(events)
    <1>1. n \in Nat /\ DOMAIN events = 1 .. n
        BY LenProperties
    <1> HIDE DEF n
    <1>0. PICK f : EventsStep(f, b, events, n)
        BY <1>1, OnEventFolds
    <1>2. /\ f[0] = b
          /\ \A i \in 1 .. n : f[i] = OnEvent(f[i - 1], events[i])
          /\ OnEvents(b, events) = f[n]
        BY <1>0 DEF EventsStep
    <1> DEFINE S == {i \in 0 .. n : ~Took(b, f[i], events)}
    <1>3. S = {}
        <2>1. SUFFICES ASSUME S # {} PROVE FALSE
            OBVIOUS
        <2>2. PICK i \in S : \A y \in S : i <= y
            <3>1. S \in SUBSET Nat
                BY <1>1
            <3> HIDE DEF S
            <3> QED
                BY <2>1, <3>1, LeastNat
        <2>3. i \in 0 .. n /\ ~Took(b, f[i], events)
            OBVIOUS
        <2>4. CASE i = 0
            <3>1. Took(b, b, events)
                <4>1. b.taken \in Seq(Events) /\ Len(b.taken) \in Nat
                    BY LenProperties DEF Publisher
                <4>2. Len(b.taken) >= Len(b.taken)
                    BY <4>1
                <4> QED
                    BY <4>2 DEF Took
            <3> QED
                BY <1>2, <2>3, <2>4, <3>1
        <2>5. CASE i # 0
            <3>1. i \in 1 .. n /\ i - 1 \in 0 .. n /\ ~(i <= i - 1)
                BY <1>1, <2>3, <2>5
            <3>2. i - 1 \notin S
                <4> HIDE DEF S
                <4> QED
                    BY <2>2, <3>1
            <3>3. Took(b, f[i - 1], events)
                BY <3>1, <3>2
            <3>4. f[i] = OnEvent(f[i - 1], events[i])
                BY <1>2, <3>1
            <3> QED
                BY <1>1, <2>3, <3>1, <3>3, <3>4, OneEventTaken
        <2> QED
            BY <2>4, <2>5
    <1>4. n \in 0 .. n
        BY <1>1
    <1> QED
        BY <1>2, <1>3, <1>4

-----------------------------------------------------------------------------
(* The feed handler's engine *)

Engine == [expected : Nat \ {0}, state : {"CONNECTING", "LIVE", "RECOVERING"}, got : Nat, told : SUBSET (Nat \X Nat),
           asked : SUBSET (Nat \X Nat), seen : Seq(Nat), passed : Seq(Nat),
           known : [Locates -> Symbols]]
Itch == feed.protocol \in {"mold", "soup"}

\* The range of numbers that is asked for ends with the gap.
LEMMA RequestIsOfGap ==
    ASSUME NEW from \in Nat \ {0}, NEW to \in Nat, from < to
    PROVE  /\ Request(from, to) \in SUBSET (Nat \X Nat)
           /\ \A r \in Request(from, to) : r[2] = to /\ 1 <= r[1] /\ r[1] <= r[2]
           /\ feed.callbacks = {} => Request(from, to) = {}
    <1>1. <<from, to>> \in Nat \X Nat /\ <<1, to>> \in Nat \X Nat
        OBVIOUS
    <1>2. Request(from, to) \in {{<<from, to>>}, {<<1, to>>}, {}}
        BY DEF Request
    <1>3. feed.callbacks = {} => Request(from, to) = {}
        BY DEF Request
    <1>4. ASSUME NEW r \in Request(from, to) PROVE r[2] = to /\ 1 <= r[1] /\ r[1] <= r[2]
        <2>1. r = <<from, to>> \/ r = <<1, to>>
            BY <1>2
        <2> QED
            BY <2>1
    <1> QED
        BY <1>1, <1>2, <1>3, <1>4

\* SequenceTracker::onSequence, field by field.
LEMMA TrackedFields ==
    ASSUME NEW e \in Engine, NEW n \in Nat
    PROVE  /\ Tracked(e, n) \in Engine
           /\ Tracked(e, n).expected = IF n = 0 \/ n < e.expected THEN e.expected ELSE n + 1
           /\ Tracked(e, n).told = IF n = 0 \/ n <= e.expected THEN e.told
                                   ELSE e.told \cup {<<e.expected, n>>}
           /\ Tracked(e, n).asked = IF n = 0 \/ n <= e.expected THEN e.asked
                                    ELSE e.asked \cup Request(e.expected, n)
           /\ Tracked(e, n).got = e.got /\ Tracked(e, n).seen = e.seen
           /\ Tracked(e, n).passed = e.passed /\ Tracked(e, n).known = e.known
    <1>1. e.expected \in Nat \ {0} /\ e.told \in SUBSET (Nat \X Nat) /\ e.asked \in SUBSET (Nat \X Nat)
        BY DEF Engine
    <1>2. CASE n = 0 \/ n < e.expected
        <2>1. Tracked(e, n) = e /\ (n = 0 \/ n <= e.expected)
            BY <1>1, <1>2 DEF Tracked
        <2> QED
            BY <1>2, <2>1
    <1>3. CASE n # 0 /\ n = e.expected
        <2>1. Tracked(e, n) = [e EXCEPT !.expected = n + 1] /\ n <= e.expected /\ ~(n < e.expected)
            BY <1>1, <1>3 DEF Tracked
        <2>2. n + 1 \in Nat \ {0}
            OBVIOUS
        <2>3. [e EXCEPT !.expected = n + 1] \in Engine
            BY <2>2 DEF Engine
        <2> QED
            BY <1>3, <2>1, <2>3 DEF Engine
    <1>4. CASE n # 0 /\ ~(n < e.expected) /\ n # e.expected
        <2>1. /\ Tracked(e, n) = [e EXCEPT !.expected = n + 1, !.state = "RECOVERING",
                                  !.told = @ \cup {<<e.expected, n>>},
                                  !.asked = @ \cup Request(e.expected, n)]
              /\ ~(n <= e.expected) /\ e.expected < n
            BY <1>1, <1>4 DEF Tracked
        <2>2. PICK x \in Nat \ {0} : x = n + 1
            OBVIOUS
        <2>3. PICK t \in SUBSET (Nat \X Nat) : t = e.told \cup {<<e.expected, n>>}
            <3>1. <<e.expected, n>> \in Nat \X Nat
                BY <1>1
            <3> QED
                BY <1>1, <3>1
        <2>4. PICK a \in SUBSET (Nat \X Nat) : a = e.asked \cup Request(e.expected, n)
            BY <1>1, <2>1, RequestIsOfGap
        <2>5. Tracked(e, n) = [e EXCEPT !.expected = x, !.state = "RECOVERING", !.told = t, !.asked = a]
            BY <2>1, <2>2, <2>3, <2>4
        <2>6. [e EXCEPT !.expected = x, !.state = "RECOVERING", !.told = t, !.asked = a] \in Engine
            <3>3. [e EXCEPT !.expected = x] \in Engine
                BY DEF Engine
            <3>4. PICK e0 \in Engine : e0 = [e EXCEPT !.expected = x]
                BY <3>3
            <3>6. [e0 EXCEPT !.state = "RECOVERING"] \in Engine
                BY DEF Engine
            <3>1. PICK e1 \in Engine : e1 = [e EXCEPT !.expected = x, !.state = "RECOVERING"]
                BY <3>4, <3>6
            <3>2. [e1 EXCEPT !.told = t, !.asked = a] \in Engine
                BY DEF Engine
            <3> QED
                BY <3>1, <3>2
        <2>7. /\ Tracked(e, n).expected = x /\ Tracked(e, n).told = t /\ Tracked(e, n).asked = a
              /\ Tracked(e, n).got = e.got /\ Tracked(e, n).seen = e.seen
              /\ Tracked(e, n).passed = e.passed /\ Tracked(e, n).known = e.known
            BY <2>5 DEF Engine
        <2> QED
            BY <1>4, <2>1, <2>2, <2>3, <2>4, <2>5, <2>6, <2>7
    <1> QED
        BY <1>2, <1>3, <1>4

\* TrackedVenueSink::onMessage, field by field, of a message that is not dropped.
Moved(s, m, t) ==
    /\ t \in Engine
    /\ t.expected = Tracked(s.e, m.n).expected
    /\ t.told = Tracked(s.e, m.n).told
    /\ t.asked = Tracked(s.e, m.n).asked
    /\ t.got = s.e.got
    /\ t.seen = IF feed.redundant THEN Remembered(s.e.seen, m.n) ELSE s.e.seen
    /\ t.passed = s.e.passed \o <<m.n>>
    /\ t.known = IF Itch /\ ItchParsed(m.item) /\ m.item.code = "R"
                 THEN [s.e.known EXCEPT ![m.item.locate] = m.item.stock] ELSE s.e.known
    /\ OnMessage(s, m).b = OnEvents(s.b, EventsOf(t, m.item))
\* TrackedVenueSink::onMessage, of a message that is not a duplicate.
LEMMA OnMessageFields ==
    ASSUME NEW s, s.e \in Engine, NEW m, m.n \in Nat, ~Duplicate(s.e, m.n),
           Itch => m.item.locate \in Locates /\ m.item.stock \in Symbols,
           NEW t, t = OnMessage(s, m).e
    PROVE  Moved(s, m, t)
    <1> DEFINE seen == IF feed.redundant THEN Remembered(s.e.seen, m.n) ELSE s.e.seen
               e1 == Tracked(s.e, m.n)
               e2 == [e1 EXCEPT !.seen = seen, !.passed = @ \o <<m.n>>]
               e3 == IF Itch THEN Learned(e2, m.item) ELSE e2
    <1>1. OnMessage(s, m) = [e |-> e3, b |-> OnEvents(s.b, EventsOf(e3, m.item))]
        BY DEF OnMessage, Itch
    <1>9. t = e3 /\ OnMessage(s, m).b = OnEvents(s.b, EventsOf(t, m.item))
        <2> HIDE DEF e3
        <2> QED
            BY <1>1
    <1>2. e1 \in Engine /\ e1.got = s.e.got /\ e1.seen = s.e.seen /\ e1.passed = s.e.passed
          /\ e1.known = s.e.known
        BY TrackedFields
    <1>3. PICK q \in Seq(Nat) : q = seen
        <2>1. s.e.seen \in Seq(Nat)
            BY DEF Engine
        <2>2. Append(s.e.seen, m.n) \in Seq(Nat) /\ Append(s.e.seen, m.n) # <<>>
            BY <2>1, AppendProperties
        <2>3. Tail(Append(s.e.seen, m.n)) \in Seq(Nat)
            BY <2>2, HeadTailProperties
        <2> QED
            BY <2>1, <2>2, <2>3 DEF Remembered
    <1>4. PICK p \in Seq(Nat) : p = s.e.passed \o <<m.n>>
        <2>1. s.e.passed \in Seq(Nat) /\ <<m.n>> \in Seq(Nat)
            BY DEF Engine
        <2> QED
            BY <2>1, ConcatProperties
    <1> HIDE DEF e1, seen
    <1>5. e2 = [e1 EXCEPT !.seen = q, !.passed = p]
        BY <1>2, <1>3, <1>4
    <1>6. /\ e2 \in Engine /\ e2.expected = e1.expected /\ e2.told = e1.told /\ e2.asked = e1.asked
          /\ e2.got = e1.got /\ e2.seen = q /\ e2.passed = p /\ e2.known = e1.known
        <2>1. e2 \in Engine
            BY <1>2, <1>5 DEF Engine
        <2> QED
            BY <1>2, <1>5, <2>1 DEF Engine
    <1> HIDE DEF e2
    <1>7. CASE Itch /\ ItchParsed(m.item) /\ m.item.code = "R"
        <2>1. e3 = [e2 EXCEPT !.known[m.item.locate] = m.item.stock]
            BY <1>7 DEF Learned
        <2>2. e2.known \in [Locates -> Symbols]
            BY <1>6 DEF Engine
        <2>3. PICK k \in [Locates -> Symbols] : k = [e2.known EXCEPT ![m.item.locate] = m.item.stock]
            BY <1>7, <2>2
        <2>4. e3 = [e2 EXCEPT !.known = k]
            BY <2>1, <2>3
        <2>5. e3 \in Engine
            BY <1>6, <2>4 DEF Engine
        <2>6. /\ e3.expected = e2.expected /\ e3.told = e2.told /\ e3.asked = e2.asked
              /\ e3.got = e2.got /\ e3.seen = e2.seen /\ e3.passed = e2.passed /\ e3.known = k
            BY <1>6, <2>4 DEF Engine
        <2> HIDE DEF e3
        <2>7. t.known = IF Itch /\ ItchParsed(m.item) /\ m.item.code = "R"
                        THEN [s.e.known EXCEPT ![m.item.locate] = m.item.stock] ELSE s.e.known
            BY <1>2, <1>6, <1>7, <1>9, <2>3, <2>6
        <2>8. t \in Engine /\ t.expected = e1.expected /\ t.told = e1.told /\ t.asked = e1.asked
              /\ t.got = s.e.got /\ t.seen = seen /\ t.passed = s.e.passed \o <<m.n>>
            BY <1>2, <1>3, <1>4, <1>6, <1>9, <2>5, <2>6
        <2> QED
            BY <1>9, <2>7, <2>8 DEF seen, e1, Moved
    <1>8. CASE ~(Itch /\ ItchParsed(m.item) /\ m.item.code = "R")
        <2>1. e3 = e2
            BY <1>8 DEF Learned
        <2> HIDE DEF e3
        <2>7. t.known = IF Itch /\ ItchParsed(m.item) /\ m.item.code = "R"
                        THEN [s.e.known EXCEPT ![m.item.locate] = m.item.stock] ELSE s.e.known
            BY <1>2, <1>6, <1>8, <1>9, <2>1
        <2>8. t \in Engine /\ t.expected = e1.expected /\ t.told = e1.told /\ t.asked = e1.asked
              /\ t.got = s.e.got /\ t.seen = seen /\ t.passed = s.e.passed \o <<m.n>>
            BY <1>2, <1>3, <1>4, <1>6, <1>9, <2>1
        <2> QED
            BY <1>9, <2>7, <2>8 DEF seen, e1, Moved
    <1> QED
        BY <1>7, <1>8

\* GapsAreTold, with what the ranges have to do with the number that is expected.
ToldOnce(e) ==
    /\ \A n \in 1 .. e.expected - 1 :
          n \in Range(e.passed) \/ \E g \in e.told : g[1] <= n /\ n < g[2]
    /\ \A g, h \in e.told : g # h => g[2] <= h[1] \/ h[2] <= g[1]
    /\ \A g \in e.told : 1 <= g[1] /\ g[1] < g[2] /\ g[2] <= e.expected
    /\ \A r \in e.asked : 1 <= r[1] /\ r[1] <= r[2] /\ \E g \in e.told : r[2] = g[2]

\* The arbiter remembers the last numbers that passed, DedupWindow of them at most, and
\* OncePerWindow.
Windowed(e) ==
    /\ Len(e.seen) <= Len(e.passed) /\ Len(e.seen) <= DedupWindow
    /\ Len(e.seen) = Len(e.passed) \/ Len(e.seen) = DedupWindow
    /\ \A i \in 1 .. Len(e.seen) : e.seen[i] = e.passed[Len(e.passed) - Len(e.seen) + i]
    /\ \A i, j \in 1 .. Len(e.passed) : i < j /\ e.passed[i] = e.passed[j] => j - i > DedupWindow

\* A number more has passed.
LEMMA PassedOneMore ==
    ASSUME NEW q \in Seq(Nat), NEW n \in Nat
    PROVE  /\ q \o <<n>> \in Seq(Nat) /\ Len(q \o <<n>>) = Len(q) + 1 /\ Len(q) \in Nat
           /\ DOMAIN q = 1 .. Len(q) /\ DOMAIN (q \o <<n>>) = 1 .. Len(q) + 1
           /\ \A i \in 1 .. Len(q) : (q \o <<n>>)[i] = q[i]
           /\ (q \o <<n>>)[Len(q) + 1] = n
    <1>1. <<n>> \in Seq(Nat) /\ Len(<<n>>) = 1 /\ <<n>>[1] = n
        OBVIOUS
    <1>2. q \o <<n>> \in Seq(Nat) /\ Len(q \o <<n>>) = Len(q) + 1
          /\ \A i \in 1 .. Len(q) + 1 : (q \o <<n>>)[i] = IF i <= Len(q) THEN q[i] ELSE <<n>>[i - Len(q)]
        BY <1>1, ConcatProperties
    <1>3. Len(q) \in Nat /\ DOMAIN q = 1 .. Len(q) /\ DOMAIN (q \o <<n>>) = 1 .. Len(q) + 1
        BY <1>2, LenProperties
    <1>4. \A i \in 1 .. Len(q) : (q \o <<n>>)[i] = q[i]
        BY <1>2, <1>3
    <1>5. (q \o <<n>>)[Len(q) + 1] = n
        <2>1. Len(q) + 1 \in 1 .. Len(q) + 1 /\ ~(Len(q) + 1 <= Len(q)) /\ (Len(q) + 1) - Len(q) = 1
            BY <1>3
        <2> QED
            BY <1>1, <1>2, <2>1
    <1> QED
        BY <1>2, <1>3, <1>4, <1>5

\* SequenceTracker::onSequence and RecoveryManager::handleGap keep it.
LEMMA TrackedTells ==
    ASSUME NEW e \in Engine, NEW n \in Nat, ToldOnce(e), NEW t \in Engine,
           t.expected = Tracked(e, n).expected, t.told = Tracked(e, n).told,
           t.asked = Tracked(e, n).asked, t.passed = e.passed \o <<n>>
    PROVE  ToldOnce(t)
    <1>1. /\ e.expected \in Nat \ {0} /\ e.told \in SUBSET (Nat \X Nat)
          /\ e.asked \in SUBSET (Nat \X Nat) /\ e.passed \in Seq(Nat)
        BY DEF Engine
    <1>2. Range(e.passed) \cup {n} = Range(t.passed)
        <2>1. /\ DOMAIN e.passed = 1 .. Len(e.passed) /\ DOMAIN t.passed = 1 .. Len(e.passed) + 1
              /\ Len(e.passed) \in Nat
              /\ \A i \in 1 .. Len(e.passed) : t.passed[i] = e.passed[i]
              /\ t.passed[Len(e.passed) + 1] = n
            BY <1>1, PassedOneMore
        <2>2. ASSUME NEW x \in Range(e.passed) \cup {n} PROVE x \in Range(t.passed)
            BY <2>1 DEF Range
        <2>3. ASSUME NEW x \in Range(t.passed) PROVE x \in Range(e.passed) \cup {n}
            <3>1. PICK i \in 1 .. Len(e.passed) + 1 : x = t.passed[i]
                BY <2>1 DEF Range
            <3>2. i \in 1 .. Len(e.passed) \/ i = Len(e.passed) + 1
                BY <2>1
            <3> QED
                BY <2>1, <3>1, <3>2 DEF Range
        <2> QED
            BY <2>2, <2>3
    <1>3. CASE n = 0 \/ n < e.expected
        <2>1. t.expected = e.expected /\ t.told = e.told /\ t.asked = e.asked
            <3>1. n = 0 \/ n <= e.expected
                BY <1>1, <1>3
            <3> QED
                BY <1>3, <3>1, TrackedFields
        <2> QED
            BY <1>2, <2>1 DEF ToldOnce
    <1>4. CASE n # 0 /\ n = e.expected
        <2>1. t.expected = n + 1 /\ t.told = e.told /\ t.asked = e.asked
            <3>1. ~(n = 0 \/ n < e.expected) /\ n <= e.expected
                BY <1>1, <1>4
            <3> QED
                BY <3>1, TrackedFields
        <2>2. ASSUME NEW k \in 1 .. t.expected - 1
              PROVE  k \in Range(t.passed) \/ \E g \in t.told : g[1] <= k /\ k < g[2]
            <3>1. k \in 1 .. e.expected - 1 \/ k = n
                BY <1>1, <1>4, <2>1
            <3> QED
                BY <1>2, <2>1, <3>1 DEF ToldOnce
        <2>3. ASSUME NEW g \in t.told PROVE 1 <= g[1] /\ g[1] < g[2] /\ g[2] <= t.expected
            <3>1. g[1] \in Nat /\ g[2] \in Nat /\ 1 <= g[1] /\ g[1] < g[2] /\ g[2] <= e.expected
                BY <1>1, <2>1 DEF ToldOnce
            <3> QED
                BY <1>1, <1>4, <2>1, <3>1
        <2> QED
            BY <2>1, <2>2, <2>3 DEF ToldOnce
    <1>5. CASE n # 0 /\ ~(n <= e.expected)
        <2>1. /\ t.expected = n + 1 /\ t.told = e.told \cup {<<e.expected, n>>}
              /\ t.asked = e.asked \cup Request(e.expected, n)
            <3>1. ~(n = 0 \/ n < e.expected) /\ ~(n = 0 \/ n <= e.expected)
                BY <1>1, <1>5
            <3> QED
                BY <3>1, TrackedFields
        <2>2. e.expected < n /\ e.expected \in Nat
            BY <1>1, <1>5
        <2>3. ASSUME NEW k \in 1 .. t.expected - 1
              PROVE  k \in Range(t.passed) \/ \E g \in t.told : g[1] <= k /\ k < g[2]
            <3>1. k \in 1 .. e.expected - 1 \/ (e.expected <= k /\ k < n) \/ k = n
                BY <2>1, <2>2
            <3>2. CASE k \in 1 .. e.expected - 1
                BY <1>2, <2>1, <3>2 DEF ToldOnce
            <3>3. CASE e.expected <= k /\ k < n
                <4>1. <<e.expected, n>> \in t.told
                    BY <2>1
                <4>2. <<e.expected, n>>[1] <= k /\ k < <<e.expected, n>>[2]
                    BY <3>3
                <4> QED
                    BY <4>1, <4>2
            <3>4. CASE k = n
                BY <1>2, <3>4
            <3> QED
                BY <3>1, <3>2, <3>3, <3>4
        <2>4. ASSUME NEW g \in e.told
              PROVE  /\ g[1] \in Nat /\ g[2] \in Nat /\ 1 <= g[1] /\ g[1] < g[2] /\ g[2] <= e.expected
            BY <1>1 DEF ToldOnce
        <2>5. ASSUME NEW g \in t.told PROVE 1 <= g[1] /\ g[1] < g[2] /\ g[2] <= t.expected
            <3>1. CASE g \in e.told
                <4>1. g[1] \in Nat /\ g[2] \in Nat /\ 1 <= g[1] /\ g[1] < g[2] /\ g[2] <= e.expected
                    BY <2>4, <3>1
                <4> QED
                    BY <2>1, <2>2, <4>1
            <3>2. CASE g = <<e.expected, n>>
                <4>1. g[1] = e.expected /\ g[2] = n
                    BY <3>2
                <4> QED
                    BY <1>1, <2>1, <2>2, <4>1
            <3> QED
                BY <2>1, <3>1, <3>2
        <2>6. ASSUME NEW g \in t.told, NEW h \in t.told, g # h PROVE g[2] <= h[1] \/ h[2] <= g[1]
            <3>1. CASE g \in e.told /\ h \in e.told
                BY <2>6, <3>1 DEF ToldOnce
            <3>2. CASE g \in e.told /\ h = <<e.expected, n>>
                BY <2>4, <3>2
            <3>3. CASE h \in e.told /\ g = <<e.expected, n>>
                BY <2>4, <3>3
            <3> QED
                BY <2>1, <2>6, <3>1, <3>2, <3>3
        <2>7. ASSUME NEW r \in t.asked
              PROVE  1 <= r[1] /\ r[1] <= r[2] /\ \E g \in t.told : r[2] = g[2]
            <3>1. CASE r \in e.asked
                BY <2>1, <3>1 DEF ToldOnce
            <3>2. CASE r \in Request(e.expected, n)
                <4>1. r[2] = n /\ 1 <= r[1] /\ r[1] <= r[2]
                    BY <1>1, <2>2, <3>2, RequestIsOfGap
                <4>2. <<e.expected, n>> \in t.told /\ <<e.expected, n>>[2] = n
                    BY <2>1
                <4> QED
                    BY <4>1, <4>2
            <3> QED
                BY <2>1, <3>1, <3>2
        <2> QED
            BY <2>3, <2>5, <2>6, <2>7 DEF ToldOnce
    <1>6. (n = 0 \/ n < e.expected) \/ (n # 0 /\ n = e.expected) \/ (n # 0 /\ ~(n <= e.expected))
        BY <1>1
    <1> QED
        BY <1>3, <1>4, <1>5, <1>6

\* FeedArbiter::onMessage keeps it.
LEMMA ArbiterRemembers ==
    ASSUME NEW e \in Engine, NEW n \in Nat, Windowed(e), n \notin Range(e.seen), NEW t \in Engine,
           t.seen = Remembered(e.seen, n), t.passed = e.passed \o <<n>>
    PROVE  Windowed(t)
    <1>1. e.seen \in Seq(Nat) /\ e.passed \in Seq(Nat) /\ DedupWindow \in Nat /\ DedupWindow >= 1
        BY FhAssumption DEF Engine
    <1>0. PICK a \in Nat, p \in Nat : a = Len(e.seen) /\ p = Len(e.passed)
        BY <1>1, LenProperties
    <1>2. /\ Len(t.passed) = p + 1
          /\ \A i \in 1 .. p : t.passed[i] = e.passed[i]
          /\ t.passed[p + 1] = n
        BY <1>0, <1>1, PassedOneMore
    <1>3. /\ Append(e.seen, n) \in Seq(Nat) /\ Len(Append(e.seen, n)) = a + 1
          /\ \A i \in 1 .. a : Append(e.seen, n)[i] = e.seen[i]
          /\ Append(e.seen, n)[a + 1] = n /\ DOMAIN e.seen = 1 .. a
        BY <1>0, <1>1, AppendProperties, LenProperties
    <1>4. /\ a <= p /\ a <= DedupWindow /\ (a = p \/ a = DedupWindow)
          /\ \A i \in 1 .. a : e.seen[i] = e.passed[p - a + i]
          /\ \A i, j \in 1 .. p : i < j /\ e.passed[i] = e.passed[j] => j - i > DedupWindow
        BY <1>0 DEF Windowed
    <1>5. PICK b \in Nat :
              /\ b = Len(t.seen) /\ b = IF a + 1 > DedupWindow THEN a ELSE a + 1
              /\ \A i \in 1 .. b : t.seen[i] = t.passed[p + 1 - b + i]
        <2>1. CASE a + 1 > DedupWindow
            <3>1. t.seen = Tail(Append(e.seen, n))
                BY <1>3, <2>1 DEF Remembered
            <3>2. Append(e.seen, n) # <<>>
                BY <1>1, AppendProperties
            <3>3. Len(t.seen) = a /\ \A i \in 1 .. a : t.seen[i] = Append(e.seen, n)[i + 1]
                <4>1. Len(Tail(Append(e.seen, n))) = (a + 1) - 1
                    BY <1>3, <3>2, HeadTailProperties
                <4>2. \A i \in 1 .. Len(Tail(Append(e.seen, n))) :
                            Tail(Append(e.seen, n))[i] = Append(e.seen, n)[i + 1]
                    BY <1>3, <3>2, HeadTailProperties
                <4>3. Len(t.seen) = a
                    BY <1>2, <3>1, <4>1
                <4> QED
                    BY <3>1, <4>2, <4>3
            <3>4. ASSUME NEW i \in 1 .. a PROVE t.seen[i] = t.passed[p + 1 - a + i]
                <4>1. CASE i = a
                    <5>1. t.seen[i] = n
                        BY <1>3, <3>3, <4>1
                    <5>2. p + 1 - a + i = p + 1
                        BY <1>2, <4>1
                    <5> QED
                        BY <1>2, <5>1, <5>2
                <4>2. CASE i # a
                    <5>1. i + 1 \in 1 .. a /\ p - a + (i + 1) \in 1 .. p /\ p + 1 - a + i = p - a + (i + 1)
                        BY <1>2, <1>4, <4>2
                    <5>2. t.seen[i] = e.passed[p - a + (i + 1)]
                        BY <1>3, <1>4, <3>3, <5>1
                    <5> QED
                        BY <1>2, <5>1, <5>2
                <4> QED
                    BY <4>1, <4>2
            <3>5. a = IF a + 1 > DedupWindow THEN a ELSE a + 1
                BY <2>1
            <3> QED
                BY <3>3, <3>4, <3>5
        <2>2. CASE ~(a + 1 > DedupWindow)
            <3>1. t.seen = Append(e.seen, n) /\ Len(t.seen) = a + 1
                BY <1>3, <2>2 DEF Remembered
            <3>2. ASSUME NEW i \in 1 .. a + 1 PROVE t.seen[i] = t.passed[p + 1 - (a + 1) + i]
                <4>1. CASE i = a + 1
                    <5>1. p + 1 - (a + 1) + i = p + 1
                        BY <1>2, <4>1
                    <5> QED
                        BY <1>2, <1>3, <3>1, <4>1, <5>1
                <4>2. CASE i # a + 1
                    <5>1. i \in 1 .. a /\ p - a + i \in 1 .. p /\ p + 1 - (a + 1) + i = p - a + i
                        BY <1>2, <1>4, <4>2
                    <5> QED
                        BY <1>2, <1>3, <1>4, <3>1, <5>1
                <4> QED
                    BY <4>1, <4>2
            <3>3. a + 1 = (IF a + 1 > DedupWindow THEN a ELSE a + 1) /\ a + 1 \in Nat
                BY <2>2
            <3>4. PICK x \in Nat : x = a + 1
                BY <3>3
            <3>5. \A i \in 1 .. x : t.seen[i] = t.passed[p + 1 - x + i]
                BY <3>2, <3>4
            <3> QED
                BY <3>1, <3>3, <3>4, <3>5
        <2> QED
            BY <2>1, <2>2
    <1>6. ASSUME NEW i \in 1 .. p + 1, NEW j \in 1 .. p + 1, i < j, t.passed[i] = t.passed[j]
          PROVE  j - i > DedupWindow
        <2>1. i \in 1 .. p /\ t.passed[i] = e.passed[i]
            BY <1>2, <1>6
        <2>2. CASE j \in 1 .. p
            BY <1>2, <1>4, <1>6, <2>1, <2>2
        <2>3. CASE j = p + 1
            <3>1. e.passed[i] = n
                BY <1>2, <1>6, <2>1, <2>3
            <3>2. ~(i > p - a)
                <4>1. SUFFICES ASSUME i > p - a PROVE FALSE
                    OBVIOUS
                <4>2. i - (p - a) \in 1 .. a /\ p - a + (i - (p - a)) = i
                    BY <1>2, <1>4, <2>1, <4>1
                <4>3. e.seen[i - (p - a)] = n
                    BY <1>4, <3>1, <4>2
                <4> QED
                    BY <1>3, <4>2, <4>3 DEF Range
            <3>3. a = DedupWindow
                BY <1>2, <1>4, <2>1, <3>2
            <3> QED
                BY <1>2, <2>1, <2>3, <3>2, <3>3
        <2> QED
            BY <1>2, <2>2, <2>3
    <1>7. b = (IF a + 1 > DedupWindow THEN a ELSE a + 1) /\ b = Len(t.seen)
        BY <1>5
    <1>8. b <= p + 1 /\ b <= DedupWindow /\ (b = p + 1 \/ b = DedupWindow)
        BY <1>1, <1>4, <1>7
    <1>9. Len(t.seen) <= Len(t.passed) /\ Len(t.seen) <= DedupWindow
          /\ (Len(t.seen) = Len(t.passed) \/ Len(t.seen) = DedupWindow)
        BY <1>2, <1>7, <1>8
    <1>10. \A i \in 1 .. Len(t.seen) : t.seen[i] = t.passed[Len(t.passed) - Len(t.seen) + i]
        <2>1. ASSUME NEW i \in 1 .. Len(t.seen)
              PROVE  t.seen[i] = t.passed[Len(t.passed) - Len(t.seen) + i]
            <3>1. t.seen[i] = t.passed[p + 1 - b + i]
                BY <1>5
            <3>2. p + 1 = Len(t.passed)
                BY <1>2
            <3>3. PICK q : q = Len(t.passed) - Len(t.seen) + i
                OBVIOUS
            <3>4. PICK r \in Int : r = Len(t.passed)
                BY <3>2
            <3>5. q = r - b + i /\ r = p + 1
                BY <1>7, <3>2, <3>3, <3>4
            <3>6. q = p + 1 - b + i
                BY <3>5
            <3>7. t.seen[i] = t.passed[q]
                BY <3>1, <3>6
            <3> QED
                BY <3>3, <3>7
        <2> QED
            BY <2>1
    <1>11. \A i, j \in 1 .. Len(t.passed) : i < j /\ t.passed[i] = t.passed[j] => j - i > DedupWindow
        BY <1>2, <1>6
    <1> QED
        BY <1>9, <1>10, <1>11 DEF Windowed

-----------------------------------------------------------------------------
(* The feed handler's messages, by their place on the tape *)

\* A feed is one of the protocols that there are tapes of.
LEMMA FeedOfTape ==
    ASSUME feed \in Feeds
    PROVE  /\ feed.protocol \in {"mold", "soup", "sbe", "fix", "wsjson"}
           /\ feed.redundant \in BOOLEAN /\ feed.live \in BOOLEAN
           /\ ~Multicast => ~feed.redundant /\ feed.callbacks = {}
           /\ feed.callbacks # {} => ~feed.live
           /\ Multicast => ~feed.live
           /\ Tape \in Seq(Items) /\ Len(Tape) \in Nat /\ DOMAIN Tape = 1 .. Len(Tape)
    <1>1. /\ feed.protocol \in {"mold", "soup", "sbe", "fix", "wsjson"}
          /\ feed.redundant \in BOOLEAN /\ feed.live \in BOOLEAN
          /\ ~Multicast => ~feed.redundant /\ feed.callbacks = {}
          /\ feed.callbacks # {} => ~feed.live
          /\ Multicast => ~feed.live
        BY DEF Feeds, Multicast
    <1> QED
        BY <1>1, TapeItems DEF Tape

\* What every message of a tape has.
LEMMA TapeMessages ==
    ASSUME feed \in Feeds, NEW j \in 1 .. Len(Tape)
    PROVE  /\ Tape[j] \in Items /\ Tape[j].stock \in Symbols
           /\ Itch => Tape[j].locate \in Locates
           /\ feed.protocol = "fix" => Tape[j].seqNum \in Nat /\ \E n \in Nat : DOMAIN Tape[j].entries = 1 .. n
           /\ feed.protocol = "wsjson" => Tape[j].records \in Nat
    <1>1. j \in DOMAIN Tape /\ Tape \in Seq(Items)
        BY FeedOfTape
    <1>2. Tape[j] \in Items
        BY <1>1, FeedOfTape, ElementOfSeq
    <1>3. Tape[j].stock \in Symbols
        BY <1>2 DEF Symbols
    <1>4. ASSUME Itch PROVE Tape[j].locate \in Locates
        <2>1. feed.protocol \in {"mold", "soup"} /\ j \in DOMAIN Tapes[feed.protocol]
            BY <1>1, <1>4 DEF Itch, Tape
        <2> QED
            BY <2>1 DEF Locates, Tape
    <1>5. ASSUME feed.protocol = "fix"
          PROVE  Tape[j].seqNum \in Nat /\ \E n \in Nat : DOMAIN Tape[j].entries = 1 .. n
        <2> DEFINE E == [seqNum : Nat, entries : Seq(STRING), stock : STRING]
        <2>1. Tape = Tapes["fix"] /\ Tapes["fix"] \in Seq(E)
            BY <1>5, TapesAssumption DEF Tape
        <2> HIDE DEF E
        <2>2. Tape[j] \in E
            BY <1>1, <2>1, ElementOfSeq
        <2>3. Tape[j].seqNum \in Nat /\ Tape[j].entries \in Seq(STRING)
            BY <2>2 DEF E
        <2>4. Len(Tape[j].entries) \in Nat /\ DOMAIN Tape[j].entries = 1 .. Len(Tape[j].entries)
            BY <2>3, LenProperties
        <2> QED
            BY <2>3, <2>4
    <1>6. ASSUME feed.protocol = "wsjson" PROVE Tape[j].records \in Nat
        <2> DEFINE E == [code : STRING, records : Nat, stock : STRING]
        <2>1. Tape = Tapes["wsjson"] /\ Tapes["wsjson"] \in Seq(E)
            BY <1>6, TapesAssumption DEF Tape
        <2> HIDE DEF E
        <2>2. Tape[j] \in E
            BY <1>1, <2>1, ElementOfSeq
        <2> QED
            BY <2>2 DEF E
    <1> QED
        BY <1>2, <1>3, <1>4, <1>5, <1>6

\* The venue adapters: the events of a message are of that message, and go by its own
\* symbol or by the directory's.
AreOf(events, e, item) ==
    /\ events \in Seq(Events)
    /\ \A i \in DOMAIN events :
          /\ events[i].item = item
          /\ ~Itch => events[i].sym = item.stock
          /\ Itch => events[i].sym = SymbolFor(e, item)
          /\ Itch /\ events[i].type = "Trade" => item.code = "P" /\ item.whole
\* Every adapter's do.
LEMMA EventsAre ==
    ASSUME feed \in Feeds, NEW j \in 1 .. Len(Tape), NEW e \in Engine, NEW item, item = Tape[j]
    PROVE  AreOf(EventsOf(e, item), e, item)
    <1>1. /\ item \in Items /\ item.stock \in Symbols /\ (Itch => item.locate \in Locates)
          /\ feed.protocol = "fix" => \E n \in Nat : DOMAIN item.entries = 1 .. n
          /\ feed.protocol = "wsjson" => item.records \in Nat
        BY TapeMessages
    <1>2. ASSUME NEW type \in EventTypes, NEW sym \in Symbols
          PROVE  /\ Event(type, sym, item) \in Events /\ Event(type, sym, item).item = item
                 /\ Event(type, sym, item).sym = sym /\ Event(type, sym, item).type = type
        BY <1>1 DEF Event, Events
    <1>3. ASSUME NEW v \in Events PROVE <<v>> \in Seq(Events) /\ DOMAIN <<v>> = {1} /\ <<v>>[1] = v
        OBVIOUS
    <1>4. <<>> \in Seq(Events) /\ DOMAIN <<>> = {}
        OBVIOUS
    <1>5. feed.protocol \in {"mold", "soup", "sbe", "fix", "wsjson"}
        BY FeedOfTape
    <1>6. CASE Itch
        <2>1. EventsOf(e, item) = ItchEvents(e, item)
            BY <1>6 DEF EventsOf, Itch
        <2>2. SymbolFor(e, item) \in Symbols
            <3>1. e.known \in [Locates -> Symbols]
                BY DEF Engine
            <3> QED
                BY <1>1, <1>6, <3>1 DEF SymbolFor
        <2>3. CASE ~ItchParsed(item)
            BY <1>4, <1>6, <2>1, <2>3 DEF ItchEvents, AreOf
        <2>4. CASE ItchParsed(item)
            <3>1. /\ item.whole /\ item.code \in {"S", "R", "A", "E", "X", "D", "P"}
                  /\ ItchTypes[item.code] \in EventTypes
                  /\ ItchTypes[item.code] = "Trade" => item.code = "P"
                BY <2>4 DEF ItchParsed, ItchTypes, EventTypes
            <3>2. PICK v : v = Event(ItchTypes[item.code], SymbolFor(e, item), item)
                OBVIOUS
            <3>3. v \in Events /\ v.item = item /\ v.sym = SymbolFor(e, item) /\ v.type = ItchTypes[item.code]
                BY <1>2, <2>2, <3>1, <3>2
            <3>4. EventsOf(e, item) = <<v>>
                BY <2>1, <2>4, <3>2 DEF ItchEvents, AreOf
            <3> QED
                BY <1>3, <1>6, <3>1, <3>3, <3>4 DEF AreOf
        <2> QED
            BY <2>3, <2>4
    <1>7. CASE feed.protocol = "sbe"
        <2>1. EventsOf(e, item) = SbeEvents(item) /\ ~Itch
            BY <1>7 DEF EventsOf, Itch
        <2>2. CASE ~SbeDecoded(item)
            BY <1>4, <2>1, <2>2 DEF SbeEvents, AreOf
        <2>3. CASE SbeDecoded(item)
            <3>1. item.code \in EventTypes
                BY <2>3 DEF SbeDecoded, SbeTemplates, EventTypes
            <3>2. PICK v : v = Event(item.code, item.stock, item)
                OBVIOUS
            <3>3. v \in Events /\ v.item = item /\ v.sym = item.stock
                BY <1>1, <1>2, <3>1, <3>2
            <3>4. EventsOf(e, item) = <<v>>
                BY <2>1, <2>3, <3>2 DEF SbeEvents
            <3> QED
                BY <1>3, <2>1, <3>3, <3>4 DEF AreOf
        <2> QED
            BY <2>2, <2>3
    <1>8. CASE feed.protocol = "fix"
        <2>1. EventsOf(e, item) = FixEvents(item) /\ ~Itch
            BY <1>8 DEF EventsOf, Itch
        <2>2. PICK n \in Nat : DOMAIN item.entries = 1 .. n
            BY <1>1, <1>8
        <2> DEFINE T(i) == IF item.entries[i] \in DOMAIN FixTypes THEN FixTypes[item.entries[i]] ELSE "none"
        <2>3. ASSUME NEW i \in 1 .. n PROVE T(i) \in EventTypes
            BY DEF FixTypes, EventTypes
        <2>4. FixEvents(item) = [i \in 1 .. n |-> Event(T(i), item.stock, item)]
            BY <2>2 DEF FixEvents
        <2> HIDE DEF T
        <2>5. ASSUME NEW i \in 1 .. n
              PROVE  /\ FixEvents(item)[i] \in Events
                     /\ FixEvents(item)[i].item = item /\ FixEvents(item)[i].sym = item.stock
            BY <1>1, <1>2, <2>3, <2>4
        <2>6. FixEvents(item) \in Seq(Events) /\ DOMAIN FixEvents(item) = 1 .. n
            BY <2>4, <2>5, SeqDef
        <2> QED
            BY <2>1, <2>5, <2>6 DEF AreOf
    <1>9. CASE feed.protocol = "wsjson"
        <2>1. EventsOf(e, item) = WsEvents(item) /\ ~Itch
            BY <1>9 DEF EventsOf, Itch
        <2>2. CASE item.code # "match"
            BY <1>4, <2>1, <2>2 DEF WsEvents, AreOf
        <2>3. CASE item.code = "match"
            <3>1. item.records \in Nat /\ "Trade" \in EventTypes
                BY <1>1, <1>9 DEF EventTypes
            <3>2. PICK n \in Nat : n = item.records
                BY <3>1
            <3>3. WsEvents(item) = [i \in 1 .. n |-> Event("Trade", item.stock, item)]
                BY <2>3, <3>2 DEF WsEvents
            <3>4. ASSUME NEW i \in 1 .. n
                  PROVE  /\ WsEvents(item)[i] \in Events
                         /\ WsEvents(item)[i].item = item /\ WsEvents(item)[i].sym = item.stock
                BY <1>1, <1>2, <3>1, <3>3
            <3>5. WsEvents(item) \in Seq(Events) /\ DOMAIN WsEvents(item) = 1 .. n
                BY <3>3, <3>4, SeqDef
            <3> QED
                BY <2>1, <3>4, <3>5 DEF AreOf
        <2> QED
            BY <2>2, <2>3
    <1> QED
        BY <1>5, <1>6, <1>7, <1>8, <1>9 DEF Itch

\* Numbers without a gap, backwards or forwards.
Sequential(q) == \A i \in 2 .. Len(q) : q[i] = q[i - 1] + 1

\* The place on the tape that has been reached, as long as nothing was lost or repeated;
\* and whether nothing was.
Place(e) == IF feed.protocol = "soup" THEN Len(e.passed)
            ELSE IF Len(e.passed) = 0 THEN 0 ELSE e.passed[Len(e.passed)]
Ordered(e) == feed.protocol = "soup" \/ Sequential(e.passed)

\* The directory has of a locate code the last symbol that the tape gave it.
Names(known, p) ==
    \A l \in Locates : known[l] # "" =>
        \E i \in 1 .. p :
            /\ Directs(Tape[i], l) /\ Tape[i].stock = known[l]
            /\ \A k \in i + 1 .. p : ~Directs(Tape[k], l)

\* A feed's trades go by their own symbols.
Own(b) == \A i \in DOMAIN b.taken : b.taken[i].sym = b.taken[i].item.stock

\* Between the start of a sequence and one of its places.
LEMMA UpToPlace ==
    ASSUME NEW j \in Nat \ {0}
    PROVE  /\ j \in 1 .. j /\ j + 1 .. j = {}
           /\ \A i \in 1 .. j - 1 : i \in 1 .. j /\ \A k \in i + 1 .. j : k = j \/ k \in i + 1 .. j - 1
    OBVIOUS

\* One message more in the directory (NasdaqItchVenueAdapter::onMessage).
LEMMA NamesOneMore ==
    ASSUME feed \in Feeds, Itch, NEW j \in Nat \ {0}, j \in DOMAIN Tape, NEW k0 \in [Locates -> Symbols], NEW k1,
           Names(k0, j - 1),
           k1 = IF ItchParsed(Tape[j]) /\ Tape[j].code = "R"
                THEN [k0 EXCEPT ![Tape[j].locate] = Tape[j].stock] ELSE k0
    PROVE  Names(k1, j)
    <1>1. Tape[j].locate \in Locates /\ j \in 1 .. j
        <2>1. j \in 1 .. Len(Tape) /\ j \in 1 .. j
            BY FeedOfTape
        <2> QED
            BY <2>1, TapeMessages
    <1>2. ItchParsed(Tape[j]) /\ Tape[j].code = "R" <=> Tape[j].code = "R" /\ Tape[j].whole
        BY DEF ItchParsed, ItchTypes
    <1> SUFFICES ASSUME NEW l \in Locates, k1[l] # ""
                 PROVE  \E i \in 1 .. j :
                            /\ Directs(Tape[i], l) /\ Tape[i].stock = k1[l]
                            /\ \A k \in i + 1 .. j : ~Directs(Tape[k], l)
        BY DEF Names
    <1>3. CASE Directs(Tape[j], l)
        <2>1. k1[l] = Tape[j].stock
            BY <1>1, <1>2, <1>3 DEF Directs
        <2>2. \A k \in j + 1 .. j : ~Directs(Tape[k], l)
            BY UpToPlace
        <2> QED
            BY <1>1, <1>3, <2>1, <2>2
    <1>4. CASE ~Directs(Tape[j], l)
        <2>1. k1[l] = k0[l]
            BY <1>1, <1>2, <1>4 DEF Directs
        <2>2. PICK i \in 1 .. j - 1 : /\ Directs(Tape[i], l) /\ Tape[i].stock = k0[l]
                                     /\ \A k \in i + 1 .. j - 1 : ~Directs(Tape[k], l)
            BY <2>1 DEF Names
        <2>3. i \in 1 .. j
            BY UpToPlace
        <2>4. ASSUME NEW k \in i + 1 .. j PROVE ~Directs(Tape[k], l)
            <3>1. k = j \/ k \in i + 1 .. j - 1
                BY UpToPlace
            <3> QED
                BY <1>4, <2>2, <3>1
        <2> QED
            BY <2>1, <2>2, <2>3, <2>4
    <1> QED
        BY <1>3, <1>4

\* What the venue's directory says of a trade's locate code.
LEMMA DirectoryIsTold ==
    ASSUME NEW f \in {"mold", "soup"}, NEW j \in DOMAIN Tapes[f], NEW i \in 1 .. j - 1,
           Tapes[f][j].code = "P", Tapes[f][j].whole, Directs(Tapes[f][i], Tapes[f][j].locate),
           \A k \in i + 1 .. j - 1 : ~Directs(Tapes[f][k], Tapes[f][j].locate)
    PROVE  Tapes[f][i].stock = Tapes[f][j].stock
    <1>1. \A h \in {"mold", "soup"} : \A x \in DOMAIN Tapes[h] : \A y \in 1 .. x - 1 :
                /\ Tapes[h][x].code = "P" /\ Tapes[h][x].whole
                /\ Directs(Tapes[h][y], Tapes[h][x].locate)
                /\ \A k \in y + 1 .. x - 1 : ~Directs(Tapes[h][k], Tapes[h][x].locate)
                => Tapes[h][y].stock = Tapes[h][x].stock
        BY TapesAssumption
    <1> QED
        BY <1>1

\* A trade goes by the directory's symbol, and that is its own (symbolFor).
LEMMA SymbolIsOwn ==
    ASSUME feed \in Feeds, Itch, NEW j \in Nat \ {0}, j \in DOMAIN Tape, NEW e, Names(e.known, j),
           Tape[j].code = "P", Tape[j].whole
    PROVE  SymbolFor(e, Tape[j]) = Tape[j].stock
    <1>1. CASE e.known[Tape[j].locate] = ""
        BY <1>1 DEF SymbolFor
    <1>2. CASE e.known[Tape[j].locate] # ""
        <2> DEFINE l == Tape[j].locate
        <2>1. l \in Locates /\ feed.protocol \in {"mold", "soup"}
            <3>1. j \in 1 .. Len(Tape)
                BY FeedOfTape
            <3> QED
                BY <3>1, TapeMessages DEF Itch
        <2>2. PICK i \in 1 .. j : /\ Directs(Tape[i], l) /\ Tape[i].stock = e.known[l]
                                  /\ \A k \in i + 1 .. j : ~Directs(Tape[k], l)
            BY <1>2, <2>1 DEF Names
        <2>3. i # j
            BY <2>2 DEF Directs
        <2>4. i \in 1 .. j - 1 /\ \A k \in i + 1 .. j - 1 : ~Directs(Tape[k], l)
            BY <2>2, <2>3
        <2>5. Tape[i].stock = Tape[j].stock
            BY <2>1, <2>2, <2>4, DirectoryIsTold DEF Tape
        <2> QED
            BY <1>2, <2>2, <2>5 DEF SymbolFor
    <1> QED
        BY <1>1, <1>2

\* What holds of the engine and the publisher between two messages.
Good(e, b) ==
    /\ e \in Engine /\ b \in Publisher /\ ToldOnce(e)
    /\ feed.redundant => Windowed(e)
    /\ feed.callbacks = {} => e.asked = {}
    /\ Multicast => /\ e.expected <= Len(Tape) + 1
                    /\ \A i \in 1 .. Len(e.passed) : e.passed[i] \in 1 .. Len(Tape)
    /\ Itch /\ Ordered(e) => Names(e.known, Place(e))
    /\ (Itch => Ordered(e)) => Own(b)
    /\ ~b.raced => Held(b)

\* The publisher has taken something or is as it was.
Grown(b, c) ==
    /\ Len(c.taken) >= Len(b.taken)
    /\ Len(c.taken) = Len(b.taken) => c.batch = b.batch /\ c.taken = b.taken

\* One message after another.
LEMMA GrownTwice ==
    ASSUME NEW b \in Publisher, NEW c \in Publisher, NEW d \in Publisher, Grown(b, c), Grown(c, d)
    PROVE  Grown(b, d)
    <1>1. PICK x \in Nat, y \in Nat, z \in Nat :
              x = Len(b.taken) /\ y = Len(c.taken) /\ z = Len(d.taken)
        <2>1. b.taken \in Seq(Events) /\ c.taken \in Seq(Events) /\ d.taken \in Seq(Events)
            BY DEF Publisher
        <2> QED
            BY <2>1, LenProperties
    <1>2. y >= x /\ z >= y
        BY <1>1 DEF Grown
    <1>3. z >= x /\ (z = x => z = y /\ y = x)
        BY <1>2
    <1> QED
        BY <1>1, <1>3 DEF Grown

\* No message at all.
LEMMA GrownNot ==
    ASSUME NEW b \in Publisher
    PROVE  Grown(b, b)
    <1>1. PICK x \in Nat : x = Len(b.taken)
        <2>1. b.taken \in Seq(Events)
            BY DEF Publisher
        <2> QED
            BY <2>1, LenProperties
    <1>2. x >= x
        OBVIOUS
    <1> QED
        BY <1>1, <1>2 DEF Grown

\* TrackedVenueSink::onMessage, with all it calls.
LEMMA MessageKeeps ==
    ASSUME feed \in Feeds, NEW s, Good(s.e, s.b), NEW m, NEW j \in 1 .. Len(Tape), m.item = Tape[j],
           m.n \in Nat, Multicast => m.n = j, feed.protocol = "soup" => j = Len(s.e.passed) + 1,
           NEW t, t = OnMessage(s, m)
    PROVE  /\ Good(t.e, t.b) /\ Grown(s.b, t.b)
           /\ t.e.got = s.e.got /\ t.b.raced = s.b.raced
           /\ ~feed.redundant => Len(t.e.passed) = Len(s.e.passed) + 1
    <1>0. /\ feed.redundant \in BOOLEAN /\ (~Multicast => ~feed.redundant /\ feed.callbacks = {})
          /\ Len(Tape) \in Nat /\ j \in Nat /\ 1 <= j /\ j <= Len(Tape)
          /\ s.e \in Engine /\ s.b \in Publisher
          /\ s.e.expected \in Nat \ {0} /\ s.e.passed \in Seq(Nat) /\ s.e.known \in [Locates -> Symbols]
        BY FeedOfTape DEF Good, Engine
    <1>1. CASE Duplicate(s.e, m.n)
        <2>1. t = s /\ feed.redundant
            BY <1>1 DEF OnMessage, Duplicate
        <2>2. Grown(s.b, s.b)
            BY <1>0, GrownNot
        <2> QED
            BY <2>1, <2>2
    <1>2. CASE ~Duplicate(s.e, m.n)
        <2>1. PICK e : e = t.e
            OBVIOUS
        <2>2. /\ e \in Engine
              /\ e.expected = Tracked(s.e, m.n).expected
              /\ e.told = Tracked(s.e, m.n).told
              /\ e.asked = Tracked(s.e, m.n).asked
              /\ e.got = s.e.got
              /\ e.seen = IF feed.redundant THEN Remembered(s.e.seen, m.n) ELSE s.e.seen
              /\ e.passed = s.e.passed \o <<m.n>>
              /\ e.known = IF Itch /\ ItchParsed(m.item) /\ m.item.code = "R"
                           THEN [s.e.known EXCEPT ![m.item.locate] = m.item.stock] ELSE s.e.known
              /\ t.b = OnEvents(s.b, EventsOf(e, m.item))
            <3>1. Itch => m.item.locate \in Locates /\ m.item.stock \in Symbols
                BY TapeMessages
            <3>2. e = OnMessage(s, m).e /\ t.b = OnMessage(s, m).b
                BY <2>1
            <3>3. s.e \in Engine
                BY <1>0
            <3>4. Moved(s, m, e)
                BY <1>2, <3>1, <3>2, <3>3, OnMessageFields
            <3> QED
                BY <3>2, <3>4 DEF Moved
        <2>3. /\ Len(e.passed) = Len(s.e.passed) + 1 /\ Len(s.e.passed) \in Nat
              /\ DOMAIN s.e.passed = 1 .. Len(s.e.passed)
              /\ \A i \in 1 .. Len(s.e.passed) : e.passed[i] = s.e.passed[i]
              /\ e.passed[Len(s.e.passed) + 1] = m.n
            BY <1>0, <2>2, PassedOneMore
        <2>4. ToldOnce(e)
            BY <1>0, <2>2, TrackedTells DEF Good
        <2>5. ASSUME feed.redundant PROVE Windowed(e)
            <3>1. Windowed(s.e) /\ m.n \notin Range(s.e.seen)
                BY <1>2, <2>5 DEF Good, Duplicate
            <3> QED
                BY <1>0, <2>2, <2>5, <3>1, ArbiterRemembers
        <2>6. ASSUME feed.callbacks = {} PROVE e.asked = {}
            <3>1. s.e.asked = {}
                BY <2>6 DEF Good
            <3>2. CASE m.n = 0 \/ m.n <= s.e.expected
                BY <1>0, <2>2, <3>1, <3>2, TrackedFields
            <3>3. CASE ~(m.n = 0 \/ m.n <= s.e.expected)
                <4>1. s.e.expected < m.n
                    BY <1>0, <3>3
                <4>2. Request(s.e.expected, m.n) = {}
                    BY <1>0, <2>6, <4>1, RequestIsOfGap
                <4>3. Tracked(s.e, m.n).asked = s.e.asked \cup Request(s.e.expected, m.n)
                    BY <1>0, <3>3, TrackedFields
                <4> QED
                    BY <2>2, <3>1, <4>2, <4>3
            <3> QED
                BY <3>2, <3>3
        <2>7. ASSUME Multicast
              PROVE  /\ e.expected <= Len(Tape) + 1
                     /\ \A i \in 1 .. Len(e.passed) : e.passed[i] \in 1 .. Len(Tape)
            <3>1. e.expected \in {s.e.expected, j + 1}
                <4>1. Tracked(s.e, m.n).expected = IF m.n = 0 \/ m.n < s.e.expected THEN s.e.expected ELSE m.n + 1
                    BY <1>0, TrackedFields
                <4> QED
                    BY <2>2, <2>7, <4>1
            <3>2. s.e.expected <= Len(Tape) + 1 /\ \A i \in 1 .. Len(s.e.passed) : s.e.passed[i] \in 1 .. Len(Tape)
                BY <2>7 DEF Good
            <3>3. e.expected <= Len(Tape) + 1
                BY <1>0, <3>1, <3>2
            <3>4. ASSUME NEW i \in 1 .. Len(e.passed) PROVE e.passed[i] \in 1 .. Len(Tape)
                <4>1. i \in 1 .. Len(s.e.passed) \/ i = Len(s.e.passed) + 1
                    BY <2>3
                <4> QED
                    BY <2>3, <2>7, <3>2, <4>1
            <3> QED
                BY <3>3, <3>4
        <2>8. Ordered(e) => Ordered(s.e)
            <3>1. ASSUME Sequential(e.passed) PROVE Sequential(s.e.passed)
                <4>1. ASSUME NEW i \in 2 .. Len(s.e.passed) PROVE s.e.passed[i] = s.e.passed[i - 1] + 1
                    <5>1. i \in 1 .. Len(s.e.passed) /\ i - 1 \in 1 .. Len(s.e.passed) /\ i \in 2 .. Len(e.passed)
                        BY <2>3
                    <5> QED
                        BY <2>3, <3>1, <5>1 DEF Sequential
                <4> QED
                    BY <4>1 DEF Sequential
            <3> QED
                BY <3>1 DEF Ordered
        <2>9. ASSUME Itch, Ordered(e) PROVE Place(e) = j /\ Names(e.known, j)
            <3>1. Names(s.e.known, Place(s.e))
                BY <2>8, <2>9 DEF Good
            <3>2. Place(e) = j
                <4>1. CASE feed.protocol = "soup"
                    BY <2>3, <4>1 DEF Place
                <4>2. CASE feed.protocol = "mold"
                    <5>1. m.n = j /\ Len(e.passed) # 0
                        BY <2>3, <4>2 DEF Multicast
                    <5> QED
                        BY <2>3, <4>2, <5>1 DEF Place
                <4> QED
                    BY <2>9, <4>1, <4>2 DEF Itch
            <3>3. Names(s.e.known, j - 1)
                <4>1. CASE feed.protocol = "soup"
                    <5>1. Place(s.e) = j - 1
                        BY <1>0, <2>3, <4>1 DEF Place
                    <5> QED
                        BY <3>1, <5>1
                <4>2. CASE feed.protocol = "mold" /\ Len(s.e.passed) = 0
                    <5>1. Place(s.e) = 0
                        BY <4>2 DEF Place
                    <5>2. \A l \in Locates : s.e.known[l] = ""
                        <6>1. Names(s.e.known, 0)
                            BY <3>1, <5>1
                        <6>2. 1 .. 0 = {}
                            OBVIOUS
                        <6> QED
                            BY <6>1, <6>2 DEF Names
                    <5> QED
                        BY <5>2 DEF Names
                <4>3. CASE feed.protocol = "mold" /\ Len(s.e.passed) # 0
                    <5>1. Place(s.e) = s.e.passed[Len(s.e.passed)]
                        BY <4>3 DEF Place
                    <5>2. e.passed[Len(s.e.passed) + 1] = e.passed[(Len(s.e.passed) + 1) - 1] + 1
                        <6>1. Len(s.e.passed) + 1 \in 2 .. Len(e.passed)
                            BY <2>3, <4>3
                        <6> QED
                            BY <2>9, <4>3, <6>1 DEF Ordered, Sequential
                    <5>3. e.passed[(Len(s.e.passed) + 1) - 1] = s.e.passed[Len(s.e.passed)]
                        <6>1. (Len(s.e.passed) + 1) - 1 = Len(s.e.passed) /\ Len(s.e.passed) \in 1 .. Len(s.e.passed)
                            BY <2>3, <4>3
                        <6> QED
                            BY <2>3, <6>1
                    <5>4. s.e.passed[Len(s.e.passed)] \in Nat /\ m.n = j
                        <6>1. Len(s.e.passed) \in 1 .. Len(s.e.passed)
                            BY <2>3, <4>3
                        <6> QED
                            BY <1>0, <4>3, <6>1, ElementOfSeq DEF Multicast
                    <5>5. PICK x \in Nat : x = s.e.passed[Len(s.e.passed)]
                        BY <5>4
                    <5>6. j = x + 1
                        BY <2>3, <5>2, <5>3, <5>4, <5>5
                    <5>7. x = j - 1
                        BY <1>0, <5>6
                    <5> QED
                        BY <3>1, <5>1, <5>5, <5>7
                <4> QED
                    BY <2>9, <4>1, <4>2, <4>3 DEF Itch
            <3>4. e.known = IF ItchParsed(Tape[j]) /\ Tape[j].code = "R"
                            THEN [s.e.known EXCEPT ![Tape[j].locate] = Tape[j].stock] ELSE s.e.known
                BY <2>2, <2>9
            <3> QED
                <4>1. PICK k0, k1 : k0 = s.e.known /\ k1 = e.known
                    OBVIOUS
                <4>2. k0 \in [Locates -> Symbols] /\ Names(k0, j - 1)
                    BY <1>0, <3>3, <4>1
                <4>3. k1 = IF ItchParsed(Tape[j]) /\ Tape[j].code = "R"
                           THEN [k0 EXCEPT ![Tape[j].locate] = Tape[j].stock] ELSE k0
                    BY <3>4, <4>1
                <4>4. j \in Nat \ {0} /\ j \in DOMAIN Tape
                    BY <1>0, FeedOfTape
                <4>5. Names(k1, j)
                    BY <2>9, <4>2, <4>3, <4>4, NamesOneMore
                <4> QED
                    BY <3>2, <4>1, <4>5
        <2> DEFINE events == EventsOf(e, m.item)
        <2>10. /\ events \in Seq(Events)
               /\ \A i \in DOMAIN events :
                    /\ events[i].item = m.item
                    /\ ~Itch => events[i].sym = m.item.stock
                    /\ Itch => events[i].sym = SymbolFor(e, m.item)
                    /\ Itch /\ events[i].type = "Trade" => m.item.code = "P" /\ m.item.whole
            <3>1. e \in Engine
                BY <2>2
            <3>2. PICK item : item = m.item
                OBVIOUS
            <3>3. item = Tape[j]
                BY <3>2
            <3>4. PICK ev : ev = EventsOf(e, item)
                OBVIOUS
            <3>5. AreOf(ev, e, item)
                BY <3>1, <3>3, <3>4, EventsAre
            <3> QED
                BY <3>2, <3>4, <3>5 DEF AreOf
        <2> HIDE DEF events
        <2>11. Took(s.b, t.b, events)
            <3>1. t.b = OnEvents(s.b, events)
                BY <2>2 DEF events
            <3> QED
                BY <1>0, <2>10, <3>1, EventsTaken
        <2>12. ASSUME Itch => Ordered(e) PROVE Own(t.b)
            <3>1. Own(s.b)
                BY <2>8, <2>12 DEF Good
            <3>2. ASSUME NEW i \in DOMAIN t.b.taken PROVE t.b.taken[i].sym = t.b.taken[i].item.stock
                <4>1. CASE \E k \in DOMAIN s.b.taken : t.b.taken[i] = s.b.taken[k]
                    BY <3>1, <4>1 DEF Own
                <4>2. CASE \E k \in DOMAIN events : t.b.taken[i] = events[k] /\ events[k].type = "Trade"
                    <5>1. PICK k \in DOMAIN events : t.b.taken[i] = events[k] /\ events[k].type = "Trade"
                        BY <4>2
                    <5>2. CASE ~Itch
                        BY <2>10, <5>1, <5>2
                    <5>3. CASE Itch
                        <6>1. SymbolFor(e, Tape[j]) = Tape[j].stock
                            <7>1. Names(e.known, j) /\ Tape[j].code = "P" /\ Tape[j].whole
                                BY <2>9, <2>10, <2>12, <5>1, <5>3
                            <7> QED
                                BY <1>0, <5>3, <7>1, FeedOfTape, SymbolIsOwn
                        <6> QED
                            BY <2>10, <5>1, <5>3, <6>1
                    <5> QED
                        BY <5>2, <5>3
                <4> QED
                    BY <2>11, <4>1, <4>2 DEF Took
            <3> QED
                BY <3>2 DEF Own
        <2>13. /\ t.b \in Publisher /\ t.b.raced = s.b.raced /\ (Held(s.b) => Held(t.b))
               /\ Grown(s.b, t.b)
            BY <2>11 DEF Took, Grown
        <2>14. ~t.b.raced => Held(t.b)
            BY <2>13 DEF Good
        <2>15. Good(e, t.b)
            BY <2>2, <2>4, <2>5, <2>6, <2>7, <2>9, <2>12, <2>13, <2>14 DEF Good
        <2> QED
            BY <2>1, <2>2, <2>3, <2>13, <2>15
    <1> QED
        BY <1>1, <1>2

-----------------------------------------------------------------------------
(* The feed handler's packets *)

\* A packet that holds the items of the tape between two places.
IsPacket(p, from, to) ==
    /\ p.from = from /\ p.items = SubSeq(Tape, from, to)
    /\ from - 1 <= to /\ to <= Len(Tape)

\* n messages, from a place of the tape on.
MessagesOf(ms, from, n) ==
    /\ DOMAIN ms = 1 .. n
    /\ \A i \in 1 .. n :
          /\ ms[i].item = Tape[from + i - 1] /\ ms[i].n \in Nat
          /\ from + i - 1 \in 1 .. Len(Tape)
          /\ Multicast => ms[i].n = from + i - 1

\* The decoders yield the items of a packet, in order, and multicast ones with their numbers.
LEMMA PacketMessages ==
    ASSUME feed \in Feeds, eng \in Engine, NEW from \in Nat \ {0}, NEW to \in Nat, NEW p,
           IsPacket(p, from, to), NEW n \in Nat, n = to - from + 1
    PROVE  MessagesOf(Messages(p), from, n)
    <1>0. PICK l \in Nat : l = Len(Tape)
        BY FeedOfTape
    <1>1. to <= l /\ from - 1 <= to
        BY <1>0 DEF IsPacket
    <1>2. DOMAIN p.items = 1 .. n /\ \A i \in 1 .. n : p.items[i] = Tape[from + i - 1]
        <2>1. from \in 1 .. l + 1 /\ to \in from - 1 .. l
            BY <1>1
        <2>2. from \in 1 .. Len(Tape) + 1 /\ to \in from - 1 .. Len(Tape) /\ Tape \in Seq(Items)
            BY <1>0, <2>1, FeedOfTape
        <2>3. /\ SubSeq(Tape, from, to) \in Seq(Items)
              /\ Len(SubSeq(Tape, from, to)) = to - from + 1
              /\ \A i \in 1 .. to - from + 1 : SubSeq(Tape, from, to)[i] = Tape[from + i - 1]
            BY <2>2, SubSeqProperties
        <2>4. DOMAIN SubSeq(Tape, from, to) = 1 .. Len(SubSeq(Tape, from, to))
            BY <2>3, LenProperties
        <2> QED
            BY <2>3, <2>4 DEF IsPacket
    <1>3. ASSUME NEW i \in 1 .. n PROVE from + i - 1 \in 1 .. Len(Tape)
        <2>1. from + i - 1 \in 1 .. l
            BY <1>1
        <2> QED
            BY <1>0, <2>1
    <1>4. ASSUME NEW x, NEW y PROVE Msg(x, y).n = x /\ Msg(x, y).item = y
        BY DEF Msg
    <1>5. p.from = from
        BY DEF IsPacket
    <1>6. ASSUME NEW i \in 1 .. n PROVE from + i - 1 \in Nat
        OBVIOUS
    <1>7. CASE feed.protocol = "mold"
        <2>1. Messages(p) = [i \in 1 .. n |-> Msg(from + i - 1, p.items[i])]
            BY <1>2, <1>5, <1>7 DEF Messages, MoldMessages
        <2>2. ASSUME NEW i \in 1 .. n
              PROVE  Messages(p)[i].item = p.items[i] /\ Messages(p)[i].n = from + i - 1
            BY <1>4, <2>1
        <2>3. DOMAIN Messages(p) = 1 .. n
            BY <2>1
        <2> QED
            BY <1>2, <1>3, <1>6, <2>2, <2>3 DEF MessagesOf
    <1>8. CASE feed.protocol = "sbe"
        <2>1. Messages(p) = [i \in 1 .. n |-> Msg(from + i - 1, p.items[i])]
            BY <1>2, <1>5, <1>8 DEF Messages, SbeMessages
        <2>2. ASSUME NEW i \in 1 .. n
              PROVE  Messages(p)[i].item = p.items[i] /\ Messages(p)[i].n = from + i - 1
            BY <1>4, <2>1
        <2>3. DOMAIN Messages(p) = 1 .. n
            BY <2>1
        <2> QED
            BY <1>2, <1>3, <1>6, <2>2, <2>3 DEF MessagesOf
    <1>9. CASE feed.protocol = "soup"
        <2> DEFINE numbered(i) == Cardinality({j \in 1 .. i : p.items[j].framed = "S"})
                   N(i) == IF p.items[i].framed = "S" THEN eng.expected + numbered(i) - 1 ELSE 0
        <2>1. ASSUME NEW i \in 1 .. n PROVE N(i) \in Nat
            <3>1. IsFiniteSet(1 .. i) /\ {j \in 1 .. i : p.items[j].framed = "S"} \in SUBSET (1 .. i)
                BY FS_Interval
            <3>2. numbered(i) \in Nat
                BY <3>1, FS_Subset, FS_CardinalityType
            <3> HIDE DEF numbered
            <3>3. eng.expected \in Nat \ {0}
                BY DEF Engine
            <3>4. eng.expected + numbered(i) - 1 \in Nat
                BY <3>2, <3>3
            <3> QED
                BY <3>4
        <2>2. Messages(p) = [i \in 1 .. n |-> Msg(N(i), p.items[i])]
            BY <1>2, <1>9 DEF Messages, SoupMessages
        <2> HIDE DEF N
        <2>3. ~Multicast
            BY <1>9 DEF Multicast
        <2>4. ASSUME NEW i \in 1 .. n
              PROVE  Messages(p)[i].item = p.items[i] /\ Messages(p)[i].n \in Nat
            BY <1>4, <2>1, <2>2
        <2>5. DOMAIN Messages(p) = 1 .. n
            BY <2>2
        <2> QED
            BY <1>2, <1>3, <2>3, <2>4, <2>5 DEF MessagesOf
    <1>10. CASE feed.protocol = "fix"
        <2>1. Messages(p) = [i \in 1 .. n |-> Msg(p.items[i].seqNum, p.items[i])]
            BY <1>2, <1>10 DEF Messages, FixMessages
        <2>2. ASSUME NEW i \in 1 .. n PROVE p.items[i].seqNum \in Nat
            <3>1. from + i - 1 \in 1 .. Len(Tape) /\ p.items[i] = Tape[from + i - 1]
                BY <1>2, <1>3
            <3>2. PICK j \in 1 .. Len(Tape) : j = from + i - 1
                BY <3>1
            <3> QED
                BY <1>10, <3>1, <3>2, TapeMessages
        <2>3. ~Multicast
            BY <1>10 DEF Multicast
        <2>4. ASSUME NEW i \in 1 .. n
              PROVE  Messages(p)[i].item = p.items[i] /\ Messages(p)[i].n \in Nat
            BY <1>4, <2>1, <2>2
        <2>5. DOMAIN Messages(p) = 1 .. n
            BY <2>1
        <2> QED
            BY <1>2, <1>3, <2>3, <2>4, <2>5 DEF MessagesOf
    <1>11. CASE feed.protocol = "wsjson"
        <2>1. Messages(p) = [i \in 1 .. n |-> Msg(0, p.items[i])]
            BY <1>2, <1>11 DEF Messages, WsMessages
        <2>2. ~Multicast
            BY <1>11 DEF Multicast
        <2> QED
            <3>1. ASSUME NEW i \in 1 .. n
                  PROVE  Messages(p)[i].item = p.items[i] /\ Messages(p)[i].n = 0
                BY <1>4, <2>1
            <3>2. DOMAIN Messages(p) = 1 .. n /\ 0 \in Nat
                BY <2>1
            <3> QED
                BY <1>2, <1>3, <2>2, <3>1, <3>2 DEF MessagesOf
    <1> QED
        BY <1>7, <1>8, <1>9, <1>10, <1>11, FeedOfTape

\* What a packet leaves of the engine and the publisher, after i of its messages.
Keeps(s, i) ==
    /\ Good(s.e, s.b) /\ Grown(pub, s.b)
    /\ s.e.got = eng.got /\ s.b.raced = pub.raced
    /\ ~feed.redundant => Len(s.e.passed) = Len(eng.passed) + i

\* A whole packet (VenueSession::onPacket, the decoders' loops).
LEMMA PacketKeeps ==
    ASSUME feed \in Feeds, Good(eng, pub), NEW from \in Nat \ {0}, NEW to \in Nat, NEW p,
           IsPacket(p, from, to), NEW n \in Nat, n = to - from + 1,
           feed.protocol = "soup" => from = Len(eng.passed) + 1
    PROVE  Keeps(OnMessages(Messages(p)), n)
    <1> DEFINE ms == Messages(p)
    <1>1. MessagesOf(ms, from, n)
        BY PacketMessages DEF Good
    <1> HIDE DEF ms
    <1>2. PICK f : MessagesStep(f, ms, n)
        BY <1>1, OnMessageFolds DEF MessagesOf
    <1>3. f[0] = Now /\ OnMessages(ms) = f[n] /\ \A i \in 1 .. n : f[i] = OnMessage(f[i - 1], ms[i])
        BY <1>2 DEF MessagesStep
    <1> DEFINE S == {i \in 0 .. n : ~Keeps(f[i], i)}
    <1>4. S = {}
        <2>1. SUFFICES ASSUME S # {} PROVE FALSE
            OBVIOUS
        <2>2. PICK i \in S : \A y \in S : i <= y
            <3>1. S \in SUBSET Nat
                OBVIOUS
            <3> HIDE DEF S
            <3> QED
                BY <2>1, <3>1, LeastNat
        <2>3. i \in 0 .. n /\ ~Keeps(f[i], i)
            OBVIOUS
        <2>4. CASE i = 0
            <3>1. Now.e = eng /\ Now.b = pub
                BY DEF Now
            <3>2. Grown(pub, pub)
                BY GrownNot DEF Good
            <3>3. Len(eng.passed) = Len(eng.passed) + 0
                <4>1. eng.passed \in Seq(Nat)
                    BY DEF Good, Engine
                <4>2. Len(eng.passed) \in Nat
                    BY <4>1, LenProperties
                <4> QED
                    BY <4>2
            <3>4. Keeps(Now, 0)
                BY <3>1, <3>2, <3>3 DEF Keeps
            <3> QED
                BY <1>3, <2>3, <2>4, <3>4
        <2>5. CASE i # 0
            <3>1. i \in 1 .. n /\ i - 1 \in 0 .. n /\ ~(i <= i - 1)
                BY <2>3, <2>5
            <3>2. i - 1 \notin S
                <4> HIDE DEF S
                <4> QED
                    BY <2>2, <3>1
            <3>3. PICK s : s = f[i - 1]
                OBVIOUS
            <3>4. Keeps(s, i - 1)
                BY <3>1, <3>2, <3>3
            <3>5. PICK t : t = OnMessage(s, ms[i])
                OBVIOUS
            <3>6. t = f[i]
                BY <1>3, <3>1, <3>3, <3>5
            <3>7. PICK j \in 1 .. Len(Tape) : j = from + i - 1
                BY <1>1, <3>1 DEF MessagesOf
            <3>8. ms[i].item = Tape[j] /\ ms[i].n \in Nat /\ (Multicast => ms[i].n = j)
                BY <1>1, <3>1, <3>7 DEF MessagesOf
            <3>9. PICK a \in Nat, c \in Nat : a = Len(eng.passed) /\ c = Len(s.e.passed)
                <4>1. eng.passed \in Seq(Nat) /\ s.e.passed \in Seq(Nat)
                    BY <3>4 DEF Keeps, Good, Engine
                <4> QED
                    BY <4>1, LenProperties
            <3>10. ~feed.redundant => c = a + (i - 1)
                BY <3>4, <3>9 DEF Keeps
            <3>11. feed.protocol = "soup" => j = Len(s.e.passed) + 1
                <4>1. feed.protocol = "soup" => ~feed.redundant /\ from = a + 1
                    BY <3>9, FeedOfTape DEF Multicast
                <4>2. feed.protocol = "soup" => j = c + 1
                    BY <3>1, <3>7, <3>10, <4>1
                <4> QED
                    BY <3>9, <4>2
            <3>12. /\ Good(t.e, t.b) /\ Grown(s.b, t.b)
                   /\ t.e.got = s.e.got /\ t.b.raced = s.b.raced
                   /\ ~feed.redundant => Len(t.e.passed) = Len(s.e.passed) + 1
                <4>1. Good(s.e, s.b)
                    BY <3>4 DEF Keeps
                <4>2. PICK m : m = ms[i]
                    OBVIOUS
                <4>3. m.item = Tape[j] /\ m.n \in Nat /\ (Multicast => m.n = j) /\ t = OnMessage(s, m)
                    BY <3>5, <3>8, <4>2
                <4> QED
                    BY <3>11, <4>1, <4>3, MessageKeeps
            <3>13. ~feed.redundant => Len(t.e.passed) = Len(eng.passed) + i
                <4>1. ~feed.redundant => Len(t.e.passed) = a + i
                    <5>1. ~feed.redundant => Len(t.e.passed) = c + 1
                        BY <3>9, <3>12
                    <5>2. ~feed.redundant => c + 1 = a + i
                        BY <3>1, <3>10
                    <5> QED
                        BY <5>1, <5>2
                <4> QED
                    BY <3>9, <4>1
            <3>14. Grown(pub, t.b)
                <4>1. Grown(pub, s.b) /\ s.b \in Publisher /\ t.b \in Publisher /\ pub \in Publisher
                    BY <3>4, <3>12 DEF Keeps, Good
                <4> QED
                    BY <3>12, <4>1, GrownTwice
            <3>15. Keeps(t, i)
                BY <3>4, <3>12, <3>13, <3>14 DEF Keeps
            <3> QED
                BY <2>3, <3>6, <3>15
        <2> QED
            BY <2>4, <2>5
    <1>5. n \in 0 .. n
        OBVIOUS
    <1>6. Keeps(f[n], n)
        BY <1>4, <1>5
    <1> QED
        BY <1>3, <1>6 DEF ms

-----------------------------------------------------------------------------
(* The feed handler's invariant *)

\* What the updates outside of OnMessage leave of it: a chunk of a stream that is counted.
LEMMA GoodGot ==
    ASSUME NEW e, NEW b, Good(e, b), NEW g \in Nat, NEW f, f = [e EXCEPT !.got = g]
    PROVE  Good(f, b) /\ f.got = g /\ f.passed = e.passed
    <1>1. e \in Engine
        BY DEF Good
    <1>2. /\ f \in Engine /\ f.got = g /\ f.passed = e.passed /\ f.told = e.told /\ f.asked = e.asked
          /\ f.seen = e.seen /\ f.known = e.known /\ f.expected = e.expected
        BY <1>1 DEF Engine
    <1> QED
        BY <1>2 DEF Good, ToldOnce, Windowed, Ordered, Place
\* The recovery manager's markRecovered.
LEMMA GoodAsked ==
    ASSUME NEW e, NEW b, Good(e, b), NEW a \in SUBSET e.asked, NEW f,
           f = [e EXCEPT !.asked = a, !.state = "LIVE"]
    PROVE  Good(f, b) /\ f.got = e.got /\ f.passed = e.passed
    <1>1. e \in Engine /\ e.asked \in SUBSET (Nat \X Nat)
        BY DEF Good, Engine
    <1>2. PICK d \in SUBSET (Nat \X Nat) : d = a
        BY <1>1
    <1>3. PICK e1 \in Engine : e1 = [e EXCEPT !.asked = d]
        BY <1>1 DEF Engine
    <1>4. f = [e1 EXCEPT !.state = "LIVE"]
        BY <1>1, <1>2, <1>3 DEF Engine
    <1>5. /\ e1.got = e.got /\ e1.passed = e.passed /\ e1.told = e.told /\ e1.asked = a
          /\ e1.seen = e.seen /\ e1.known = e.known /\ e1.expected = e.expected
        BY <1>1, <1>2, <1>3 DEF Engine
    <1>6. /\ f \in Engine /\ f.got = e.got /\ f.passed = e.passed /\ f.told = e.told /\ f.asked = a
          /\ f.seen = e.seen /\ f.known = e.known /\ f.expected = e.expected
        BY <1>4, <1>5 DEF Engine
    <1>7. ToldOnce(f)
        <2>1. ToldOnce(e)
            BY DEF Good
        <2> QED
            BY <1>6, <2>1 DEF ToldOnce
    <1>8. feed.callbacks = {} => f.asked = {}
        BY <1>6 DEF Good
    <1>9. feed.redundant => Windowed(f)
        BY <1>6 DEF Good, Windowed
    <1>10. Itch /\ Ordered(f) => Names(f.known, Place(f))
        BY <1>6 DEF Good, Ordered, Place
    <1>11. (Itch => Ordered(f)) => Own(b)
        BY <1>6 DEF Good, Ordered
    <1> QED
        BY <1>6, <1>7, <1>8, <1>9, <1>10, <1>11 DEF Good
\* A flush by the main thread.
LEMMA GoodPublisher ==
    ASSUME NEW e, NEW b, Good(e, b), NEW c \in Publisher, c.taken = b.taken, ~c.raced => Held(c)
    PROVE  Good(e, c)
    BY DEF Good, Own

\* The configuration of a feed does not change.
LEMMA GoodNext ==
    ASSUME feed' = feed, NEW e, NEW b, Good(e, b), eng' = e, pub' = b
    PROVE  Good(eng, pub)'
    BY DEF Good, ToldOnce, Windowed, Ordered, Place, Own, Held, Names, Itch, Multicast, Tape, Sequential

FhInv ==
    /\ feed \in Feeds /\ tape \in Nat /\ tape <= Len(Tape)
    /\ Good(eng, pub)
    /\ \A p \in air : \E from \in Nat \ {0}, to \in Nat : IsPacket(p, from, to)
    /\ flushing \in SUBSET Seq(Events)
    /\ ~pub.raced => flushing \in SUBSET {pub.batch}
    /\ ~Multicast => eng.got <= 2 * tape
    /\ ~Multicast /\ ~feed.live => Len(eng.passed) = eng.got \div 2

\* A feed begins with nothing.
LEMMA FhStarts ==
    ASSUME NEW config \in Feeds, NEW budget, FhStart(config, budget)
    PROVE  FhInv
    <1>1. /\ feed \in Feeds /\ feed = config /\ tape = 0 /\ air = {} /\ flushing = {}
          /\ eng.expected = 1 /\ eng.got = 0 /\ eng.told = {} /\ eng.asked = {} /\ eng.seen = <<>>
          /\ eng.passed = <<>> /\ eng.known = [l \in Locates |-> ""]
          /\ pub.batch = <<>> /\ pub.failures = 0 /\ pub.published = 0 /\ pub.tp = <<>>
          /\ pub.gone = <<>> /\ pub.taken = <<>> /\ pub.raced = FALSE
        BY DEF FhStart
    <1>2. Len(Tape) \in Nat
        BY <1>1, FeedOfTape
    <1>3. eng \in Engine
        <2>1. PICK k \in [Locates -> Symbols] : k = [l \in Locates |-> ""]
            <3>1. "" \in Symbols
                BY DEF Symbols
            <3> QED
                BY <3>1
        <2>2. PICK st \in {"CONNECTING", "LIVE", "RECOVERING"} : st = StartState
            BY DEF StartState
        <2>3. eng = [expected |-> 1, state |-> st, got |-> 0, told |-> {}, asked |-> {},
                     seen |-> <<>>, passed |-> <<>>, known |-> k]
            BY <2>1, <2>2 DEF FhStart
        <2>4. <<>> \in Seq(Nat)
            OBVIOUS
        <2> QED
            BY <2>3, <2>4 DEF Engine
    <1>4. pub \in Publisher
        <2>1. <<>> \in Seq(Events)
            OBVIOUS
        <2> QED
            BY <2>1 DEF FhStart, Publisher
    <1>5. ToldOnce(eng)
        <2>1. eng.told = {} /\ eng.asked = {}
            BY <1>1
        <2>2. 1 .. eng.expected - 1 = {}
            <3>1. eng.expected = 1
                BY <1>1
            <3>2. 1 .. 1 - 1 = {}
                OBVIOUS
            <3> QED
                BY <3>1, <3>2
        <2> QED
            BY <2>1, <2>2 DEF ToldOnce
    <1>6. Windowed(eng)
        <2>1. Len(<<>>) = 0 /\ DedupWindow \in Nat /\ 0 <= 0
            BY FhAssumption
        <2>2. PICK z \in Nat : z = 0 /\ z <= z /\ z <= DedupWindow /\ 1 .. z = {}
            <3>1. 0 <= 0 /\ 0 <= DedupWindow /\ 1 .. 0 = {}
                BY <2>1
            <3> QED
                BY <3>1
        <2>3. Len(eng.seen) = z /\ Len(eng.passed) = z
            BY <1>1, <2>1, <2>2
        <2> QED
            BY <2>2, <2>3 DEF Windowed
    <1>7. Names(eng.known, Place(eng))
        BY <1>1 DEF Names
    <1>8. Own(pub)
        <2>1. pub.taken = <<>>
            BY <1>1
        <2>2. DOMAIN <<>> = {}
            OBVIOUS
        <2> QED
            BY <2>1, <2>2 DEF Own
    <1>9. Held(pub)
        <2>1. \A x : Count(<<>>, x) = 0
            <3>1. ASSUME NEW x PROVE {i \in DOMAIN <<>> : <<>>[i] = x} = {}
                OBVIOUS
            <3> QED
                BY <3>1, FS_EmptySet DEF Count
        <2>2. /\ pub.taken = <<>> /\ pub.tp = <<>> /\ pub.gone = <<>> /\ pub.batch = <<>>
              /\ pub.published = 0 /\ Len(<<>>) = 0
            BY <1>1
        <2>3. \A x : Count(pub.taken, x) = Count(pub.tp, x) + Count(pub.gone, x) + Count(pub.batch, x)
            BY <2>1, <2>2
        <2>4. 0 <= 0 /\ 0 <= 0 + 0 /\ ~(0 < 0 + 0)
            OBVIOUS
        <2>5. /\ Len(pub.tp) <= pub.published /\ pub.published <= Len(pub.tp) + Len(pub.gone)
              /\ ~(pub.published < Len(pub.tp) + Len(pub.gone))
            BY <2>2, <2>4
        <2> QED
            BY <2>3, <2>5 DEF Held
    <1>10. /\ eng.expected <= Len(Tape) + 1
           /\ \A i \in 1 .. Len(eng.passed) : eng.passed[i] \in 1 .. Len(Tape)
        <2>1. Len(<<>>) = 0 /\ 1 .. 0 = {}
            OBVIOUS
        <2>2. 1 <= Len(Tape) + 1
            BY <1>2
        <2> QED
            BY <1>1, <2>1, <2>2
    <1>11. Good(eng, pub)
        BY <1>1, <1>3, <1>4, <1>5, <1>6, <1>7, <1>8, <1>9, <1>10 DEF Good
    <1>12. tape \in Nat /\ tape <= Len(Tape)
        <2>1. PICK n \in Nat : n = Len(Tape)
            BY <1>2
        <2>2. tape = 0
            BY <1>1
        <2>3. 0 <= n
            OBVIOUS
        <2> QED
            BY <2>1, <2>2, <2>3
    <1>13. eng.got <= 2 * tape /\ Len(eng.passed) = eng.got \div 2
        <2>1. Len(<<>>) = 0 /\ 0 = 0 \div 2 /\ 0 <= 2 * 0
            OBVIOUS
        <2> QED
            BY <1>1, <2>1
    <1> QED
        BY <1>1, <1>11, <1>12, <1>13 DEF FhInv

\* A packet of the venue's, and one of the replay.
LEMMA PacketIs ==
    ASSUME NEW from \in Nat \ {0}, NEW to \in Nat, from - 1 <= to, to <= Len(Tape), NEW leg
    PROVE  IsPacket(Packet(from, to, leg), from, to)
    BY DEF Packet, IsPacket

\* The halves of what a stream has brought.
LEMMA Halves ==
    ASSUME NEW g \in Nat, NEW k \in Nat, NEW t \in Nat, g + k <= 2 * t
    PROVE  /\ g \div 2 \in Nat /\ (g + k) \div 2 \in Nat
           /\ g \div 2 <= (g + k) \div 2 /\ (g + k) \div 2 <= t
    <1>1. PICK a \in Nat, ra \in 0 .. 1 : g = 2 * a + ra /\ a = g \div 2
        BY Division
    <1>2. PICK c \in Nat, rc \in 0 .. 1 : g + k = 2 * c + rc /\ c = (g + k) \div 2
        <2>1. g + k \in Nat
            OBVIOUS
        <2>2. PICK h \in Nat : h = g + k
            BY <2>1
        <2>3. PICK c \in Nat, rc \in 0 .. 1 : h = 2 * c + rc /\ c = h \div 2
            BY Division
        <2> QED
            BY <2>2, <2>3
    <1>3. a <= c /\ c <= t
        BY <1>1, <1>2
    <1> QED
        BY <1>1, <1>2, <1>3

\* What the publisher's part of the invariant needs of a step of the transport's thread.
LEMMA RacedOrNot ==
    ASSUME FhInv, NEW s, Good(s.e, s.b), Grown(pub, s.b), s.b.raced = pub.raced, NEW c,
           c = [s.b EXCEPT !.raced = @ \/ (flushing # {} /\ s.b.taken # pub.taken)]
    PROVE  /\ Good(s.e, c)
           /\ ~c.raced => flushing \in SUBSET {c.batch}
    <1>1. PICK x \in BOOLEAN : x = (s.b.raced \/ (flushing # {} /\ s.b.taken # pub.taken))
        OBVIOUS
    <1>2. s.b \in Publisher /\ s.b.raced \in BOOLEAN
        BY DEF Good, Publisher
    <1>3. PICK b : b = s.b
        OBVIOUS
    <1>4. c = [b EXCEPT !.raced = x]
        BY <1>1, <1>2, <1>3 DEF Publisher
    <1>5. b.raced => x
        BY <1>1, <1>3
    <1>6. Good(s.e, b) /\ Good(s.e, c) /\ c.raced = x /\ c.taken = b.taken /\ c.batch = b.batch
        <2>1. Good(s.e, b)
            BY <1>3
        <2>2. PICK e : e = s.e
            OBVIOUS
        <2>3. Good(e, b)
            BY <2>1, <2>2
        <2>4. b \in Publisher
            BY <2>1 DEF Good
        <2>5. /\ c \in Publisher /\ c.raced = x /\ c.taken = b.taken /\ c.batch = b.batch /\ c.tp = b.tp
              /\ c.gone = b.gone /\ c.published = b.published /\ c.failures = b.failures
            BY <1>4, <2>4 DEF Publisher
        <2>6. ~x => Held(b)
            BY <1>5, <2>1 DEF Good
        <2>7. ~x => Held(c)
            BY <2>5, <2>6 DEF Held
        <2>8. Good(e, c)
            BY <2>3, <2>5, <2>7, GoodPublisher
        <2> QED
            BY <2>1, <2>2, <2>5, <2>8
    <1>7. ASSUME ~c.raced PROVE flushing \in SUBSET {c.batch}
        <2>1. ~x /\ ~pub.raced /\ (flushing = {} \/ s.b.taken = pub.taken)
            BY <1>1, <1>3, <1>5, <1>6, <1>7
        <2>2. flushing \in SUBSET {pub.batch}
            BY <2>1 DEF FhInv
        <2>3. CASE flushing = {}
            BY <2>3
        <2>4. CASE s.b.taken = pub.taken
            <3>1. s.b.batch = pub.batch
                BY <2>4 DEF Grown
            <3> QED
                BY <1>3, <1>6, <2>2, <3>1
        <2> QED
            BY <2>1, <2>3, <2>4
    <1> QED
        BY <1>6, <1>7

\* The transport's datagrams.
LEMMA DeliveredKeeps ==
    ASSUME FhInv, Delivered
    PROVE  FhInv'
    <1>1. /\ Multicast /\ feed \in Feeds /\ feed' = feed /\ tape' = tape /\ flushing' = flushing
          /\ Good(eng, pub) /\ flushing \in SUBSET Seq(Events) /\ tape \in Nat /\ tape <= Len(Tape)
        BY DEF Delivered, FhInv
    <1>2. PICK p \in air : Handle(p) /\ air' \in SUBSET air
        BY DEF Delivered
    <1>3. PICK from \in Nat \ {0}, to \in Nat : IsPacket(p, from, to)
        BY <1>2 DEF FhInv
    <1>4. PICK n \in Nat : n = to - from + 1
        <2>1. from - 1 <= to
            BY <1>3 DEF IsPacket
        <2>2. to - from + 1 \in Nat
            BY <2>1
        <2> QED
            BY <2>2
    <1>5. PICK s : s = OnMessages(Messages(p))
        OBVIOUS
    <1>6. Keeps(s, n)
        <2>1. feed.protocol # "soup"
            BY <1>1 DEF Multicast
        <2> QED
            BY <1>1, <1>3, <1>4, <1>5, <2>1, PacketKeeps
    <1>7. /\ eng' = s.e
          /\ pub' = [s.b EXCEPT !.raced = @ \/ (flushing # {} /\ s.b.taken # pub.taken)]
        BY <1>2, <1>5 DEF Handle
    <1>8. PICK e, c : e = s.e /\ c = [s.b EXCEPT !.raced = @ \/ (flushing # {} /\ s.b.taken # pub.taken)]
        OBVIOUS
    <1>9. Good(e, c) /\ (~c.raced => flushing \in SUBSET {c.batch})
        BY <1>6, <1>8, RacedOrNot DEF Keeps
    <1>10. eng' = e /\ pub' = c
        BY <1>7, <1>8
    <1>11. Good(eng, pub)'
        BY <1>1, <1>9, <1>10, GoodNext
    <1>12. \A q \in air' : \E f \in Nat \ {0}, t \in Nat : IsPacket(q, f, t)'
        BY <1>1, <1>2 DEF FhInv, IsPacket, Tape
    <1>13. Multicast' /\ (tape <= Len(Tape))'
        BY <1>1 DEF Multicast, Tape
    <1> QED
        BY <1>1, <1>9, <1>10, <1>11, <1>12, <1>13 DEF FhInv

\* The chunks of a stream.
LEMMA StreamedKeeps ==
    ASSUME FhInv, Streamed
    PROVE  FhInv'
    <1>1. /\ ~Multicast /\ feed \in Feeds /\ feed' = feed /\ tape' = tape /\ flushing' = flushing
          /\ air' = air /\ Good(eng, pub) /\ flushing \in SUBSET Seq(Events) /\ tape \in Nat
          /\ tape <= Len(Tape) /\ ~feed.redundant
        BY FeedOfTape DEF Streamed, FhInv
    <1>2. PICK k \in 1 .. 3 :
              /\ eng.got + k <= Pieces * tape
              /\ eng' = [OnMessages(Messages(Completed(k))).e EXCEPT !.got = @ + k]
              /\ pub' = [OnMessages(Messages(Completed(k))).b EXCEPT
                           !.raced = @ \/ (flushing # {} /\ OnMessages(Messages(Completed(k))).b.taken # pub.taken)]
        BY DEF Streamed
    <1>3. PICK g \in Nat : g = eng.got
        BY <1>1 DEF Good, Engine
    <1>4. PICK from \in Nat \ {0}, to \in Nat :
              /\ from = g \div 2 + 1 /\ to = (g + k) \div 2
              /\ from - 1 <= to /\ to <= tape /\ g \div 2 \in Nat
        <2>1. g + k <= 2 * tape /\ k \in Nat
            BY <1>2, <1>3 DEF Pieces
        <2>2. /\ g \div 2 \in Nat /\ (g + k) \div 2 \in Nat
              /\ g \div 2 <= (g + k) \div 2 /\ (g + k) \div 2 <= tape
            BY <1>1, <2>1, Halves
        <2>3. PICK a \in Nat, b \in Nat : a = g \div 2 /\ b = (g + k) \div 2 /\ a <= b /\ b <= tape
            BY <2>2
        <2>4. a + 1 \in Nat \ {0} /\ (a + 1) - 1 <= b
            BY <2>3
        <2> QED
            BY <2>3, <2>4
    <1>5. PICK p : p = Completed(k)
        OBVIOUS
    <1>6. IsPacket(p, from, to)
        <2>1. p = Packet(from, to, "A")
            BY <1>3, <1>4, <1>5 DEF Completed, Pieces
        <2>2. to <= Len(Tape)
            <3>1. PICK l \in Nat : l = Len(Tape)
                BY <1>1, FeedOfTape
            <3>2. tape <= l
                BY <1>1, <3>1
            <3>3. to <= l
                BY <1>1, <1>4, <3>2
            <3> QED
                BY <3>1, <3>3
        <2> QED
            BY <1>4, <2>1, <2>2, PacketIs
    <1>7. PICK n \in Nat : n = to - from + 1
        <2>1. to - from + 1 \in Nat
            BY <1>4
        <2> QED
            BY <2>1
    <1>8. PICK s : s = OnMessages(Messages(p))
        OBVIOUS
    <1>9. PICK a \in Nat : a = Len(eng.passed)
        <2>1. eng.passed \in Seq(Nat)
            BY <1>1 DEF Good, Engine
        <2> QED
            BY <2>1, LenProperties
    <1>10. ~feed.live => a = g \div 2
        BY <1>1, <1>3, <1>9 DEF FhInv
    <1>11. Keeps(s, n)
        <2>1. feed.protocol = "soup" => from = Len(eng.passed) + 1
            <3>1. feed.protocol = "soup" => ~feed.live
                BY <1>1 DEF Feeds
            <3> QED
                BY <1>4, <1>9, <1>10, <3>1
        <2> QED
            BY <1>1, <1>6, <1>7, <1>8, <2>1, PacketKeeps
    <1>12. /\ eng' = [s.e EXCEPT !.got = @ + k]
           /\ pub' = [s.b EXCEPT !.raced = @ \/ (flushing # {} /\ s.b.taken # pub.taken)]
        BY <1>2, <1>5, <1>8
    <1>13. PICK e, c : e = s.e /\ c = [s.b EXCEPT !.raced = @ \/ (flushing # {} /\ s.b.taken # pub.taken)]
        OBVIOUS
    <1>14. Good(e, c) /\ (~c.raced => flushing \in SUBSET {c.batch})
        BY <1>11, <1>13, RacedOrNot DEF Keeps
    <1>15. PICK x \in Nat : x = g + k
        OBVIOUS
    <1>16. PICK f : f = [e EXCEPT !.got = x]
        OBVIOUS
    <1>17. Good(f, c) /\ f.got = x /\ f.passed = e.passed
        BY <1>14, <1>16, GoodGot
    <1>18. eng' = f /\ pub' = c
        <2>1. e.got = g /\ e \in Engine
            BY <1>3, <1>11, <1>13, <1>14 DEF Keeps, Good
        <2> QED
            BY <1>12, <1>13, <1>15, <1>16, <2>1 DEF Engine
    <1>19. Good(eng, pub)'
        BY <1>1, <1>17, <1>18, GoodNext
    <1>20. \A q \in air' : \E h \in Nat \ {0}, t \in Nat : IsPacket(q, h, t)'
        BY <1>1 DEF FhInv, IsPacket, Tape
    <1>21. ~Multicast' /\ (tape <= Len(Tape))'
        BY <1>1 DEF Multicast, Tape
    <1>22. x <= 2 * tape
        BY <1>1, <1>2, <1>3, <1>15 DEF Pieces
    <1>23. ~feed.live => Len(f.passed) = x \div 2
        <2>1. Len(e.passed) = Len(eng.passed) + n
            BY <1>1, <1>11, <1>13 DEF Keeps
        <2>2. ~feed.live => a + n = to
            BY <1>4, <1>7, <1>10
        <2>3. ~feed.live => Len(e.passed) = to
            BY <1>9, <2>1, <2>2
        <2> QED
            BY <1>4, <1>15, <1>17, <2>3
    <1>24. /\ (~pub.raced => flushing \in SUBSET {pub.batch})'
           /\ eng'.got = x /\ Len(eng'.passed) = Len(f.passed) /\ feed'.live = feed.live
        BY <1>1, <1>14, <1>17, <1>18
    <1>25. (eng.got <= 2 * tape)' /\ (~feed.live => Len(eng.passed) = eng.got \div 2)'
        BY <1>1, <1>22, <1>23, <1>24
    <1> QED
        BY <1>1, <1>19, <1>20, <1>21, <1>24, <1>25 DEF FhInv

\* The replay of a gap.  It happens to simulated feeds only, which no flush overlaps with.
LEMMA ReplayedKeeps ==
    ASSUME FhInv, Replayed
    PROVE  FhInv'
    <1>1. /\ feed \in Feeds /\ feed' = feed /\ tape' = tape /\ flushing' = flushing
          /\ air' = air /\ Good(eng, pub) /\ tape \in Nat /\ tape <= Len(Tape)
        BY DEF Replayed, FhInv
    <1>2. PICK r \in eng.asked :
              /\ eng' = [OnMessages(Messages(Packet(r[1], r[2] - 1, "replay"))).e EXCEPT
                           !.asked = @ \ {r}, !.state = "LIVE"]
              /\ pub' = OnMessages(Messages(Packet(r[1], r[2] - 1, "replay"))).b
        BY DEF Replayed
    <1>3. feed.callbacks # {} /\ Multicast /\ ~feed.live /\ flushing = {} /\ feed.protocol # "soup"
        <2>1. feed.callbacks # {}
            BY <1>1, <1>2 DEF Good
        <2>2. Multicast /\ ~feed.live
            BY <1>1, <2>1, FeedOfTape
        <2>3. feed.protocol # "soup"
            BY <2>2 DEF Multicast
        <2> QED
            BY <2>1, <2>2, <2>3 DEF Replayed, MayHandle
    <1>4. PICK from \in Nat \ {0}, to \in Nat :
              from = r[1] /\ to = r[2] - 1 /\ from - 1 <= to /\ to <= Len(Tape)
        <2>1. /\ eng.asked \in SUBSET (Nat \X Nat) /\ eng.told \in SUBSET (Nat \X Nat)
              /\ eng.expected \in Nat /\ ToldOnce(eng) /\ eng.expected <= Len(Tape) + 1
            BY <1>1, <1>3 DEF Good, Engine
        <2>2. 1 <= r[1] /\ r[1] <= r[2] /\ r[1] \in Nat /\ r[2] \in Nat
            BY <1>2, <2>1 DEF ToldOnce
        <2>3. PICK g \in eng.told : r[2] = g[2]
            BY <1>2, <2>1 DEF ToldOnce
        <2>4. g[2] <= eng.expected
            BY <2>1, <2>3 DEF ToldOnce
        <2>5. PICK l \in Nat, x \in Nat : l = Len(Tape) /\ x = eng.expected
            BY <1>1, <2>1, FeedOfTape
        <2>6. PICK a \in Nat, b \in Nat : a = r[1] /\ b = r[2]
            BY <2>2
        <2>7. b <= x /\ x <= l + 1
            BY <2>1, <2>3, <2>4, <2>5, <2>6
        <2>8. 1 <= a /\ a <= b
            BY <2>2, <2>6
        <2>9. a \in Nat \ {0} /\ b - 1 \in Nat /\ a - 1 <= b - 1 /\ b - 1 <= l
            BY <2>7, <2>8
        <2>10. PICK c \in Nat : c = b - 1
            BY <2>9
        <2>11. a - 1 <= c /\ c <= l
            BY <2>9, <2>10
        <2> QED
            BY <2>5, <2>6, <2>9, <2>10, <2>11
    <1>5. PICK p : p = Packet(from, to, "replay")
        OBVIOUS
    <1>6. IsPacket(p, from, to)
        BY <1>4, <1>5, PacketIs
    <1>7. PICK n \in Nat : n = to - from + 1
        <2>1. to - from + 1 \in Nat
            BY <1>4
        <2> QED
            BY <2>1
    <1>8. PICK s : s = OnMessages(Messages(p))
        OBVIOUS
    <1>9. Keeps(s, n)
        BY <1>1, <1>3, <1>6, <1>7, <1>8, PacketKeeps
    <1>10. eng' = [s.e EXCEPT !.asked = @ \ {r}, !.state = "LIVE"] /\ pub' = s.b
        BY <1>2, <1>4, <1>5, <1>8
    <1>11. PICK e, c : e = s.e /\ c = s.b
        OBVIOUS
    <1>12. Good(e, c)
        BY <1>9, <1>11 DEF Keeps
    <1>13. PICK a \in SUBSET e.asked : a = e.asked \ {r}
        OBVIOUS
    <1>14. PICK f : f = [e EXCEPT !.asked = a, !.state = "LIVE"]
        OBVIOUS
    <1>15. Good(f, c)
        BY <1>12, <1>14, GoodAsked
    <1>16. eng' = f /\ pub' = c
        <2>1. e \in Engine
            BY <1>12 DEF Good
        <2> QED
            BY <1>10, <1>11, <1>13, <1>14, <2>1 DEF Engine
    <1>17. Good(eng, pub)'
        BY <1>1, <1>15, <1>16, GoodNext
    <1>18. \A q \in air' : \E h \in Nat \ {0}, t \in Nat : IsPacket(q, h, t)'
        BY <1>1 DEF FhInv, IsPacket, Tape
    <1>19. Multicast' /\ (tape <= Len(Tape))' /\ flushing' = {}
        BY <1>1, <1>3 DEF Multicast, Tape
    <1> QED
        BY <1>1, <1>17, <1>18, <1>19 DEF FhInv

\* What a step that leaves the engine and the publisher alone leaves of the invariant.
LEMMA EngineStays ==
    ASSUME FhInv, feed' = feed, eng' = eng, pub' = pub
    PROVE  /\ feed \in Feeds /\ Good(eng, pub) /\ Good(eng, pub)' /\ (Tape = Tape)' /\ Tape' = Tape
           /\ (Multicast <=> Multicast')
           /\ \A p, from, to : IsPacket(p, from, to) => IsPacket(p, from, to)'
    <1>1. PICK e, b : e = eng /\ b = pub
        OBVIOUS
    <1>2. Good(e, b) /\ feed \in Feeds
        BY <1>1 DEF FhInv
    <1>3. Good(eng, pub)'
        BY <1>1, <1>2, GoodNext
    <1>4. Tape' = Tape
        BY DEF Tape
    <1> QED
        BY <1>1, <1>2, <1>3, <1>4 DEF Multicast, IsPacket

\* The venue's side.
LEMMA VenueKeeps ==
    ASSUME FhInv, VenueSends \/ NewRound \/ Lost
    PROVE  FhInv'
    <1>1. feed' = feed /\ eng' = eng /\ pub' = pub /\ flushing' = flushing
        BY DEF VenueSends, NewRound, Lost
    <1>2. /\ feed \in Feeds /\ Good(eng, pub)' /\ Tape' = Tape /\ (Multicast <=> Multicast')
          /\ \A p, from, to : IsPacket(p, from, to) => IsPacket(p, from, to)'
        BY <1>1, EngineStays
    <1>3. PICK l \in Nat : l = Len(Tape)
        BY <1>2, FeedOfTape
    <1>4. tape \in Nat /\ tape <= l /\ (~Multicast => eng.got <= 2 * tape) /\ eng.got \in Nat
        BY <1>3 DEF FhInv, Good, Engine
    <1>5. tape' \in Nat /\ tape' <= l /\ (~Multicast => eng.got <= 2 * tape')
        <2>1. CASE VenueSends
            <3>1. PICK k \in 1 .. 2 : tape + k <= Len(Tape) /\ tape' = tape + k
                BY <2>1 DEF VenueSends
            <3>2. PICK t \in Nat, g \in Nat : t = tape /\ g = eng.got
                BY <1>4
            <3>3. t + k <= l /\ tape' = t + k /\ (~Multicast => g <= 2 * t)
                BY <1>3, <1>4, <3>1, <3>2
            <3>4. ~Multicast => g <= 2 * (t + k)
                BY <3>3
            <3> QED
                BY <3>2, <3>3, <3>4
        <2>2. CASE NewRound
            <3>1. tape' = 0 /\ Multicast
                BY <2>2 DEF NewRound, Multicast
            <3> QED
                BY <1>3, <3>1
        <2>3. CASE Lost
            <3>1. tape' = tape
                BY <2>3 DEF Lost
            <3> QED
                BY <1>4, <3>1
        <2> QED
            BY <2>1, <2>2, <2>3
    <1>6. ASSUME NEW p \in air' PROVE \E from \in Nat \ {0}, to \in Nat : IsPacket(p, from, to)
        <2>1. CASE p \in air
            BY <2>1 DEF FhInv
        <2>2. CASE p \notin air
            <3>1. VenueSends
                BY <1>6, <2>2 DEF NewRound, Lost
            <3>2. PICK k \in 1 .. 2 :
                     /\ tape + k <= Len(Tape)
                     /\ air' = IF Multicast THEN air \cup {Packet(tape + 1, tape + k, leg) : leg \in Legs} ELSE air
                BY <3>1 DEF VenueSends
            <3>3. PICK leg \in Legs : p = Packet(tape + 1, tape + k, leg)
                BY <2>2, <3>2
            <3>4. PICK from \in Nat \ {0}, to \in Nat : from = tape + 1 /\ to = tape + k
                BY <1>4
            <3>5. from - 1 <= to
                BY <1>4, <3>4
            <3>6. IsPacket(Packet(from, to, leg), from, to)
                BY <3>2, <3>4, <3>5, PacketIs
            <3> QED
                BY <3>3, <3>4, <3>6
        <2> QED
            BY <2>1, <2>2
    <1>7. \A p \in air' : \E from \in Nat \ {0}, to \in Nat : IsPacket(p, from, to)'
        BY <1>2, <1>6
    <1>8. (tape <= Len(Tape))'
        BY <1>2, <1>3, <1>5
    <1>9. /\ flushing' \in SUBSET Seq(Events) /\ (~pub'.raced => flushing' \in SUBSET {pub'.batch})
          /\ ~Multicast' /\ ~feed'.live => Len(eng'.passed) = eng'.got \div 2
        BY <1>1, <1>2 DEF FhInv
    <1> QED
        BY <1>1, <1>2, <1>5, <1>7, <1>8, <1>9 DEF FhInv

\* The publisher's flush, of what it has encoded.
LEMMA FlushKeeps ==
    ASSUME FhInv, FlushBegins \/ FlushEnds
    PROVE  FhInv'
    <1>1. feed' = feed /\ eng' = eng /\ tape' = tape /\ air' = air
        BY DEF FlushBegins, FlushEnds
    <1>2. PICK e, b : e = eng /\ b = pub
        OBVIOUS
    <1>3. Good(e, b) /\ feed \in Feeds /\ b \in Publisher /\ flushing \in SUBSET Seq(Events)
        BY <1>2 DEF FhInv, Good
    <1>4. /\ pub' \in Publisher /\ pub'.taken = b.taken /\ (~pub'.raced => Held(pub'))
          /\ flushing' \in SUBSET Seq(Events) /\ (~pub'.raced => flushing' \in SUBSET {pub'.batch})
        <2>1. CASE FlushBegins /\ Connected
            <3>1. flushing' = {pub.batch} /\ pub' = pub
                BY <2>1 DEF FlushBegins
            <3>2. pub.batch \in Seq(Events)
                BY <1>2, <1>3 DEF Publisher
            <3> QED
                BY <1>2, <1>3, <3>1, <3>2 DEF Good
        <2>2. CASE FlushBegins /\ ~Connected
            <3>1. flushing' = {} /\ pub' = BatchFlushed(b)
                BY <1>2, <2>2 DEF FlushBegins
            <3>2. /\ BatchFlushed(b) \in Publisher /\ (Held(b) => Held(BatchFlushed(b)))
                  /\ BatchFlushed(b).taken = b.taken /\ BatchFlushed(b).raced = b.raced
                BY <1>3, BatchFlushedHolds
            <3>3. ~b.raced => Held(b)
                BY <1>3 DEF Good
            <3>4. PICK c : c = BatchFlushed(b)
                OBVIOUS
            <3>5. c \in Publisher /\ (~c.raced => Held(c)) /\ c.taken = b.taken /\ pub' = c
                BY <3>1, <3>2, <3>3, <3>4
            <3> QED
                BY <3>1, <3>5 DEF Held
        <2>3. CASE FlushEnds
            <3>1. PICK encoded \in flushing : pub' = Sent(b, encoded)
                BY <1>2, <2>3 DEF FlushEnds
            <3>2. flushing' = {} /\ encoded \in Seq(Events)
                BY <1>3, <2>3, <3>1 DEF FlushEnds
            <3>3. PICK c : c = Sent(b, encoded)
                OBVIOUS
            <3>4. c \in Publisher /\ c.taken = b.taken /\ c.raced = b.raced
                BY <1>3, <3>2, <3>3, SentIsTyped
            <3>5. ASSUME ~c.raced PROVE Held(c)
                <4>1. flushing \in SUBSET {pub.batch} /\ Held(b)
                    BY <1>2, <1>3, <3>4, <3>5 DEF FhInv, Good
                <4>2. encoded = b.batch
                    BY <1>2, <3>1, <4>1
                <4> QED
                    BY <1>3, <3>3, <4>1, <4>2, SentHolds
            <3> QED
                BY <3>1, <3>2, <3>3, <3>4, <3>5 DEF Held
        <2> QED
            BY <2>1, <2>2, <2>3
    <1>5. PICK c : c = pub'
        OBVIOUS
    <1>6. Good(e, c)
        BY <1>3, <1>4, <1>5, GoodPublisher DEF Held
    <1>7. Good(eng, pub)'
        BY <1>1, <1>2, <1>5, <1>6, GoodNext
    <1>8. Tape' = Tape /\ (Multicast <=> Multicast')
        BY <1>1 DEF Tape, Multicast
    <1>9. \A p \in air' : \E from \in Nat \ {0}, to \in Nat : IsPacket(p, from, to)'
        BY <1>1, <1>8 DEF FhInv, IsPacket
    <1>10. /\ tape' \in Nat /\ (tape <= Len(Tape))'
           /\ (~Multicast' => eng'.got <= 2 * tape')
           /\ ~Multicast' /\ ~feed'.live => Len(eng'.passed) = eng'.got \div 2
        BY <1>1, <1>8 DEF FhInv
    <1> QED
        BY <1>1, <1>3, <1>4, <1>7, <1>9, <1>10 DEF FhInv

\* The connections.
LEMMA ConnectionsKeep ==
    ASSUME FhInv, LinkUp \/ LinkDies \/ LinkDown \/ SocketOpens \/ SocketAnswered \/ UNCHANGED fhVars
    PROVE  FhInv'
    <1>1. /\ feed' = feed /\ eng' = eng /\ pub' = pub /\ tape' = tape /\ air' = air
          /\ flushing' = flushing
        BY DEF LinkUp, LinkDies, LinkDown, SocketOpens, SocketAnswered, fhVars
    <1>2. /\ feed \in Feeds /\ Good(eng, pub)' /\ Tape' = Tape /\ (Multicast <=> Multicast')
          /\ \A p, from, to : IsPacket(p, from, to) => IsPacket(p, from, to)'
        BY <1>1, EngineStays
    <1>3. \A p \in air' : \E from \in Nat \ {0}, to \in Nat : IsPacket(p, from, to)'
        BY <1>1, <1>2 DEF FhInv
    <1>4. /\ tape' \in Nat /\ (tape <= Len(Tape))'
          /\ flushing' \in SUBSET Seq(Events) /\ (~pub'.raced => flushing' \in SUBSET {pub'.batch})
          /\ (~Multicast' => eng'.got <= 2 * tape')
          /\ ~Multicast' /\ ~feed'.live => Len(eng'.passed) = eng'.got \div 2
        BY <1>1, <1>2 DEF FhInv
    <1> QED
        BY <1>1, <1>2, <1>3, <1>4 DEF FhInv

\* A venue's connection that ends: what it had not brought it never will.
LEMMA SocketClosesKeeps ==
    ASSUME FhInv, SocketCloses
    PROVE  FhInv'
    <1>1. /\ feed' = feed /\ pub' = pub /\ tape' = tape /\ air' = air /\ flushing' = flushing
          /\ eng' = [eng EXCEPT !.got = Pieces * tape] /\ feed.live /\ feed \in Feeds /\ tape \in Nat
        BY DEF SocketCloses, FhInv
    <1>2. PICK g \in Nat : g = 2 * tape
        BY <1>1
    <1>3. PICK e, b, f : e = eng /\ b = pub /\ f = [e EXCEPT !.got = g]
        OBVIOUS
    <1>4. Good(e, b)
        BY <1>3 DEF FhInv
    <1>5. Good(f, b) /\ f.got = g
        BY <1>3, <1>4, GoodGot
    <1>6. eng' = f
        BY <1>1, <1>2, <1>3 DEF Pieces
    <1>7. Good(eng, pub)'
        BY <1>1, <1>3, <1>5, <1>6, GoodNext
    <1>8. Tape' = Tape /\ (Multicast <=> Multicast') /\ feed'.live
        BY <1>1 DEF Tape, Multicast
    <1>9. \A p \in air' : \E from \in Nat \ {0}, to \in Nat : IsPacket(p, from, to)'
        BY <1>1, <1>8 DEF FhInv, IsPacket
    <1>10. g <= 2 * tape
        BY <1>1, <1>2
    <1>11. /\ tape' \in Nat /\ (tape <= Len(Tape))'
           /\ flushing' \in SUBSET Seq(Events) /\ (~pub'.raced => flushing' \in SUBSET {pub'.batch})
           /\ eng'.got <= 2 * tape'
        BY <1>1, <1>5, <1>6, <1>8, <1>10 DEF FhInv
    <1> QED
        BY <1>1, <1>7, <1>8, <1>9, <1>11 DEF FhInv

\* Every step keeps the invariant.
LEMMA FhStepKeeps ==
    ASSUME FhInv, [FhNext]_fhVars
    PROVE  FhInv'
    <1>1. CASE Delivered
        BY <1>1, DeliveredKeeps
    <1>2. CASE Streamed
        BY <1>2, StreamedKeeps
    <1>3. CASE Replayed
        BY <1>3, ReplayedKeeps
    <1>4. CASE VenueSends \/ NewRound \/ Lost
        BY <1>4, VenueKeeps
    <1>5. CASE FlushBegins \/ FlushEnds
        BY <1>5, FlushKeeps
    <1>6. CASE LinkUp \/ LinkDies \/ LinkDown \/ SocketOpens \/ SocketAnswered \/ UNCHANGED fhVars
        BY <1>6, ConnectionsKeep
    <1>7. CASE SocketCloses
        BY <1>7, SocketClosesKeeps
    <1> QED
        BY <1>1, <1>2, <1>3, <1>4, <1>5, <1>6, <1>7 DEF FhNext

\* The invariant says what SequenceIsKept says, and more.
LEMMA FhInvSequence ==
    ASSUME FhInv
    PROVE  SequenceIsKept
    <1>1. Good(eng, pub) /\ eng \in Engine
        BY DEF FhInv, Good
    <1>2. GapsAreTold
        <2>1. ToldOnce(eng)
            BY <1>1 DEF Good
        <2> QED
            BY <2>1 DEF ToldOnce, GapsAreTold
    <1>3. ASSUME feed.redundant
          PROVE  \A i, j \in DOMAIN eng.passed :
                    i < j /\ eng.passed[i] = eng.passed[j] => j - i > DedupWindow
        <2>1. Windowed(eng) /\ DOMAIN eng.passed = 1 .. Len(eng.passed)
            BY <1>1, <1>3, LenProperties DEF Good, Engine
        <2> QED
            BY <2>1 DEF Windowed
    <1> QED
        BY <1>2, <1>3 DEF SequenceIsKept, OncePerWindow

\* And what TradesArrive says.
LEMMA FhInvTrades ==
    ASSUME FhInv
    PROVE  TradesArrive
    <1>1. Good(eng, pub) /\ eng \in Engine
        BY DEF FhInv, Good
    <1>2. ASSUME ~pub.raced
          PROVE  /\ \A x \in Range(pub.taken \o pub.tp \o pub.gone \o pub.batch) :
                        Count(pub.taken, x) = Count(pub.tp, x) + Count(pub.gone, x) + Count(pub.batch, x)
                 /\ Len(pub.tp) <= pub.published /\ pub.published <= Len(pub.tp) + Len(pub.gone)
                 /\ pub.published < Len(pub.tp) + Len(pub.gone) => pub.failures > 0
        <2>1. Held(pub)
            BY <1>1, <1>2 DEF Good
        <2> QED
            BY <2>1 DEF Held
    <1>3. ASSUME InSequence PROVE \A i \in DOMAIN pub.taken : pub.taken[i].sym = pub.taken[i].item.stock
        <2>1. Sequential(eng.passed)
            <3>1. DOMAIN eng.passed = 1 .. Len(eng.passed) /\ Len(eng.passed) \in Nat
                BY <1>1, LenProperties DEF Engine
            <3>2. ASSUME NEW i \in 2 .. Len(eng.passed) PROVE i \in DOMAIN eng.passed \ {1}
                BY <3>1
            <3> QED
                BY <1>3, <3>2 DEF InSequence, Sequential
        <2>2. Own(pub)
            BY <1>1, <2>1 DEF Good, Ordered
        <2> QED
            BY <2>2 DEF Own
    <1>4. ~Multicast /\ ~feed.live => Len(eng.passed) = eng.got \div Pieces
        BY DEF FhInv, Pieces
    <1> QED
        BY <1>2, <1>3, <1>4 DEF TradesArrive, TradesAccounted, TradesAreTheirs

\* However packets are lost, repeated, reordered and replayed: no gap is swallowed or told
\* twice, and behind the arbiter no number passes again within the window.
THEOREM SequencesAreKept == FhSpec => []SequenceIsKept
<1>1. ASSUME \E c \in FhCases : FhStart(c[1], c[2]) PROVE FhInv
    <2>1. PICK c \in FhCases : FhStart(c[1], c[2])
        BY <1>1
    <2>2. c[1] \in Feeds
        BY FhAssumption
    <2> QED
        BY <2>1, <2>2, FhStarts
<1>2. FhInv /\ [FhNext]_fhVars => FhInv'
    BY FhStepKeeps
<1>3. FhInv => SequenceIsKept
    BY FhInvSequence
<1> QED
    BY <1>1, <1>2, <1>3, PTL DEF FhSpec

\* Every trade that was decoded is with the tickerplant, in the batch or gone with a broken
\* connection, as often as it was decoded, and goes by its own symbol; and a stream yields
\* its messages whole and once.
THEOREM TradesDoArrive == FhSpec => []TradesArrive
<1>1. ASSUME \E c \in FhCases : FhStart(c[1], c[2]) PROVE FhInv
    <2>1. PICK c \in FhCases : FhStart(c[1], c[2])
        BY <1>1
    <2>2. c[1] \in Feeds
        BY FhAssumption
    <2> QED
        BY <2>1, <2>2, FhStarts
<1>2. FhInv /\ [FhNext]_fhVars => FhInv'
    BY FhStepKeeps
<1>3. FhInv => TradesArrive
    BY FhInvTrades
<1> QED
    BY <1>1, <1>2, <1>3, PTL DEF FhSpec

=============================================================================
