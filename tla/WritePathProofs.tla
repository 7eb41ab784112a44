-------------------------- MODULE WritePathProofs --------------------------
(***************************************************************************)
(* What TLAPS proves about the write path, for every day length, end of    *)
(* day, interval, bound and number of faults.                              *)
(***************************************************************************)
EXTENDS WritePath, NumberLemmas, SequenceTheorems

-----------------------------------------------------------------------------
(* The inductive invariant: an announced or a planned end of day is of a day that is over *)

ClosedDates ==
    {d \in Int : \/ d < TradingDate(now)
                 \/ d = TradingDate(now) /\ left["end"] < Budget["end"]}
ClosedFile == [date : ClosedDates, tbl : Tables]

DueMessage == [kind : {"upd"}, row : Row]
                \cup [kind : {"shed"}, wm : Int]
                \cup [kind : {"eod"}, date : ClosedDates]

DueStep == [op : {"sub"}, tbl : Tables]
             \cup [op : {"flush", "catchup", "reload"}]
             \cup [op : {"watermark"}, wm : Int]
             \cup [op : {"drop", "sealed"}, date : Int]
             \cup [op : {"clear", "splay", "retire"}, file : ClosedFile]

EnvInv ==
    /\ now \in Nat /\ EodOffset <= now
    /\ left \in [FaultKinds -> Nat]
    /\ \A k \in FaultKinds : left[k] <= Budget[k]

TpInv ==
    /\ subs \in [Tables -> SUBSET Handles]
    /\ chan \in [Handles -> Seq(DueMessage)]
    /\ strikes \in [Handles -> Nat] /\ breaches \in [Handles -> Nat]
    /\ today \in Int /\ logDate = today
    /\ logged \in SUBSET [date : Int, row : Row]

WdbInv ==
    /\ wdbUp \in BOOLEAN
    /\ todo \in Seq(DueStep)
    /\ lastFlush \in Int /\ lastCatchUp \in Int /\ lastSealed \in Int
    /\ buf \in SUBSET Row /\ scratch \in SUBSET Row /\ sealed \in SUBSET Row
    /\ splays \in SUBSET ClosedFile

SealInv == EnvInv /\ TpInv /\ WdbInv

-----------------------------------------------------------------------------
(* Dates and queues *)

\* A trading date is an integer, whatever the clock reads.
LEMMA TradingDateInt == \A t \in Int : TradingDate(t) \in Int
    BY DayLenAssumption, EodOffsetAssumption DEF TradingDate

\* A message appended for every subscriber keeps the type of the queues, however narrow.
LEMMA BroadcastType ==
    ASSUME NEW M, NEW q \in [Handles -> Seq(M)], NEW m \in M
    PROVE  Broadcast(q, m) \in [Handles -> Seq(M)]
    BY DEF Broadcast

\* So does what is left of the queues after disconnections.
LEMMA TruncatedType ==
    ASSUME NEW M, NEW q \in [Handles -> Seq(M)], NEW H, NEW c \in Truncated(q, H)
    PROVE  c \in [Handles -> Seq(M)]
    <1>1. ASSUME NEW h \in Handles PROVE c[h] \in Seq(M)
        <2>1. c[h] = q[h] \/ \E n \in 0 .. Len(q[h]) : c[h] = SubSeq(q[h], 1, n)
            BY DEF Truncated
        <2>2. q[h] \in Seq(M)
            OBVIOUS
        <2>3. \A n \in 0 .. Len(q[h]) : SubSeq(q[h], 1, n) \in Seq(M)
            BY <2>2
        <2> QED
            BY <2>1, <2>2, <2>3
    <1> QED
        BY <1>1 DEF Truncated

-----------------------------------------------------------------------------
(* Time and faults only close more days *)

\* The trading date never goes back.
LEMMA TradingDateGrows ==
    ASSUME NEW t \in Nat, EodOffset <= t
    PROVE  /\ TradingDate(t) \in Int /\ TradingDate(t + 1) \in Int
           /\ TradingDate(t) <= TradingDate(t + 1)
    <1> DEFINE a == t - EodOffset
               q == a \div DayLen
               p == (a + 1) \div DayLen
    <1>1. a \in Nat /\ a + 1 \in Nat /\ DayLen \in Nat \ {0}
        BY DayLenAssumption, EodOffsetAssumption
    <1>2. q \in Nat /\ a % DayLen \in 0 .. DayLen - 1 /\ a = DayLen * q + (a % DayLen)
        BY <1>1, Division
    <1>3. /\ p \in Nat /\ (a + 1) % DayLen \in 0 .. DayLen - 1
          /\ a + 1 = DayLen * p + ((a + 1) % DayLen)
        BY <1>1, Division
    <1>4. TradingDate(t) = q /\ TradingDate(t + 1) = p
        <2>1. (t + 1) - EodOffset = a + 1
            BY EodOffsetAssumption
        <2> QED
            BY <2>1 DEF TradingDate
    <1> HIDE DEF a, q, p
    <1>5. q <= p
        <2>1. SUFFICES ASSUME p + 1 <= q PROVE FALSE
            BY <1>2, <1>3
        <2>2. (p + 1) * DayLen <= q * DayLen
            BY <1>1, <1>2, <1>3, <2>1, Monotone
        <2>3. (p + 1) * DayLen = DayLen * p + DayLen /\ q * DayLen = DayLen * q
            BY <1>1, <1>2, <1>3, Z3
        <2>4. DayLen * p \in Int /\ DayLen * q \in Int
            BY <1>1, <1>2, <1>3, Z3
        <2> QED
            BY <1>1, <1>2, <1>3, <2>2, <2>3, <2>4
    <1> QED
        BY <1>2, <1>3, <1>4, <1>5

\* A step that takes at most a tick and a fault keeps the environment, and closes no fewer days.
LEMMA EnvKept ==
    ASSUME EnvInv, now' \in {now, now + 1}, UNCHANGED left \/ \E k \in FaultKinds : Fault(k)
    PROVE  /\ EnvInv' /\ ClosedDates \subseteq ClosedDates'
           /\ \A k \in FaultKinds : left'[k] <= left[k]
    <1>1. /\ left' \in [FaultKinds -> Nat]
          /\ \A k \in FaultKinds : left'[k] <= left[k]
        <2>1. CASE UNCHANGED left
            BY <2>1 DEF EnvInv
        <2>2. ASSUME NEW k \in FaultKinds, Fault(k)
              PROVE  /\ left' \in [FaultKinds -> Nat]
                     /\ \A j \in FaultKinds : left'[j] <= left[j]
            BY <2>2 DEF EnvInv, Fault
        <2> QED
            BY <2>1, <2>2
    <1>2. now' \in Nat /\ EodOffset <= now'
        BY EodOffsetAssumption DEF EnvInv
    <1>3. EnvInv'
        BY <1>1, <1>2, PathAssumption DEF EnvInv
    <1>4. TradingDate(now) \in Int /\ TradingDate(now)' \in Int /\ TradingDate(now) <= TradingDate(now)'
        <2>1. TradingDate(now)' = TradingDate(now')
            BY DEF TradingDate
        <2> QED
            BY <2>1, TradingDateGrows DEF EnvInv
    <1>5. "end" \in FaultKinds /\ left["end"] \in Nat /\ left'["end"] \in Nat /\ Budget["end"] \in Nat
        BY <1>1, PathAssumption DEF FaultKinds, EnvInv
    <1>6. ClosedDates \subseteq ClosedDates'
        BY <1>1, <1>4, <1>5 DEF ClosedDates
    <1> QED
        BY <1>1, <1>3, <1>6

\* What is due stays due.
LEMMA DueStays ==
    ASSUME ClosedDates \subseteq ClosedDates'
    PROVE  /\ ClosedFile \subseteq ClosedFile'
           /\ DueMessage \subseteq DueMessage' /\ Seq(DueMessage) \subseteq Seq(DueMessage)'
           /\ DueStep \subseteq DueStep' /\ Seq(DueStep) \subseteq Seq(DueStep)'
    <1>1. ClosedFile \subseteq ClosedFile'
        BY DEF ClosedFile
    <1>2. DueMessage \subseteq DueMessage'
        BY DEF DueMessage
    <1>3. DueStep \subseteq DueStep'
        BY <1>1 DEF DueStep
    <1>4. Seq(DueMessage) \subseteq Seq(DueMessage)'
        BY <1>2, SeqMonotonic
    <1>5. Seq(DueStep) \subseteq Seq(DueStep)'
        BY <1>3, SeqMonotonic
    <1> QED
        BY <1>1, <1>2, <1>3, <1>4, <1>5

\* What a process does not touch stays as it should be.
LEMMA TpKept ==
    ASSUME TpInv, UNCHANGED tpVars, ClosedDates \subseteq ClosedDates'
    PROVE  TpInv'
    BY DueStays DEF TpInv, tpVars

\* A step that leaves the write-down database alone makes nothing undue.
LEMMA WdbKept ==
    ASSUME WdbInv, UNCHANGED <<wdbVars, diskVars>>, ClosedDates \subseteq ClosedDates'
    PROVE  WdbInv'
    BY DueStays DEF WdbInv, wdbVars, diskVars

\* The invariant is made of types among other things.
LEMMA SealInvTypes == SealInv => PathTypeOK
    <1>1. ClosedFile \subseteq File
        BY DEF ClosedFile, ClosedDates, File
    <1>2. DueMessage \subseteq Message
        BY DEF DueMessage, ClosedDates, Message
    <1>3. DueStep \subseteq Step
        BY <1>1 DEF DueStep, Step
    <1>4. Seq(DueMessage) \subseteq Seq(Message) /\ Seq(DueStep) \subseteq Seq(Step)
        BY <1>2, <1>3, SeqMonotonic
    <1> QED
        BY <1>1, <1>4 DEF SealInv, EnvInv, TpInv, WdbInv, PathTypeOK

-----------------------------------------------------------------------------
(* The tickerplant *)

\* The messages that are always due.
LEMMA DueMessages ==
    /\ \A r \in Row : UpdMsg(r) \in DueMessage
    /\ \A wm \in Int : ShedMsg(wm) \in DueMessage
    /\ \A d \in ClosedDates : EodMsg(d) \in DueMessage
    BY DEF UpdMsg, ShedMsg, EodMsg, DueMessage

\* .u.checkEod announces a day only when it is over.
LEMMA AfterEodDue ==
    ASSUME EnvInv, TpInv
    PROVE  AfterEod \in [Handles -> Seq(DueMessage)]
    <1> USE DEF TpInv
    <1>1. CASE TradingDate(now) > today
        <2>1. today \in ClosedDates
            BY <1>1, TradingDateInt DEF ClosedDates, EnvInv
        <2> QED
            BY <1>1, <2>1, DueMessages, BroadcastType DEF AfterEod
    <1>2. CASE ~(TradingDate(now) > today)
        BY <1>2 DEF AfterEod
    <1> QED
        BY <1>1, <1>2

\* .z.ts
LEMMA TimerKeeps ==
    ASSUME EnvInv, TpInv, Timer, UNCHANGED <<now, left>>, ClosedDates \subseteq ClosedDates'
    PROVE  TpInv'
    <1> USE DEF TpInv
    <1>1. TradingDate(now) \in Int
        BY TradingDateInt DEF EnvInv
    <1>2. AfterEod \in [Handles -> Seq(DueMessage)]
        BY AfterEodDue
    <1>3. chan' \in [Handles -> Seq(DueMessage)]
        BY <1>2, TruncatedType DEF Timer, CheckSlow
    <1>4. strikes' \in [Handles -> Nat]
        BY DEF Timer, CheckSlow
    <1>5. breaches' \in [Handles -> Nat]
        BY DEF Timer, CountBreaches
    <1>6. subs' \in [Tables -> SUBSET Handles]
        BY DEF Timer, CheckSlow, Unsubscribed
    <1>7. today' \in Int /\ logDate' = today'
        BY <1>1 DEF Timer, CheckEod
    <1> QED
        BY <1>3, <1>4, <1>5, <1>6, <1>7, DueStays DEF Timer

\* .u.end announces the day in progress, and is counted.
LEMMA ForceEndKeeps ==
    ASSUME EnvInv, TpInv, ForceEnd, ClosedDates \subseteq ClosedDates'
    PROVE  TpInv'
    <1> USE DEF TpInv
    <1>1. today \in ClosedDates'
        <2>1. /\ "end" \in FaultKinds /\ left["end"] \in Nat /\ Budget["end"] \in Nat
              /\ left["end"] <= Budget["end"] /\ left'["end"] = left["end"] - 1
            BY PathAssumption DEF FaultKinds, EnvInv, ForceEnd, Fault
        <2>2. today \in Int /\ today = TradingDate(now)'
            <3>1. TradingDate(now)' = TradingDate(now)
                BY DEF ForceEnd, TradingDate
            <3> QED
                BY <3>1 DEF ForceEnd
        <2> QED
            BY <2>1, <2>2 DEF ClosedDates
    <1>2. EodMsg(today) \in DueMessage'
        BY <1>1 DEF EodMsg, DueMessage
    <1>3. chan \in [Handles -> Seq(DueMessage')]
        BY DueStays
    <1>4. chan' \in [Handles -> Seq(DueMessage')]
        BY <1>2, <1>3, BroadcastType DEF ForceEnd, End
    <1> QED
        BY <1>4 DEF ForceEnd, End

\* The other operations of the tickerplant announce no end of day.
LEMMA UpdKeeps ==
    ASSUME TpInv, NEW r \in Row, Upd(r), ClosedDates \subseteq ClosedDates'
    PROVE  TpInv'
    <1>1. chan' \in [Handles -> Seq(DueMessage)]
        BY DueMessages DEF TpInv, Upd
    <1>2. logged' \in SUBSET [date : Int, row : Row]
        BY DEF TpInv, Upd
    <1> QED
        BY <1>1, <1>2, DueStays DEF TpInv, Upd

LEMMA WatermarkKeeps ==
    ASSUME TpInv, NEW wm \in Int, BroadcastWatermark(wm), ClosedDates \subseteq ClosedDates'
    PROVE  TpInv'
    <1>1. chan' \in [Handles -> Seq(DueMessage)]
        BY DueMessages, BroadcastType DEF TpInv, BroadcastWatermark
    <1> QED
        BY <1>1, DueStays DEF TpInv, BroadcastWatermark

LEMMA TpRestartKeeps ==
    ASSUME EnvInv, TpInv, TpRestart, ClosedDates \subseteq ClosedDates'
    PROVE  TpInv'
    <1>1. chan' \in [Handles -> Seq(DueMessage)]
        BY TruncatedType DEF TpInv, TpRestart
    <1>2. today' \in Int /\ logDate' = today'
        BY TradingDateInt DEF EnvInv, TpRestart
    <1> QED
        BY <1>1, <1>2, DueStays DEF TpInv, TpRestart, NoCounts

LEMMA PortClosedKeeps ==
    ASSUME TpInv, NEW h \in Handles, PortClosed(h), ClosedDates \subseteq ClosedDates'
    PROVE  TpInv'
    <1>1. chan' \in [Handles -> Seq(DueMessage)]
        BY TruncatedType DEF TpInv, PortClosed
    <1>2. subs' \in [Tables -> SUBSET Handles]
        BY DEF TpInv, PortClosed, Unsubscribed
    <1>3. strikes' \in [Handles -> Nat]
        BY DEF TpInv, PortClosed
    <1> QED
        BY <1>1, <1>2, <1>3, DueStays DEF TpInv, PortClosed

LEMMA SubKeeps ==
    ASSUME TpInv, NEW h \in Handles, NEW t \in Tables, Sub(h, t), ClosedDates \subseteq ClosedDates'
    PROVE  TpInv'
    <1>1. subs' \in [Tables -> SUBSET Handles]
        BY DEF TpInv, Sub
    <1>2. /\ chan' \in [Handles -> Seq(DueMessage)]
          /\ breaches' \in [Handles -> Nat]
        <2>1. CASE h \in SubHandles
            BY <2>1 DEF TpInv, Sub
        <2>2. CASE h \notin SubHandles
            <3>1. chan' = [chan EXCEPT ![h] = <<>>] /\ breaches' = [breaches EXCEPT ![h] = 0]
                BY <2>2 DEF Sub
            <3> QED
                BY <3>1 DEF TpInv
        <2> QED
            BY <2>1, <2>2
    <1> QED
        BY <1>1, <1>2, DueStays DEF TpInv, Sub

\* A subscriber that reads or dies only shortens its queue.
LEMMA ConsumeKeeps ==
    ASSUME TpInv, NEW h \in Handles, Consume(h), ClosedDates \subseteq ClosedDates'
    PROVE  TpInv'
    <1>1. Tail(chan[h]) \in Seq(DueMessage)
        BY DEF TpInv, Consume
    <1>2. chan' \in [Handles -> Seq(DueMessage)]
        BY <1>1 DEF TpInv, Consume
    <1> QED
        BY <1>2, DueStays DEF TpInv, Consume

LEMMA VanishKeeps ==
    ASSUME TpInv, NEW h \in Handles, Vanish(h), ClosedDates \subseteq ClosedDates'
    PROVE  TpInv'
    <1>1. CASE h \in SubHandles
        BY <1>1, PortClosedKeeps DEF Vanish
    <1>2. CASE h \notin SubHandles
        <2>1. chan' = [chan EXCEPT ![h] = <<>>]
            BY <1>2 DEF Vanish
        <2>2. chan' \in [Handles -> Seq(DueMessage)]
            BY <2>1 DEF TpInv
        <2> QED
            BY <1>2, <2>2, DueStays DEF TpInv, Vanish
    <1> QED
        BY <1>1, <1>2

-----------------------------------------------------------------------------
(* The write-down database *)

\* The steps of its handlers.
LEMMA DueSteps ==
    /\ \A t \in Tables : SubStep(t) \in DueStep
    /\ FlushStep \in DueStep /\ CatchUpStep \in DueStep /\ ReloadStep \in DueStep
    /\ \A wm \in Int : WatermarkStep(wm) \in DueStep
    /\ \A d \in Int : DropStep(d) \in DueStep /\ SealedStep(d) \in DueStep
    /\ \A f \in ClosedFile :
          /\ [op |-> "clear", file |-> f] \in DueStep
          /\ [op |-> "splay", file |-> f] \in DueStep
          /\ [op |-> "retire", file |-> f] \in DueStep
    BY DEF SubStep, FlushStep, CatchUpStep, ReloadStep, WatermarkStep, DropStep, SealedStep, DueStep

LEMMA ConnectStepsDue == ConnectSteps \in Seq(DueStep)
    BY DueSteps DEF ConnectSteps, Tables

\* The steps that seal a day that is over may be planned.
LEMMA SealStepsDue ==
    ASSUME NEW d \in ClosedDates
    PROVE  SealSteps(d) \in Seq(DueStep)
    <1>1. ASSUME NEW f \in ClosedFile PROVE SealFileSteps(f) \in Seq(DueStep)
        BY DueSteps DEF SealFileSteps
    <1>2. \A t \in Tables : [date |-> d, tbl |-> t] \in ClosedFile
        BY DEF ClosedFile
    <1>3. /\ SealFileSteps([date |-> d, tbl |-> "trade"]) \in Seq(DueStep)
          /\ SealFileSteps([date |-> d, tbl |-> "risk"]) \in Seq(DueStep)
        BY <1>1, <1>2 DEF Tables
    <1> QED
        BY <1>3 DEF SealSteps

\* The oldest date left behind is one of those left behind: dates are natural numbers.
LEMMA OldestLeftBehind ==
    ASSUME WdbInv, NEW t \in Int, Backlog(t) # {}
    PROVE  Min(Backlog(t)) \in Backlog(t)
    <1>1. \A r \in Row : DateOf(r.time) \in Nat
        BY DayLenAssumption, Division DEF Row, DateOf
    <1>2. Backlog(t) \in SUBSET Nat
        BY <1>1 DEF WdbInv, Backlog, ScratchDates, ScratchFiles, FileOf
    <1>3. PICK x \in Backlog(t) : \A y \in Backlog(t) : x <= y
        BY <1>2, LeastNat
    <1> QED
        BY <1>3 DEF Min

\* What is left of a handler that has done a step.
LEMMA RestDue ==
    ASSUME WdbInv, todo # <<>>
    PROVE  /\ Head(todo) \in DueStep /\ Tail(todo) \in Seq(DueStep)
           /\ Head(todo).op \in {"clear", "splay", "retire"} => Head(todo).file \in ClosedFile
    <1>1. Head(todo) \in DueStep /\ Tail(todo) \in Seq(DueStep)
        BY DEF WdbInv
    <1>2. \A s \in DueStep : s.op \in {"clear", "splay", "retire"} => s.file \in ClosedFile
        BY DEF DueStep
    <1> QED
        BY <1>1, <1>2

LEMMA FlushToTypes ==
    ASSUME WdbInv, NEW cutoff, FlushTo(cutoff)
    PROVE  scratch' \in SUBSET Row /\ buf' \in SUBSET Row
    BY DEF WdbInv, FlushTo

\* .wdb.upd, .wdb.shedTo and .wdb.eod
LEMMA HandleKeeps ==
    ASSUME WdbInv, NEW m \in DueMessage, WdbHandle(m), ClosedDates \subseteq ClosedDates'
    PROVE  WdbInv'
    <1>1. CASE m.kind = "upd" /\ WdbUpd(m.row)
        <2>1. m.row \in Row
            BY <1>1 DEF DueMessage
        <2>2. buf' \in SUBSET Row
            BY <1>1, <2>1 DEF WdbUpd, WdbInv
        <2> QED
            BY <1>1, <2>2, DueStays DEF WdbUpd, WdbInv, diskVars
    <1>2. CASE UNCHANGED <<wdbVars, diskVars>>
        BY <1>2, WdbKept
    <1>3. CASE m.kind = "eod" /\ WdbEod(m.date)
        <2>1. m.date \in ClosedDates
            BY <1>3 DEF DueMessage
        <2>2. m.date \in Int /\ Midnight(m.date + 1) \in Int
            BY <2>1, DayLenAssumption DEF ClosedDates, Midnight
        <2>3. <<WatermarkStep(Midnight(m.date + 1)), ReloadStep, DropStep(m.date),
                SealedStep(m.date)>> \in Seq(DueStep)
            BY <2>2, DueSteps
        <2>4. todo' \in Seq(DueStep)
            BY <1>3, <2>1, <2>3, SealStepsDue DEF WdbEod
        <2>5. scratch' \in SUBSET Row /\ buf' \in SUBSET Row
            BY <1>3, FlushToTypes DEF WdbEod
        <2> QED
            BY <1>3, <2>4, <2>5, DueStays DEF WdbEod, WdbInv
    <1> QED
        BY <1>1, <1>2, <1>3 DEF WdbHandle

\* .z.ts
LEMMA WdbTimerKeeps ==
    ASSUME EnvInv, WdbInv, NEW connect \in BOOLEAN, WdbTimer(now, connect),
           ClosedDates \subseteq ClosedDates'
    PROVE  WdbInv'
    <1>1. /\ (IF connect THEN ConnectSteps ELSE <<>>) \in Seq(DueStep)
          /\ (IF FlushDue(now) THEN <<FlushStep>> ELSE <<>>) \in Seq(DueStep)
          /\ (IF CatchUpDue(now) THEN <<CatchUpStep>> ELSE <<>>) \in Seq(DueStep)
        BY ConnectStepsDue, DueSteps
    <1>2. todo' \in Seq(DueStep)
        BY <1>1 DEF WdbTimer
    <1> QED
        BY <1>2, DueStays DEF WdbTimer, WdbInv, EnvInv, diskVars

LEMMA StepDoneKeeps ==
    ASSUME WdbInv, todo # <<>>, WdbStepDone, ClosedDates \subseteq ClosedDates'
    PROVE  WdbInv'
    BY RestDue, DueStays DEF WdbStepDone, WdbInv, diskVars

LEMMA FlushKeeps ==
    ASSUME EnvInv, WdbInv, WdbFlush(now), ClosedDates \subseteq ClosedDates'
    PROVE  WdbInv'
    <1>1. now - RetentionIntv \in Int
        BY WdbAssumption DEF EnvInv, RetentionIntv
    <1>2. <<WatermarkStep(now - RetentionIntv)>> \in Seq(DueStep)
        BY <1>1, DueSteps
    <1>3. todo' \in Seq(DueStep)
        BY <1>2, RestDue DEF WdbFlush, WdbAt
    <1>4. scratch' \in SUBSET Row /\ buf' \in SUBSET Row
        BY FlushToTypes DEF WdbFlush
    <1> QED
        BY <1>3, <1>4, DueStays DEF WdbFlush, WdbInv

\* .wdb.catchUpSeals looks at days before the trading date only.
LEMMA CatchUpKeeps ==
    ASSUME EnvInv, WdbInv, WdbCatchUp(TradingDate(now)), ClosedDates \subseteq ClosedDates'
    PROVE  WdbInv'
    <1> DEFINE t == TradingDate(now)
               d == Min(Backlog(t))
               plan == IF Backlog(t) = {} THEN <<>> ELSE SealSteps(d) \o <<ReloadStep, DropStep(d)>>
    <1>1. t \in Int
        BY TradingDateInt DEF EnvInv
    <1>2. todo # <<>> /\ todo' = plan \o Tail(todo)
        BY DEF WdbCatchUp, WdbAt
    <1>3. plan \in Seq(DueStep)
        <2>1. CASE Backlog(t) = {}
            BY <2>1
        <2>2. CASE Backlog(t) # {}
            <3>1. d \in Backlog(t)
                BY <1>1, <2>2, OldestLeftBehind
            <3>2. d \in Int
                BY <3>1, DayLenAssumption
                   DEF WdbInv, Backlog, ScratchDates, ScratchFiles, FileOf, DateOf, Row
            <3>3. d \in ClosedDates
                BY <3>1, <3>2 DEF Backlog, ClosedDates
            <3>4. <<ReloadStep, DropStep(d)>> \in Seq(DueStep)
                BY <3>2, DueSteps
            <3> HIDE DEF d
            <3> QED
                BY <2>2, <3>3, <3>4, SealStepsDue
        <2> QED
            BY <2>1, <2>2
    <1> HIDE DEF plan
    <1>4. todo' \in Seq(DueStep)
        BY <1>2, <1>3, RestDue
    <1> QED
        BY <1>4, DueStays DEF WdbCatchUp, WdbInv, diskVars

\* .wdb.seal, step by step
LEMMA SealingKeeps ==
    ASSUME WdbInv, WdbClear \/ WdbSplay(TRUE) \/ WdbSplay(FALSE) \/ WdbRetire \/ WdbSealed,
           ClosedDates \subseteq ClosedDates'
    PROVE  WdbInv'
    <1>1. todo # <<>> /\ todo' = Tail(todo) /\ todo' \in Seq(DueStep)
        BY RestDue DEF WdbClear, WdbSplay, WdbRetire, WdbSealed, WdbAt
    <1>2. CASE WdbClear
        <2>1. buf' \in SUBSET Row /\ sealed' \in SUBSET Row /\ splays' \in SUBSET ClosedFile
            BY <1>2 DEF WdbClear, WdbInv
        <2> QED
            BY <1>1, <1>2, <2>1, DueStays DEF WdbClear, WdbInv
    <1>3. ASSUME NEW ok \in BOOLEAN, WdbSplay(ok) PROVE WdbInv'
        <2>1. Head(todo).file \in ClosedFile
            BY <1>1, <1>3, RestDue DEF WdbSplay, WdbAt
        <2>2. sealed' \in SUBSET Row /\ splays' \in SUBSET ClosedFile
            BY <1>3, <2>1 DEF WdbSplay, WdbInv, RowsOf
        <2> QED
            BY <1>1, <1>3, <2>2, DueStays DEF WdbSplay, WdbInv
    <1>4. CASE WdbRetire
        <2>1. scratch' \in SUBSET Row
            BY <1>4 DEF WdbRetire, WdbInv
        <2> QED
            BY <1>1, <1>4, <2>1, DueStays DEF WdbRetire, WdbInv
    <1>5. CASE WdbSealed
        <2>1. lastSealed' \in Int
            <3>1. \A s \in DueStep : s.op = "sealed" => s.date \in Int
                BY DEF DueStep
            <3>2. Head(todo) \in DueStep /\ Head(todo).op = "sealed"
                BY <1>1, <1>5, RestDue DEF WdbSealed, WdbAt
            <3> QED
                BY <1>5, <3>1, <3>2 DEF WdbSealed
        <2> QED
            BY <1>1, <1>5, <2>1, DueStays DEF WdbSealed, WdbInv, diskVars
    <1> QED
        BY <1>2, <1>3, <1>4, <1>5

-----------------------------------------------------------------------------
(* The steps of the path *)

LEMMA InitSealInv == PathInit => SealInv
    <1> SUFFICES ASSUME PathInit PROVE SealInv
        OBVIOUS
    <1> USE DEF PathInit
    <1>1. now \in Nat /\ now = EodOffset
        BY EodOffsetAssumption, DayLenAssumption
    <1>2. EnvInv
        BY <1>1, PathAssumption DEF EnvInv
    <1>3. TpInv
        <2>1. TradingDate(now) \in Int
            BY <1>1, TradingDateInt
        <2>2. chan \in [Handles -> Seq(DueMessage)]
            BY DEF TpInitWith
        <2> QED
            BY <2>1, <2>2 DEF TpInv, TpInitWith, NoCounts
    <1>4. WdbInv
        BY <1>1 DEF WdbInit, WdbInv, DiskInit, NoDate
    <1> QED
        BY <1>2, <1>3, <1>4 DEF SealInv

LEMMA TpStepKeeps ==
    ASSUME SealInv, TpStep, EnvInv', ClosedDates \subseteq ClosedDates'
    PROVE  SealInv'
    <1> USE DEF SealInv
    <1>1. CASE Tick
        BY <1>1, TpKept, WdbKept DEF Tick, WdbSame
    <1>2. CASE Linger
        <2>1. now - FlushIntv - 1 \in Int /\ now - CatchUpIntv - 1 \in Int
            BY WdbAssumption DEF EnvInv
        <2>2. WdbInv'
            BY <1>2, <2>1, DueStays DEF Linger, WdbInv, diskVars
        <2> QED
            BY <1>2, <2>2, TpKept DEF Linger, TpSame
    <1>3. ASSUME NEW r \in Arriving, Feed(r) PROVE SealInv'
        <2>1. r \in Row
            BY DEF Arriving, Row, EnvInv
        <2>2. Upd(r) /\ UNCHANGED <<wdbVars, diskVars>>
            BY <1>3 DEF Feed, WdbSame
        <2> QED
            BY <2>1, <2>2, UpdKeeps, WdbKept
    <1>4. CASE TpTimer
        BY <1>4, TimerKeeps, WdbKept DEF TpTimer, WdbSame, NoFault
    <1>5. CASE ForceEnd
        BY <1>5, ForceEndKeeps, WdbKept DEF ForceEnd, WdbSame
    <1>6. CASE TpCrash
        BY <1>6, TpRestartKeeps, WdbKept DEF TpCrash, WdbSame
    <1>7. CASE Cut
        BY <1>7, PathAssumption, PortClosedKeeps, WdbKept DEF Cut, WdbSame
    <1> QED
        BY <1>1, <1>2, <1>3, <1>4, <1>5, <1>6, <1>7 DEF TpStep

LEMMA WdbOwnStepKeeps ==
    ASSUME SealInv, WdbOwnStep, EnvInv', ClosedDates \subseteq ClosedDates'
    PROVE  SealInv'
    <1> USE DEF SealInv
    <1>1. CASE WdbSubscribe
        <2>1. todo # <<>> /\ WdbStepDone /\ TrySub("wdb", Head(todo).tbl)
            BY <1>1 DEF WdbSubscribe, WdbAt
        <2>2. Head(todo).tbl \in Tables
            <3>1. \A s \in DueStep : s.op = "sub" => s.tbl \in Tables
                BY DEF DueStep
            <3>2. Head(todo) \in DueStep /\ Head(todo).op = "sub"
                BY <1>1, <2>1, RestDue DEF WdbSubscribe, WdbAt
            <3> QED
                BY <3>1, <3>2
        <2>3. TpInv'
            BY <2>1, <2>2, PathAssumption, SubKeeps, TpKept DEF TrySub, TpSame
        <2> QED
            BY <2>1, <2>3, StepDoneKeeps
    <1>2. CASE WdbFlushStep
        BY <1>2, FlushKeeps, TpKept DEF WdbFlushStep, TpSame
    <1>3. CASE WdbAnnounce
        <2>1. todo # <<>> /\ WdbStepDone /\ BroadcastWatermark(Head(todo).wm)
            BY <1>3 DEF WdbAnnounce, WdbAt
        <2>2. Head(todo).wm \in Int
            <3>1. \A s \in DueStep : s.op = "watermark" => s.wm \in Int
                BY DEF DueStep
            <3>2. Head(todo) \in DueStep /\ Head(todo).op = "watermark"
                BY <1>3, <2>1, RestDue DEF WdbAnnounce, WdbAt
            <3> QED
                BY <3>1, <3>2
        <2> QED
            BY <2>1, <2>2, WatermarkKeeps, StepDoneKeeps
    <1>4. CASE WdbCatchUpStep
        BY <1>4, CatchUpKeeps, TpKept DEF WdbCatchUpStep, TpSame
    <1>5. CASE WdbClearStep
        BY <1>5, SealingKeeps, TpKept DEF WdbClearStep, TpSame
    <1>6. CASE WdbSplayStep
        BY <1>6, SealingKeeps, TpKept DEF WdbSplayStep, TpSame
    <1>7. CASE WdbRetireStep
        BY <1>7, SealingKeeps, TpKept DEF WdbRetireStep, TpSame
    <1>8. CASE WdbSealedStep
        BY <1>8, SealingKeeps, TpKept DEF WdbSealedStep, TpSame
    <1> QED
        BY <1>1, <1>2, <1>3, <1>4, <1>5, <1>6, <1>7, <1>8 DEF WdbOwnStep

\* Every step takes at most a tick of the clock and one fault.
LEMMA StepEnv ==
    ASSUME PathNext
    PROVE  now' \in {now, now + 1} /\ (UNCHANGED left \/ \E k \in FaultKinds : Fault(k))
    <1> USE DEF NoFault, TpSame, FaultKinds
    <1>1. CASE TpStep
        BY <1>1 DEF TpStep, Tick, Linger, Feed, TpTimer, ForceEnd, TpCrash, Cut
    <1>2. CASE WdbReceive \/ WdbTick \/ WdbAnnounceFails \/ WdbStarts
        BY <1>2 DEF WdbReceive, Consume, WdbTick, WdbTickWith, WdbAnnounceFails, WdbStarts
    <1>3. CASE WdbDies
        BY <1>3 DEF WdbDies, Vanish
    <1>4. CASE WdbOwnStep
        BY <1>4 DEF WdbOwnStep, WdbSubscribe, TrySub, WdbFlushStep, WdbAnnounce, WdbCatchUpStep,
                    WdbClearStep, WdbSplayStep, WdbRetireStep, WdbSealedStep
    <1>5. CASE WdbReload \/ WdbDrop
        BY <1>5 DEF WdbReload, WdbDrop
    <1> QED
        BY <1>1, <1>2, <1>3, <1>4, <1>5 DEF PathNext, WriteStep

LEMMA StepSealInv == SealInv /\ [PathNext]_pathVars => SealInv'
    <1> SUFFICES ASSUME SealInv, [PathNext]_pathVars PROVE SealInv'
        OBVIOUS
    <1>0. EnvInv' /\ ClosedDates \subseteq ClosedDates'
        BY StepEnv, EnvKept DEF SealInv, pathVars
    <1>1. CASE TpStep
        BY <1>0, <1>1, TpStepKeeps
    <1>2. CASE WdbReceive
        <2>1. Head(chan["wdb"]) \in DueMessage
            BY <1>2, PathAssumption DEF WdbReceive, Consume, SealInv, TpInv
        <2> QED
            BY <1>0, <1>2, <2>1, PathAssumption, HandleKeeps, ConsumeKeeps DEF WdbReceive, SealInv
    <1>3. CASE WdbTick
        BY <1>0, <1>3, WdbTimerKeeps, TpKept DEF WdbTick, WdbTickWith, TpSame, SealInv
    <1>4. CASE WdbOwnStep
        BY <1>0, <1>4, WdbOwnStepKeeps
    <1>5. CASE WdbAnnounceFails
        <2>0. todo # <<>> /\ todo' \in {Tail(todo), <<>>}
            BY <1>5 DEF WdbAnnounceFails, WdbAt
        <2>1. todo' \in Seq(DueStep)
            <3>1. Tail(todo) \in Seq(DueStep) /\ <<>> \in Seq(DueStep)
                BY <2>0, RestDue DEF SealInv
            <3> QED
                BY <2>0, <3>1
        <2>2. WdbInv'
            BY <1>0, <1>5, <2>1, DueStays DEF WdbAnnounceFails, SealInv, WdbInv, diskVars
        <2> QED
            BY <1>0, <1>5, <2>2, TpRestartKeeps DEF WdbAnnounceFails, SealInv
    <1>6. CASE WdbDies
        <2>0. /\ wdbUp' \in BOOLEAN /\ buf' \in SUBSET Row /\ todo' \in Seq(DueStep)
              /\ lastFlush' \in Int /\ lastCatchUp' \in Int /\ lastSealed' \in Int
              /\ UNCHANGED <<scratch, splays, sealed>>
            <3>1. /\ wdbUp' = FALSE /\ buf' = {} /\ todo' = <<>>
                  /\ lastFlush' = NoTime /\ lastCatchUp' = NoTime /\ lastSealed' = NoDate
                  /\ UNCHANGED <<scratch, splays, sealed>>
                BY <1>6 DEF WdbDies, WdbCrash, diskVars
            <3>2. NoTime \in Int /\ NoDate \in Int
                BY DEF NoTime, NoDate
            <3>3. <<>> \in Seq(DueStep) /\ {} \in SUBSET Row
                OBVIOUS
            <3> QED
                BY <3>1, <3>2, <3>3
        <2>1. WdbInv'
            BY <1>0, <2>0, DueStays DEF SealInv, WdbInv
        <2> QED
            BY <1>0, <1>6, <2>1, PathAssumption, VanishKeeps DEF WdbDies, SealInv
    <1>7. CASE WdbStarts
        <2>1. <<CatchUpStep>> \in Seq(DueStep)
            BY DueSteps
        <2>2. todo' \in Seq(DueStep)
            BY <1>7, <2>1, ConnectStepsDue DEF WdbStarts, WdbStart
        <2>3. WdbInv'
            BY <1>0, <1>7, <2>2, DueStays
               DEF WdbStarts, WdbStart, SealInv, EnvInv, WdbInv, diskVars, NoDate
        <2> QED
            BY <1>0, <1>7, <2>3, TpKept DEF WdbStarts, TpSame, SealInv
    <1>8. CASE WdbReload \/ WdbDrop
        BY <1>0, <1>8, StepDoneKeeps, TpKept DEF WdbReload, WdbDrop, WdbAt, TpSame, SealInv
    <1>9. CASE UNCHANGED pathVars
        BY <1>0, <1>9, TpKept, WdbKept DEF pathVars, SealInv
    <1> QED
        BY <1>1, <1>2, <1>3, <1>4, <1>5, <1>6, <1>7, <1>8, <1>9 DEF PathNext, WriteStep

\* Type correctness of the write path.
THEOREM PathTypeCorrect == PathSpec => []PathTypeOK
    <1> QED
        BY InitSealInv, StepSealInv, SealInvTypes, PTL DEF PathSpec

\* tick.q announces, and wdb.q seals and catches up with, days that are over; an operator's
\* early .u.end is the one exception, and then it is the day in progress, never a later one.
THEOREM OnlyClosedDaysAreSealed == PathSpec => []SealsOnlyClosedDays
    <1>1. SealInv => SealsOnlyClosedDays
        BY DEF SealInv, WdbInv, ClosedFile, ClosedDates, SealsOnlyClosedDays
    <1> QED
        BY <1>1, InitSealInv, StepSealInv, PTL DEF PathSpec

-----------------------------------------------------------------------------
(* A scratch file is deleted only after its partition has its rows *)

SplayFailed == left["dpft"] < Budget["dpft"]

\* Every deletion that is planned follows the splay of the same file.
RetiresSplayed(steps) ==
    \A i \in 2 .. Len(steps) :
        steps[i].op = "retire" => steps[i - 1] = [op |-> "splay", file |-> steps[i].file]

\* The deletion that is due finds the rows in the partition.
NextIsSplayed ==
    todo # <<>> /\ Head(todo).op = "retire" => RowsOf(scratch, Head(todo).file) \subseteq sealed

RetireInv == RetiresSplayed(todo) /\ (SplayFailed \/ NextIsSplayed)

\* A plan put before the rest of another one that begins with no deletion.
LEMMA ConcatRetires ==
    ASSUME NEW p \in Seq(DueStep), NEW s \in Seq(DueStep), RetiresSplayed(p), RetiresSplayed(s),
           s # <<>> => s[1].op # "retire"
    PROVE  RetiresSplayed(p \o s)
    <1> SUFFICES ASSUME NEW i \in 2 .. Len(p \o s), (p \o s)[i].op = "retire"
                 PROVE  (p \o s)[i - 1] = [op |-> "splay", file |-> (p \o s)[i].file]
        BY DEF RetiresSplayed
    <1>1. Len(p \o s) = Len(p) + Len(s) /\ Len(p) \in Nat /\ Len(s) \in Nat
        OBVIOUS
    <1>2. CASE i <= Len(p)
        <2>1. (p \o s)[i] = p[i] /\ (p \o s)[i - 1] = p[i - 1] /\ i \in 2 .. Len(p)
            BY <1>1, <1>2
        <2> QED
            BY <2>1 DEF RetiresSplayed
    <1>3. CASE i = Len(p) + 1
        <2>1. (p \o s)[i] = s[1] /\ s # <<>>
            BY <1>1, <1>3
        <2> QED
            BY <2>1
    <1>4. CASE i > Len(p) + 1
        <2>1. /\ (p \o s)[i] = s[i - Len(p)] /\ (p \o s)[i - 1] = s[(i - Len(p)) - 1]
              /\ i - Len(p) \in 2 .. Len(s)
            BY <1>1, <1>4
        <2> QED
            BY <2>1 DEF RetiresSplayed
    <1> QED
        BY <1>1, <1>2, <1>3, <1>4

\* A concatenation begins as its first part.
LEMMA BeginsWith ==
    ASSUME NEW p \in Seq(DueStep), NEW s \in Seq(DueStep), Len(p) > 0
    PROVE  /\ p \o s # <<>> /\ (p \o s)[1] = p[1] /\ Head(p \o s) = p[1]
    OBVIOUS

\* The rest of a plan; it begins with a deletion only after a splay of that file.
LEMMA TailRetires ==
    ASSUME NEW s \in Seq(DueStep), s # <<>>, RetiresSplayed(s)
    PROVE  /\ RetiresSplayed(Tail(s))
           /\ Tail(s) # <<>> /\ Head(Tail(s)).op = "retire"
              => Head(s) = [op |-> "splay", file |-> Head(Tail(s)).file]
    <1>1. /\ Len(Tail(s)) = Len(s) - 1 /\ Len(s) \in Nat
          /\ \A i \in 1 .. Len(s) - 1 : Tail(s)[i] = s[i + 1]
        OBVIOUS
    <1>2. RetiresSplayed(Tail(s))
        <2> SUFFICES ASSUME NEW i \in 2 .. Len(Tail(s)), Tail(s)[i].op = "retire"
                     PROVE  Tail(s)[i - 1] = [op |-> "splay", file |-> Tail(s)[i].file]
            BY DEF RetiresSplayed
        <2>1. /\ i + 1 \in 2 .. Len(s) /\ (i + 1) - 1 = i /\ (i - 1) + 1 = i
              /\ i \in 1 .. Len(s) - 1 /\ i - 1 \in 1 .. Len(s) - 1
            BY <1>1
        <2>2. Tail(s)[i] = s[i + 1] /\ Tail(s)[i - 1] = s[i]
            BY <1>1, <2>1
        <2> QED
            BY <2>1, <2>2 DEF RetiresSplayed
    <1>3. ASSUME Tail(s) # <<>>, Head(Tail(s)).op = "retire"
          PROVE  Head(s) = [op |-> "splay", file |-> Head(Tail(s)).file]
        <2>1. 2 \in 2 .. Len(s) /\ Head(Tail(s)) = s[2] /\ Head(s) = s[2 - 1]
            BY <1>1, <1>3
        <2> QED
            BY <1>3, <2>1 DEF RetiresSplayed
    <1> QED
        BY <1>2, <1>3

\* .wdb.seal splays and then deletes.
LEMMA SealStepsRetire ==
    ASSUME NEW d \in ClosedDates
    PROVE  RetiresSplayed(SealSteps(d)) /\ SealSteps(d)[1].op = "clear" /\ SealSteps(d) # <<>>
    <1> DEFINE trade == [date |-> d, tbl |-> "trade"]
               risk == [date |-> d, tbl |-> "risk"]
    <1>1. trade \in ClosedFile /\ risk \in ClosedFile
        BY DEF ClosedFile, Tables
    <1>2. SealSteps(d) = SealFileSteps(trade) \o SealFileSteps(risk)
        BY DEF SealSteps
    <1> HIDE DEF trade, risk
    <1>3. ASSUME NEW f \in ClosedFile
          PROVE  /\ SealFileSteps(f) \in Seq(DueStep) /\ RetiresSplayed(SealFileSteps(f))
                 /\ SealFileSteps(f)[1].op = "clear" /\ Len(SealFileSteps(f)) = 3
        <2>1. SealFileSteps(f) \in Seq(DueStep)
            BY DueSteps DEF SealFileSteps
        <2>2. RetiresSplayed(SealFileSteps(f))
            BY DEF SealFileSteps, RetiresSplayed
        <2> QED
            BY <2>1, <2>2 DEF SealFileSteps
    <1>4. RetiresSplayed(SealSteps(d))
        BY <1>1, <1>2, <1>3, ConcatRetires
    <1>5. SealSteps(d)[1] = SealFileSteps(trade)[1] /\ SealSteps(d) # <<>>
        BY <1>1, <1>2, <1>3, BeginsWith
    <1> QED
        BY <1>1, <1>3, <1>4, <1>5

\* The steps that delete nothing.
PlainStep == {s \in DueStep : s.op # "retire"}

\* A plan that deletes no file deletes none before its time.
LEMMA PlainRetires ==
    ASSUME NEW s \in Seq(PlainStep)
    PROVE  /\ s \in Seq(DueStep) /\ RetiresSplayed(s)
           /\ s # <<>> => Head(s).op # "retire" /\ s[1].op # "retire"
    <1>1. PlainStep \subseteq DueStep
        BY DEF PlainStep
    <1>2. \A i \in 1 .. Len(s) : s[i] \in PlainStep
        OBVIOUS
    <1>3. \A i \in 1 .. Len(s) : s[i].op # "retire"
        BY <1>2 DEF PlainStep
    <1>4. s \in Seq(DueStep)
        BY <1>1, SeqMonotonic
    <1>5. RetiresSplayed(s)
        <2>1. Len(s) \in Nat
            OBVIOUS
        <2> QED
            BY <1>3, <2>1 DEF RetiresSplayed
    <1>6. s # <<>> => 1 \in 1 .. Len(s) /\ Head(s) = s[1]
        OBVIOUS
    <1> QED
        BY <1>3, <1>4, <1>5, <1>6

\* The steps that delete no file.
LEMMA PlainSteps ==
    /\ FlushStep \in PlainStep /\ CatchUpStep \in PlainStep /\ ReloadStep \in PlainStep
    /\ \A wm \in Int : WatermarkStep(wm) \in PlainStep
    /\ \A d \in Int : DropStep(d) \in PlainStep /\ SealedStep(d) \in PlainStep
    /\ ConnectSteps \in Seq(PlainStep)
    <1>1. \A t \in Tables : SubStep(t) \in PlainStep
        BY DueSteps DEF PlainStep, SubStep
    <1>2. ConnectSteps \in Seq(PlainStep)
        BY <1>1 DEF ConnectSteps, Tables
    <1> QED
        BY <1>2, DueSteps DEF PlainStep, FlushStep, CatchUpStep, ReloadStep, WatermarkStep,
                              DropStep, SealedStep

\* What .wdb.eod and .wdb.catchUpSeals plan: the seal, and then what is not a deletion.
LEMMA PlanRetires ==
    ASSUME NEW d \in ClosedDates, NEW s \in Seq(PlainStep)
    PROVE  LET plan == SealSteps(d) \o s
           IN  /\ plan \in Seq(DueStep) /\ RetiresSplayed(plan)
               /\ plan # <<>> /\ Head(plan).op # "retire"
    <1>1. s \in Seq(DueStep) /\ RetiresSplayed(s) /\ (s # <<>> => s[1].op # "retire")
        BY PlainRetires
    <1>2. SealSteps(d) \in Seq(DueStep) /\ RetiresSplayed(SealSteps(d))
        BY SealStepsDue, SealStepsRetire
    <1>3. RetiresSplayed(SealSteps(d) \o s)
        BY <1>1, <1>2, ConcatRetires
    <1>4. SealSteps(d)[1].op = "clear" /\ SealSteps(d) # <<>>
        BY SealStepsRetire
    <1>5. Head(SealSteps(d) \o s) = SealSteps(d)[1] /\ SealSteps(d) \o s # <<>>
        BY <1>1, <1>2, <1>4
    <1> QED
        BY <1>1, <1>2, <1>3, <1>4, <1>5

\* What touches neither the plan nor the files.
LEMMA RetireKept ==
    ASSUME RetireInv, UNCHANGED <<todo, scratch, sealed>>, SplayFailed => SplayFailed'
    PROVE  RetireInv'
    BY DEF RetireInv, RetiresSplayed, NextIsSplayed

\* A plan that does not begin with a deletion.
LEMMA Planned ==
    ASSUME RetiresSplayed(todo'), todo' # <<>> => Head(todo').op # "retire"
    PROVE  RetireInv'
    BY DEF RetireInv, RetiresSplayed, NextIsSplayed

\* After a step that is no splay there is no deletion.
LEMMA StepTaken ==
    ASSUME WdbInv, RetireInv, todo # <<>>, Head(todo).op # "splay", todo' = Tail(todo)
    PROVE  RetireInv'
    <1>1. todo \in Seq(DueStep) /\ RetiresSplayed(todo)
        BY DEF WdbInv, RetireInv
    <1>2. /\ RetiresSplayed(Tail(todo))
          /\ Tail(todo) # <<>> /\ Head(Tail(todo)).op = "retire"
             => Head(todo) = [op |-> "splay", file |-> Head(Tail(todo)).file]
        BY <1>1, TailRetires
    <1>3. Tail(todo) # <<>> => Head(Tail(todo)).op # "retire"
        BY <1>2
    <1> QED
        BY <1>2, <1>3, Planned

\* A plan put before the rest of the handler's.
LEMMA PutBefore ==
    ASSUME WdbInv, RetireInv, todo # <<>>, Head(todo).op # "splay",
           NEW p \in Seq(DueStep), RetiresSplayed(p), p # <<>> => Head(p).op # "retire",
           todo' = p \o Tail(todo)
    PROVE  RetireInv'
    <1>1. todo \in Seq(DueStep) /\ RetiresSplayed(todo) /\ Tail(todo) \in Seq(DueStep)
        BY DEF WdbInv, RetireInv
    <1>2. RetiresSplayed(Tail(todo)) /\ (Tail(todo) # <<>> => Tail(todo)[1].op # "retire")
        <2>1. /\ RetiresSplayed(Tail(todo))
              /\ Tail(todo) # <<>> /\ Head(Tail(todo)).op = "retire"
                 => Head(todo) = [op |-> "splay", file |-> Head(Tail(todo)).file]
            BY <1>1, TailRetires
        <2>2. Tail(todo) # <<>> => Head(Tail(todo)).op # "retire"
            BY <2>1
        <2>3. Tail(todo) # <<>> => Head(Tail(todo)) = Tail(todo)[1]
            BY <1>1
        <2> QED
            BY <2>1, <2>2, <2>3
    <1>3. RetiresSplayed(p \o Tail(todo))
        BY <1>1, <1>2, ConcatRetires
    <1>4. p \o Tail(todo) # <<>> => Head(p \o Tail(todo)).op # "retire"
        <2>1. CASE p = <<>>
            <3>1. p \o Tail(todo) = Tail(todo)
                BY <1>1, <2>1
            <3>2. Tail(todo) # <<>> => Head(Tail(todo)) = Tail(todo)[1]
                BY <1>1
            <3> QED
                BY <1>2, <3>1, <3>2
        <2>2. CASE p # <<>>
            <3>1. Len(p) > 0 /\ Head(p) = p[1]
                BY <2>2
            <3> QED
                BY <1>1, <2>2, <3>1, BeginsWith
        <2> QED
            BY <2>1, <2>2
    <1> QED
        BY <1>3, <1>4, Planned

\* The splay is what the deletion waits for.
LEMMA SplayRetires ==
    ASSUME WdbInv, RetireInv, WdbSplayStep, SplayFailed => SplayFailed', EnvInv
    PROVE  RetireInv'
    <1>1. todo # <<>> /\ Head(todo).op = "splay" /\ todo' = Tail(todo) /\ UNCHANGED scratch
        BY DEF WdbSplayStep, WdbSplay, WdbAt
    <1>2. /\ RetiresSplayed(Tail(todo))
          /\ Tail(todo) # <<>> /\ Head(Tail(todo)).op = "retire"
             => Head(todo) = [op |-> "splay", file |-> Head(Tail(todo)).file]
        BY <1>1, TailRetires DEF WdbInv, RetireInv
    <1>3. CASE WdbSplay(TRUE)
        <2>1. RowsOf(scratch, Head(todo).file) \subseteq sealed'
            BY <1>3 DEF WdbSplay
        <2>2. NextIsSplayed'
            <3> SUFFICES ASSUME todo' # <<>>, Head(todo').op = "retire"
                         PROVE  RowsOf(scratch', Head(todo').file) \subseteq sealed'
                BY DEF NextIsSplayed, RowsOf
            <3>1. Head(todo) = [op |-> "splay", file |-> Head(todo').file]
                BY <1>1, <1>2
            <3>2. Head(todo).file = Head(todo').file
                BY <3>1
            <3> QED
                BY <1>1, <2>1, <3>2
        <2> QED
            BY <1>1, <1>2, <2>2 DEF RetireInv, RetiresSplayed
    <1>4. CASE Fault("dpft")
        <2>1. SplayFailed'
            <3>1. "dpft" \in FaultKinds
                BY DEF FaultKinds
            <3>2. left["dpft"] \in Nat /\ Budget["dpft"] \in Nat /\ left["dpft"] <= Budget["dpft"]
                BY <3>1, PathAssumption DEF EnvInv
            <3>3. left'["dpft"] = left["dpft"] - 1
                BY <1>4, <3>1 DEF Fault, EnvInv
            <3> QED
                BY <3>2, <3>3 DEF SplayFailed
        <2> QED
            BY <1>1, <1>2, <2>1 DEF RetireInv, RetiresSplayed
    <1> QED
        BY <1>3, <1>4 DEF WdbSplayStep

\* The first plan is empty.
LEMMA InitRetireInv == PathInit => RetireInv
    BY DEF PathInit, WdbInit, RetireInv, RetiresSplayed, NextIsSplayed

LEMMA StepRetireInv == SealInv /\ RetireInv /\ [PathNext]_pathVars => RetireInv'
    <1> SUFFICES ASSUME SealInv, RetireInv, [PathNext]_pathVars PROVE RetireInv'
        OBVIOUS
    <1> USE DEF SealInv
    <1>0. SplayFailed => SplayFailed'
        <2>1. \A k \in FaultKinds : left'[k] <= left[k] /\ left[k] \in Nat /\ left'[k] \in Nat
            BY StepEnv, EnvKept DEF pathVars, EnvInv
        <2> QED
            BY <2>1, PathAssumption DEF SplayFailed, FaultKinds
    <1>1. CASE TpStep
        BY <1>0, <1>1, RetireKept
           DEF TpStep, Tick, Linger, Feed, TpTimer, ForceEnd, TpCrash, Cut, WdbSame, wdbVars, diskVars
    <1>2. CASE WdbReceive
        <2>1. PICK m \in DueMessage : WdbHandle(m)
            <3>1. Head(chan["wdb"]) \in DueMessage
                BY <1>2, PathAssumption DEF WdbReceive, Consume, TpInv
            <3> QED
                BY <1>2, <3>1 DEF WdbReceive
        <2>2. CASE UNCHANGED <<todo, scratch, sealed>>
            BY <1>0, <2>2, RetireKept
        <2>3. CASE m.kind = "eod" /\ WdbEod(m.date)
            <3>1. m.date \in ClosedDates
                BY <2>3 DEF DueMessage
            <3>2. m.date \in Int /\ Midnight(m.date + 1) \in Int
                BY <3>1, DayLenAssumption DEF ClosedDates, Midnight
            <3>3. <<WatermarkStep(Midnight(m.date + 1)), ReloadStep, DropStep(m.date),
                    SealedStep(m.date)>> \in Seq(PlainStep)
                BY <3>2, PlainSteps
            <3> QED
                BY <2>3, <3>1, <3>3, PlanRetires, Planned DEF WdbEod
        <2> QED
            BY <2>1, <2>2, <2>3 DEF WdbHandle, WdbUpd, wdbVars, diskVars
    <1>3. CASE WdbTick
        <2>1. PICK connect \in BOOLEAN : WdbTimer(now, connect)
            BY <1>3 DEF WdbTick, WdbTickWith
        <2>2. /\ (IF connect THEN ConnectSteps ELSE <<>>) \in Seq(PlainStep)
              /\ (IF FlushDue(now) THEN <<FlushStep>> ELSE <<>>) \in Seq(PlainStep)
              /\ (IF CatchUpDue(now) THEN <<CatchUpStep>> ELSE <<>>) \in Seq(PlainStep)
            BY PlainSteps
        <2>3. todo' \in Seq(PlainStep)
            BY <2>1, <2>2 DEF WdbTimer
        <2> QED
            BY <2>3, PlainRetires, Planned
    <1>4. CASE WdbSplayStep
        BY <1>0, <1>4, SplayRetires
    <1>5. CASE WdbFlushStep
        <2>1. now - RetentionIntv \in Int
            BY WdbAssumption DEF EnvInv, RetentionIntv
        <2>2. <<WatermarkStep(now - RetentionIntv)>> \in Seq(PlainStep)
            BY <2>1, PlainSteps
        <2>3. todo # <<>> /\ Head(todo).op # "splay"
              /\ todo' = <<WatermarkStep(now - RetentionIntv)>> \o Tail(todo)
            BY <1>5 DEF WdbFlushStep, WdbFlush, WdbAt
        <2> QED
            BY <2>2, <2>3, PlainRetires, PutBefore
    <1>6. CASE WdbCatchUpStep
        <2> DEFINE t == TradingDate(now)
                   d == Min(Backlog(t))
                   plan == IF Backlog(t) = {} THEN <<>> ELSE SealSteps(d) \o <<ReloadStep, DropStep(d)>>
        <2>1. t \in Int
            BY TradingDateInt DEF EnvInv
        <2>2. todo # <<>> /\ Head(todo).op # "splay" /\ todo' = plan \o Tail(todo)
            BY <1>6 DEF WdbCatchUpStep, WdbCatchUp, WdbAt
        <2>3. /\ plan \in Seq(DueStep) /\ RetiresSplayed(plan)
              /\ plan # <<>> => Head(plan).op # "retire"
            <3>1. CASE Backlog(t) = {}
                BY <3>1 DEF RetiresSplayed
            <3>2. CASE Backlog(t) # {}
                <4>1. d \in Backlog(t)
                    BY <2>1, <3>2, OldestLeftBehind
                <4>2. d \in Int
                    BY <4>1, DayLenAssumption
                       DEF WdbInv, Backlog, ScratchDates, ScratchFiles, FileOf, DateOf, Row
                <4>3. d \in ClosedDates
                    BY <4>1, <4>2 DEF Backlog, ClosedDates
                <4>4. <<ReloadStep, DropStep(d)>> \in Seq(PlainStep)
                    BY <4>2, PlainSteps
                <4> HIDE DEF d
                <4> QED
                    BY <3>2, <4>3, <4>4, PlanRetires
            <3> QED
                BY <3>1, <3>2
        <2> HIDE DEF plan
        <2> QED
            BY <2>2, <2>3, PutBefore
    <1>7. CASE \/ WdbSubscribe \/ WdbAnnounce \/ WdbClearStep \/ WdbRetireStep \/ WdbSealedStep
               \/ WdbReload \/ WdbDrop
        <2>1. todo # <<>> /\ Head(todo).op # "splay" /\ todo' = Tail(todo)
            BY <1>7 DEF WdbSubscribe, WdbAnnounce, WdbClearStep, WdbRetireStep, WdbSealedStep,
                        WdbReload, WdbDrop, WdbClear, WdbRetire, WdbSealed, WdbAt, WdbStepDone
        <2> QED
            BY <2>1, StepTaken
    <1>8. CASE WdbAnnounceFails
        <2>1. todo # <<>> /\ Head(todo).op # "splay" /\ todo' \in {Tail(todo), <<>>}
            BY <1>8 DEF WdbAnnounceFails, WdbAt
        <2>2. CASE todo' = Tail(todo)
            BY <2>1, <2>2, StepTaken
        <2>3. CASE todo' = <<>>
            BY <2>3, Planned DEF RetiresSplayed
        <2> QED
            BY <2>1, <2>2, <2>3
    <1>9. CASE WdbDies
        <2>1. todo' = <<>>
            BY <1>9 DEF WdbDies, WdbCrash
        <2> QED
            BY <2>1, Planned DEF RetiresSplayed
    <1>10. CASE WdbStarts
        <2>1. <<CatchUpStep>> \in Seq(PlainStep) /\ ConnectSteps \in Seq(PlainStep)
            BY PlainSteps
        <2>2. todo' \in Seq(PlainStep)
            BY <1>10, <2>1 DEF WdbStarts, WdbStart
        <2> QED
            BY <2>2, PlainRetires, Planned
    <1>11. CASE UNCHANGED pathVars
        BY <1>0, <1>11, RetireKept DEF pathVars, wdbVars, diskVars
    <1> QED
        BY <1>1, <1>2, <1>3, <1>4, <1>5, <1>6, <1>7, <1>8, <1>9, <1>10, <1>11
           DEF PathNext, WriteStep, WdbOwnStep

\* Only the deletion takes rows out of the scratch files.
LEMMA OnlyRetireDeletes ==
    ASSUME SealInv, RetireInv, [PathNext]_pathVars
    PROVE  scratch \ scratch' \subseteq sealed' \/ SplayFailed
    <1>1. CASE WdbRetireStep
        <2>1. /\ todo # <<>> /\ Head(todo).op = "retire" /\ UNCHANGED sealed
              /\ scratch' = scratch \ RowsOf(scratch, Head(todo).file)
            BY <1>1 DEF WdbRetireStep, WdbRetire, WdbAt
        <2> QED
            BY <2>1 DEF RetireInv, NextIsSplayed
    <1>2. CASE ~WdbRetireStep
        <2>1. scratch \subseteq scratch'
            <3>1. CASE TpStep
                BY <3>1 DEF TpStep, Tick, Linger, Feed, TpTimer, ForceEnd, TpCrash, Cut,
                            WdbSame, diskVars
            <3>2. CASE WdbReceive
                BY <3>2 DEF WdbReceive, WdbHandle, WdbUpd, WdbEod, FlushTo, diskVars
            <3>3. CASE WdbOwnStep
                BY <1>2, <3>3
                   DEF WdbOwnStep, WdbSubscribe, WdbAnnounce, WdbStepDone, WdbFlushStep, WdbFlush,
                       FlushTo, WdbCatchUpStep, WdbCatchUp, WdbClearStep, WdbClear, WdbSplayStep,
                       WdbSplay, WdbSealedStep, WdbSealed, diskVars
            <3>4. CASE \/ WdbTick \/ WdbAnnounceFails \/ WdbDies \/ WdbStarts \/ WdbReload \/ WdbDrop
                BY <3>4 DEF WdbTick, WdbTickWith, WdbTimer, WdbAnnounceFails, WdbDies, WdbCrash,
                            WdbStarts, WdbStart, WdbReload, WdbDrop, WdbStepDone, diskVars
            <3>5. CASE UNCHANGED pathVars
                BY <3>5 DEF pathVars, diskVars
            <3> QED
                BY <3>1, <3>2, <3>3, <3>4, <3>5 DEF PathNext, WriteStep
        <2> QED
            BY <2>1
    <1> QED
        BY <1>1, <1>2

\* .wdb.seal: whatever the interleaving and wherever a process dies, a scratch file goes only
\* once its partition has its rows, unless a .Q.dpft has signalled.
THEOREM RetiredIntoHdb == PathSpec => RetiredOnlyIntoHdb
    <1>1. SealInv /\ RetireInv /\ [PathNext]_pathVars
          => [scratch \ scratch' \subseteq sealed' \/ left["dpft"] < Budget["dpft"]]_pathVars
        BY OnlyRetireDeletes DEF SplayFailed
    <1> QED
        BY <1>1, InitSealInv, StepSealInv, InitRetireInv, StepRetireInv, PTL
           DEF PathSpec, RetiredOnlyIntoHdb

-----------------------------------------------------------------------------
(* A write path in which nothing fails: the days it seals are whole *)

\* The hypothesis: the write-down database stays subscribed to both tables (so that neither
\* process dies and the tickerplant does not drop it), no .Q.dpft signals, and the catch-up
\* check finds nothing left behind.
Undisturbed ==
    /\ \A t \in Tables : "wdb" \in subs'[t]
    /\ left'["dpft"] = left["dpft"]
    /\ WdbCatchUpStep => Backlog(TradingDate(now)) = {}

Connected == wdbUp /\ \A t \in Tables : "wdb" \in subs[t]

\* The handler that runs is the end of a day; the last day that was begun to be handled, and how
\* many steps of its end are left.
Sealing == todo # <<>> /\ todo[Len(todo)].op = "sealed"
Handled == IF Sealing THEN todo[Len(todo)].date ELSE lastSealed
StepsLeft == IF Sealing THEN Len(todo) ELSE 0

\* How many steps are left when a table's turn comes: first its partition is cleared, then its
\* scratch file splayed, then retired.
Turn(t) == IF t = "trade" THEN 10 ELSE 7

\* The step with which m are left, this one included.
StepLeft(d, m) ==
    CASE m \in {10, 7} -> [op |-> "clear", file |-> [date |-> d, tbl |-> IF m = 10 THEN "trade" ELSE "risk"]]
      [] m \in {9, 6} -> [op |-> "splay", file |-> [date |-> d, tbl |-> IF m = 9 THEN "trade" ELSE "risk"]]
      [] m \in {8, 5} -> [op |-> "retire", file |-> [date |-> d, tbl |-> IF m = 8 THEN "trade" ELSE "risk"]]
      [] m = 4 -> WatermarkStep(Midnight(d + 1))
      [] m = 3 -> ReloadStep
      [] m = 2 -> DropStep(d)
      [] m = 1 -> SealedStep(d)

\* What is planned is the rest of the end of a day not sealed before, or a flush or catch-up check.
PlanInv ==
    IF Sealing
    THEN /\ lastSealed < Handled /\ Len(todo) <= 10
         /\ \A i \in 1 .. Len(todo) : todo[i] = StepLeft(Handled, Len(todo) + 1 - i)
    ELSE \A i \in 1 .. Len(todo) : todo[i].op \in {"flush", "catchup", "watermark"}

\* Days are announced in their order, each once: those on their way are later than the last one
\* handled and earlier than today.
Eods(q, h, d) ==
    /\ h < d
    /\ \A i \in DOMAIN q : q[i].kind = "eod" =>
          /\ h < q[i].date /\ q[i].date < d
          /\ \A j \in DOMAIN q : q[j].kind = "eod" /\ i < j => q[i].date < q[j].date
EodsInv == Eods(chan["wdb"], Handled, today)

\* With n steps of the end of day h left, the file of table t of day d is in the partitions.
Past(h, n, d, t) == d < h \/ (d = h /\ n <= Turn(t) - 2)

\* The row is in a partition already and its scratch file goes next.
Retiring(h, n, r) == DateOf(r.time) = h /\ n = Turn(r.tbl) - 2

\* A row is in one place, but between splaying and retiring its file; in a partition only when
\* its turn has come.
Held(h, n) ==
    /\ buf \cap (scratch \cup sealed) = {}
    /\ \A r \in scratch : r \in sealed <=> Retiring(h, n, r)
    /\ \A r \in sealed : Past(h, n, DateOf(r.time), r.tbl)

\* No row of the queue is another time in it, or among the rows R.
Fresh(q, R) ==
    \A i \in DOMAIN q : q[i].kind = "upd" =>
        /\ q[i].row \notin R
        /\ \A j \in DOMAIN q : q[j].kind = "upd" /\ q[j].row = q[i].row => i = j

PlacesInv ==
    /\ Fresh(chan["wdb"], buf \cup scratch \cup sealed)
    /\ RowsIn(chan["wdb"]) \cup buf \cup scratch \cup sealed \subseteq LoggedRows
    /\ Held(Handled, StepsLeft)

\* There are the partitions whose turn has come, of a day in both tables or in none.
Parts(h, n) ==
    /\ \A d \in Int : \A t, u \in Tables :
          [date |-> d, tbl |-> t] \in splays =>
             /\ Past(h, n, d, t)
             /\ Past(h, n, d, u) => [date |-> d, tbl |-> u] \in splays
    /\ n > 0 => \A t \in Tables : n <= Turn(t) - 2 => [date |-> h, tbl |-> t] \in splays

PartitionsInv == Parts(Handled, StepsLeft)

\* The row carries the date of the day it was logged in.
OfItsDay(e) == DateOf(e.row.time) = e.date

Inbox == chan["wdb"]

Brings(q, i, r) == q[i].kind = "upd" /\ q[i].row = r
OnItsWay(q, r) == \E j \in DOMAIN q : Brings(q, j, r)

\* No day before the row's own is announced behind the row.
Arrived(q, e) ==
    \A i \in DOMAIN q : q[i].kind = "eod" /\ (\A j \in DOMAIN q : Brings(q, j, e.row) => j < i)
                         => e.date <= q[i].date

\* The end of the row's day is on its way, and the row is not behind it.
EndsAfter(q, e) ==
    \E i \in DOMAIN q : /\ q[i].kind = "eod" /\ q[i].date = e.date
                        /\ \A j \in DOMAIN q : Brings(q, j, e.row) => j < i

\* Where a row is: on its way or in memory until the end of its day, in a scratch file from then
\* at the latest, and in a partition from the turn of its table on.
Kept(q, h, n, e) ==
    IF e.date <= h
    THEN IF Past(h, n, e.date, e.row.tbl) THEN e.row \in sealed ELSE e.row \in scratch
    ELSE e.row \in scratch \/ (e.row \in buf /\ n = 0) \/ OnItsWay(q, e.row)

Followed(q, h, n, d, e) ==
    /\ e.date <= d
    /\ Arrived(q, e)
    /\ OfItsDay(e) => /\ Kept(q, h, n, e)
                      /\ e.date < d /\ h < e.date => EndsAfter(q, e)

RowsInv == \A e \in logged : Followed(Inbox, Handled, StepsLeft, today, e)

DayInv == Connected /\ PlanInv /\ EodsInv /\ PlacesInv /\ PartitionsInv /\ RowsInv

-----------------------------------------------------------------------------
(* What a step does to the queue and to the places of the rows *)

QueueStays == Inbox' = Inbox /\ UNCHANGED <<logged, today>>
QueueRead == Inbox # <<>> /\ Inbox' = Tail(Inbox) /\ UNCHANGED <<logged, today>>
RowSent ==
    \E r \in Row : /\ r \notin LoggedRows
                   /\ logged' = logged \cup {[date |-> today, row |-> r]}
                   /\ Inbox' = Append(Inbox, UpdMsg(r)) /\ UNCHANGED today
MarkSent == \E wm \in Int : Inbox' = Append(Inbox, ShedMsg(wm)) /\ UNCHANGED <<logged, today>>
EndSent == today < today' /\ Inbox' = Append(Inbox, EodMsg(today)) /\ UNCHANGED logged

RowsStay ==
    /\ UNCHANGED <<Handled, buf, scratch, splays, sealed>>
    /\ StepsLeft' = StepsLeft \/ (StepsLeft \in 1 .. 4 /\ StepsLeft' = StepsLeft - 1)
RowBuffered ==
    /\ Head(Inbox).kind = "upd" /\ buf' = buf \cup {Head(Inbox).row}
    /\ StepsLeft = 0 /\ UNCHANGED <<Handled, StepsLeft, scratch, splays, sealed>>
RowsFlushed ==
    /\ StepsLeft = 0 /\ UNCHANGED <<Handled, StepsLeft, splays, sealed>>
    /\ \E cutoff \in Int : FlushTo(cutoff)
DayBegun ==
    /\ Head(Inbox).kind = "eod" /\ Handled' = Head(Inbox).date
    /\ StepsLeft = 0 /\ StepsLeft' = 10 /\ UNCHANGED <<splays, sealed>>
    /\ FlushTo(Midnight(Head(Inbox).date + 1))

DayFile(t) == [date |-> Handled, tbl |-> t]
Cleared(t) ==
    /\ StepsLeft = Turn(t) /\ StepsLeft' = Turn(t) - 1 /\ UNCHANGED <<Handled, scratch>>
    /\ buf' = {r \in buf : r.tbl # t}
    /\ sealed' = sealed \ RowsOf(sealed, DayFile(t)) /\ splays' = splays \ {DayFile(t)}
Splayed(t) ==
    /\ StepsLeft = Turn(t) - 1 /\ StepsLeft' = Turn(t) - 2 /\ UNCHANGED <<Handled, buf, scratch>>
    /\ sealed' = sealed \cup RowsOf(scratch, DayFile(t)) /\ splays' = splays \cup {DayFile(t)}
Retired(t) ==
    /\ StepsLeft = Turn(t) - 2 /\ StepsLeft' = Turn(t) - 3 /\ UNCHANGED <<Handled, buf, splays, sealed>>
    /\ scratch' = scratch \ RowsOf(scratch, DayFile(t))

DayMove ==
    \/ (QueueStays \/ RowSent \/ MarkSent \/ EndSent) /\ RowsStay
    \/ QueueStays /\ (RowsFlushed \/ \E t \in Tables : Cleared(t) \/ Splayed(t) \/ Retired(t))
    \/ QueueRead /\ ((Head(Inbox).kind = "shed" /\ RowsStay) \/ RowBuffered \/ DayBegun)

-----------------------------------------------------------------------------
(* The plan of the handler that runs *)

RoutineOp == {"flush", "catchup", "watermark"}

\* What is due, and how it counts the steps.
LEMMA PlanNow ==
    ASSUME SealInv, PlanInv
    PROVE  /\ Handled \in Int /\ StepsLeft \in 0 .. 10 /\ (StepsLeft = 0 <=> ~Sealing)
           /\ StepsLeft = 0 => Handled = lastSealed
           /\ todo # <<>> => IF Sealing THEN /\ StepsLeft = Len(todo)
                                             /\ Head(todo) = StepLeft(Handled, StepsLeft)
                                        ELSE Head(todo).op \in RoutineOp
    <1>1. todo \in Seq(DueStep) /\ lastSealed \in Int
        BY DEF SealInv, WdbInv
    <1>2. CASE Sealing
        <2>1. Len(todo) \in Nat \ {0} /\ todo[Len(todo)] \in DueStep /\ todo[Len(todo)].op = "sealed" /\ Head(todo) = todo[1]
            BY <1>1, <1>2 DEF Sealing
        <2>2. \A s \in DueStep : s.op = "sealed" => s.date \in Int
            BY DEF DueStep
        <2>3. Handled \in Int
            BY <1>2, <2>1, <2>2 DEF Handled
        <2>4. PICK n \in Nat \ {0} : n = Len(todo)
            BY <2>1
        <2>5. todo[1] = StepLeft(Handled, n + 1 - 1) /\ n + 1 - 1 = n
            BY <1>2, <2>4 DEF PlanInv
        <2>6. StepsLeft = n /\ n <= 10
            BY <1>2, <2>4 DEF StepsLeft, PlanInv
        <2>7. Head(todo) = StepLeft(Handled, StepsLeft)
            BY <2>1, <2>5, <2>6
        <2>8. StepsLeft \in 0 .. 10 /\ StepsLeft # 0 /\ StepsLeft = Len(todo)
            <3>1. n \in 0 .. 10 /\ n # 0
                BY <2>6
            <3>2. StepsLeft = n /\ n = Len(todo)
                BY <2>4, <2>6
            <3> QED
                BY <3>1, <3>2
        <2> QED
            BY <1>2, <2>3, <2>7, <2>8
    <1>3. CASE ~Sealing
        <2>1. StepsLeft = 0 /\ Handled = lastSealed
            BY <1>3 DEF StepsLeft, Handled
        <2>2. ASSUME todo # <<>> PROVE Head(todo).op \in RoutineOp
            <3>1. Head(todo) = todo[1] /\ 1 \in 1 .. Len(todo)
                BY <1>1, <2>2
            <3> QED
                BY <1>3, <3>1 DEF PlanInv, RoutineOp
        <2> QED
            BY <1>1, <1>3, <2>1, <2>2
    <1> QED
        BY <1>2, <1>3

\* A handler that seals nothing.
LEMMA RoutinePlanned ==
    ASSUME SealInv, PlanInv, ~Sealing, UNCHANGED lastSealed,
           todo' \in Seq(DueStep), \A i \in 1 .. Len(todo') : todo'[i].op \in RoutineOp
    PROVE  PlanInv' /\ UNCHANGED <<Handled, StepsLeft>> /\ StepsLeft = 0
    <1>1. ~Sealing'
        <2> SUFFICES ASSUME todo' # <<>> PROVE todo'[Len(todo')].op # "sealed"
            BY DEF Sealing
        <2>1. Len(todo') \in 1 .. Len(todo')
            OBVIOUS
        <2> QED
            BY <2>1 DEF RoutineOp
    <1>2. PlanInv'
        BY <1>1 DEF PlanInv, RoutineOp
    <1>3. StepsLeft = 0 /\ StepsLeft' = 0 /\ Handled = lastSealed /\ Handled' = lastSealed'
        BY <1>1 DEF StepsLeft, Handled
    <1> QED
        BY <1>2, <1>3

\* The rest of such a handler.
LEMMA RoutineGoesOn ==
    ASSUME SealInv, PlanInv, ~Sealing, UNCHANGED lastSealed, todo # <<>>,
           NEW s \in Seq(DueStep), \A i \in 1 .. Len(s) : s[i].op \in RoutineOp,
           todo' = s \o Tail(todo)
    PROVE  PlanInv' /\ UNCHANGED <<Handled, StepsLeft>> /\ StepsLeft = 0
    <1>1. todo \in Seq(DueStep) /\ \A i \in 1 .. Len(todo) : todo[i].op \in RoutineOp
        BY DEF SealInv, WdbInv, PlanInv, RoutineOp
    <1>2. PICK r \in Seq(DueStep) : r = Tail(todo)
        <2>1. Tail(todo) \in Seq(DueStep)
            BY <1>1
        <2> QED
            BY <2>1
    <1>3. \A i \in 1 .. Len(r) : r[i].op \in RoutineOp
        <2>1. Len(r) = Len(todo) - 1 /\ \A i \in 1 .. Len(r) : r[i] = todo[i + 1] /\ i + 1 \in 1 .. Len(todo)
            BY <1>1, <1>2
        <2> QED
            BY <1>1, <2>1
    <1>4. s \o r \in Seq(DueStep) /\ \A i \in 1 .. Len(s \o r) : (s \o r)[i].op \in RoutineOp
        <2>1. s \o r \in Seq(DueStep) /\ Len(s \o r) = Len(s) + Len(r) /\ Len(s) \in Nat /\ Len(r) \in Nat
            OBVIOUS
        <2>2. ASSUME NEW i \in 1 .. Len(s \o r) PROVE (s \o r)[i].op \in RoutineOp
            <3>1. CASE i <= Len(s)
                BY <2>1, <3>1
            <3>2. CASE i > Len(s)
                <4>1. (s \o r)[i] = r[i - Len(s)] /\ i - Len(s) \in 1 .. Len(r)
                    BY <2>1, <3>2
                <4> QED
                    BY <1>3, <4>1
            <3> QED
                BY <2>1, <3>1, <3>2
        <2> QED
            BY <2>1, <2>2
    <1> QED
        BY <1>2, <1>4, RoutinePlanned

\* The steps of the end of a day, by the number of those that are left.
LEMMA StepsNamed ==
    ASSUME NEW d
    PROVE  LET f == [date |-> d, tbl |-> "trade"]
               g == [date |-> d, tbl |-> "risk"]
           IN  /\ StepLeft(d, 10) = [op |-> "clear", file |-> f] /\ StepLeft(d, 9) = [op |-> "splay", file |-> f]
               /\ StepLeft(d, 8) = [op |-> "retire", file |-> f]
               /\ StepLeft(d, 7) = [op |-> "clear", file |-> g] /\ StepLeft(d, 6) = [op |-> "splay", file |-> g]
               /\ StepLeft(d, 5) = [op |-> "retire", file |-> g]
               /\ StepLeft(d, 4) = WatermarkStep(Midnight(d + 1)) /\ StepLeft(d, 3) = ReloadStep
               /\ StepLeft(d, 2) = DropStep(d) /\ StepLeft(d, 1) = SealedStep(d)
    BY DEF StepLeft

\* The places of two sequences put together.
LEMMA Concat ==
    ASSUME NEW p \in Seq(DueStep), NEW s \in Seq(DueStep), NEW u, u = p \o s
    PROVE  /\ u \in Seq(DueStep) /\ Len(u) = Len(p) + Len(s)
           /\ \A i \in 1 .. Len(p) : u[i] = p[i]
           /\ \A i \in 1 .. Len(s) : u[Len(p) + i] = s[i]
    OBVIOUS

\* The end of a day is a plan of ten steps.
EodSteps(d) ==
    SealSteps(d) \o <<WatermarkStep(Midnight(d + 1)), ReloadStep, DropStep(d), SealedStep(d)>>

\* They are the steps StepLeft names, in its order.
LEMMA EodPlan ==
    ASSUME NEW d \in ClosedDates
    PROVE  Len(EodSteps(d)) = 10 /\ \A i \in 1 .. 10 : EodSteps(d)[i] = StepLeft(d, 11 - i)
    <1>0. d \in Int /\ Midnight(d + 1) \in Int
        BY DayLenAssumption DEF ClosedDates, Midnight
    <1>1. PICK a \in Seq(DueStep) : a = SealFileSteps([date |-> d, tbl |-> "trade"])
        <2>1. [date |-> d, tbl |-> "trade"] \in ClosedFile
            BY DEF ClosedFile, Tables
        <2>2. SealFileSteps([date |-> d, tbl |-> "trade"]) \in Seq(DueStep)
            BY <2>1, DueSteps DEF SealFileSteps
        <2> QED
            BY <2>2
    <1>2. PICK b \in Seq(DueStep) : b = SealFileSteps([date |-> d, tbl |-> "risk"])
        <2>1. [date |-> d, tbl |-> "risk"] \in ClosedFile
            BY DEF ClosedFile, Tables
        <2>2. SealFileSteps([date |-> d, tbl |-> "risk"]) \in Seq(DueStep)
            BY <2>1, DueSteps DEF SealFileSteps
        <2> QED
            BY <2>2
    <1>3. PICK c \in Seq(DueStep) :
              c = <<WatermarkStep(Midnight(d + 1)), ReloadStep, DropStep(d), SealedStep(d)>>
        <2>1. <<WatermarkStep(Midnight(d + 1)), ReloadStep, DropStep(d), SealedStep(d)>> \in Seq(DueStep)
            BY <1>0, DueSteps
        <2> QED
            BY <2>1
    <1>4. PICK p \in Seq(DueStep) :
            /\ p = (a \o b) \o c /\ Len(a) = 3 /\ Len(b) = 3 /\ Len(c) = 4 /\ Len(p) = 10
            /\ \A i \in 1 .. 3 : p[i] = a[i]
            /\ \A i \in 1 .. 3 : p[3 + i] = b[i]
            /\ \A i \in 1 .. 4 : p[6 + i] = c[i]
        <2>1. Len(a) = 3 /\ Len(b) = 3 /\ Len(c) = 4
            BY <1>1, <1>2, <1>3 DEF SealFileSteps
        <2>2. PICK u : u = a \o b
            OBVIOUS
        <2>3. /\ u \in Seq(DueStep) /\ Len(u) = 6
              /\ \A i \in 1 .. 3 : u[i] = a[i]
              /\ \A i \in 1 .. 3 : u[3 + i] = b[i]
            <3>1. /\ u \in Seq(DueStep) /\ Len(u) = Len(a) + Len(b)
                  /\ \A i \in 1 .. Len(a) : u[i] = a[i]
                  /\ \A i \in 1 .. Len(b) : u[Len(a) + i] = b[i]
                BY <2>2, Concat
            <3> QED
                BY <2>1, <3>1
        <2>4. PICK p : p = u \o c
            OBVIOUS
        <2>5. /\ p \in Seq(DueStep) /\ Len(p) = 10
              /\ \A i \in 1 .. 6 : p[i] = u[i]
              /\ \A i \in 1 .. 4 : p[6 + i] = c[i]
            <3>1. /\ p \in Seq(DueStep) /\ Len(p) = Len(u) + Len(c)
                  /\ \A i \in 1 .. Len(u) : p[i] = u[i]
                  /\ \A i \in 1 .. Len(c) : p[Len(u) + i] = c[i]
                <4>1. u \in Seq(DueStep)
                    BY <2>3
                <4> QED
                    BY <2>4, <4>1, Concat
            <3> QED
                BY <2>1, <2>3, <3>1
        <2>6. \A i \in 1 .. 3 : p[i] = a[i] /\ p[3 + i] = b[i]
            BY <2>3, <2>5
        <2>7. p = (a \o b) \o c
            BY <2>2, <2>4
        <2> HIDE <2>2, <2>4
        <2> QED
            BY <2>1, <2>5, <2>6, <2>7
    <1>5. EodSteps(d) = p
        BY <1>1, <1>2, <1>3, <1>4 DEF EodSteps, SealSteps
    <1>6. /\ p[1] = a[1] /\ p[2] = a[2] /\ p[3] = a[3] /\ p[4] = b[1] /\ p[5] = b[2] /\ p[6] = b[3]
          /\ p[7] = c[1] /\ p[8] = c[2] /\ p[9] = c[3] /\ p[10] = c[4]
        <2>1. /\ p[3 + 1] = b[1] /\ p[3 + 2] = b[2] /\ p[3 + 3] = b[3]
              /\ p[6 + 1] = c[1] /\ p[6 + 2] = c[2] /\ p[6 + 3] = c[3] /\ p[6 + 4] = c[4]
            BY <1>4
        <2> QED
            BY <1>4, <2>1
    <1>7. /\ p[1] = StepLeft(d, 10) /\ p[2] = StepLeft(d, 9) /\ p[3] = StepLeft(d, 8) /\ p[4] = StepLeft(d, 7)
          /\ p[5] = StepLeft(d, 6) /\ p[6] = StepLeft(d, 5)
        BY <1>1, <1>2, <1>6, StepsNamed DEF SealFileSteps
    <1>8. p[7] = StepLeft(d, 4) /\ p[8] = StepLeft(d, 3) /\ p[9] = StepLeft(d, 2) /\ p[10] = StepLeft(d, 1)
        BY <1>3, <1>6, StepsNamed
    <1>9. ASSUME NEW i \in 1 .. 10 PROVE p[i] = StepLeft(d, 11 - i)
        <2>1. PICK m : m = 11 - i
            OBVIOUS
        <2>2. \/ (i = 1 /\ m = 10) \/ (i = 2 /\ m = 9) \/ (i = 3 /\ m = 8) \/ (i = 4 /\ m = 7) \/ (i = 5 /\ m = 6)
              \/ (i = 6 /\ m = 5) \/ (i = 7 /\ m = 4) \/ (i = 8 /\ m = 3) \/ (i = 9 /\ m = 2) \/ (i = 10 /\ m = 1)
            BY <2>1
        <2>3. p[i] = StepLeft(d, m)
            BY <1>7, <1>8, <2>2, Zenon
        <2> QED
            BY <2>1, <2>3
    <1> QED
        BY <1>4, <1>5, <1>9

\* The end of a later day is planned from an idle process (.wdb.eod).
LEMMA EodPlanned ==
    ASSUME SealInv, PlanInv, ~Sealing, UNCHANGED lastSealed, NEW d \in ClosedDates, lastSealed < d,
           todo' = EodSteps(d)
    PROVE  PlanInv' /\ Handled' = d /\ StepsLeft = 0 /\ StepsLeft' = 10
    <1>1. Len(todo') = 10 /\ \A i \in 1 .. 10 : todo'[i] = StepLeft(d, 11 - i)
        BY EodPlan
    <1>2. todo'[10] = SealedStep(d)
        <2>1. todo'[10] = StepLeft(d, 11 - 10) /\ 11 - 10 = 1
            BY <1>1
        <2> QED
            BY <2>1, StepsNamed
    <1>3. Sealing' /\ Handled' = d /\ StepsLeft' = 10
        <2>1. todo' # <<>>
            BY <1>1
        <2> QED
            BY <1>1, <1>2, <2>1 DEF Sealing, Handled, StepsLeft, SealedStep
    <1>4. \A i \in 1 .. 10 : todo'[i] = StepLeft(d, 10 + 1 - i)
        BY <1>1
    <1>5. PlanInv'
        BY <1>1, <1>3, <1>4 DEF PlanInv
    <1> QED
        BY <1>3, <1>5 DEF StepsLeft

\* One step further.
LEMMA SealGoesOn ==
    ASSUME SealInv, PlanInv, Sealing, todo' = Tail(todo),
           lastSealed' = IF Head(todo).op = "sealed" THEN Head(todo).date ELSE lastSealed
    PROVE  PlanInv' /\ Handled' = Handled /\ StepsLeft \in 1 .. 10 /\ StepsLeft' = StepsLeft - 1
    <1>1. /\ todo \in Seq(DueStep) /\ todo # <<>> /\ todo[Len(todo)].op = "sealed"
          /\ Handled = todo[Len(todo)].date /\ StepsLeft = Len(todo)
          /\ lastSealed < Handled /\ \A i \in 1 .. Len(todo) : todo[i] = StepLeft(Handled, Len(todo) + 1 - i)
        BY DEF SealInv, WdbInv, PlanInv, Sealing, Handled, StepsLeft
    <1>2. PICK d : d = Handled
        OBVIOUS
    <1>3. PICK s : s = Tail(todo)
        OBVIOUS
    <1>4. PICK n : n = Len(todo)
        OBVIOUS
    <1>5. n \in 1 .. 10
        <2>1. Len(todo) \in Nat /\ Len(todo) # 0
            BY <1>1
        <2>2. StepsLeft \in 0 .. 10
            BY PlanNow
        <2>3. StepsLeft = n /\ n \in Nat /\ n # 0
            BY <1>1, <1>4, <2>1
        <2> QED
            BY <2>2, <2>3
    <1>6. Len(s) = n - 1 /\ \A i \in 1 .. n - 1 : s[i] = todo[i + 1]
        BY <1>1, <1>3, <1>4
    <1>7. CASE n = 1
        <2>1. s = <<>> /\ Head(todo) = todo[1] /\ todo[Len(todo)] = todo[1]
            <3>1. todo \in Seq(DueStep) /\ todo # <<>> /\ Len(todo) = 1
                BY <1>1, <1>4, <1>7
            <3> QED
                BY <1>3, <3>1
        <2>2. ~Sealing' /\ lastSealed' = d
            BY <1>1, <1>2, <1>3, <2>1 DEF Sealing
        <2>3. Handled' = d /\ StepsLeft' = 0
            BY <2>2 DEF Handled, StepsLeft
        <2>4. \A i \in 1 .. Len(todo') : FALSE
            <3>1. todo' = <<>> /\ Len(<<>>) = 0
                BY <1>3, <2>1
            <3> QED
                BY <3>1
        <2>5. PlanInv'
            BY <2>2, <2>4 DEF PlanInv
        <2>6. StepsLeft = 1 /\ Handled = d
            BY <1>1, <1>2, <1>4, <1>7
        <2> QED
            BY <2>3, <2>5, <2>6
    <1>8. CASE n # 1
        <2>1. n - 1 \in 1 .. n - 1 /\ s # <<>>
            BY <1>5, <1>6, <1>8
        <2>2. s[n - 1] = todo[n]
            <3>1. s[n - 1] = todo[(n - 1) + 1] /\ (n - 1) + 1 = n
                BY <1>5, <1>6, <2>1
            <3> QED
                BY <3>1
        <2>3. Sealing' /\ Handled' = d /\ StepsLeft' = n - 1
            BY <1>1, <1>2, <1>3, <1>4, <1>6, <2>1, <2>2 DEF Sealing, Handled, StepsLeft
        <2>4. \A i \in 1 .. n - 1 : s[i] = StepLeft(d, (n - 1) + 1 - i)
            <3> SUFFICES ASSUME NEW i \in 1 .. n - 1 PROVE s[i] = StepLeft(d, (n - 1) + 1 - i)
                OBVIOUS
            <3>1. i + 1 \in 1 .. n /\ n + 1 - (i + 1) = (n - 1) + 1 - i
                BY <1>5
            <3>2. todo[i + 1] = StepLeft(d, n + 1 - (i + 1))
                BY <1>1, <1>2, <1>4, <3>1
            <3> QED
                BY <1>6, <3>1, <3>2
        <2>5. Head(todo).op # "sealed"
            <3>1. n \in 2 .. 10
                BY <1>5, <1>8
            <3>2. Head(todo) = todo[1] /\ todo[1] = StepLeft(d, n + 1 - 1) /\ n + 1 - 1 = n
                BY <1>1, <1>2, <1>4, <1>5
            <3>3. \A m \in 2 .. 10 : StepLeft(d, m).op # "sealed"
                BY DEF StepLeft, WatermarkStep, ReloadStep, DropStep
            <3> QED
                BY <3>1, <3>2, <3>3
        <2>6. lastSealed' = lastSealed
            BY <2>5
        <2>7. Len(s) <= 10
            BY <1>5, <1>6
        <2>8. PlanInv'
            BY <1>1, <1>2, <1>3, <1>6, <2>3, <2>4, <2>6, <2>7 DEF PlanInv
        <2> QED
            BY <1>1, <1>2, <1>4, <1>5, <2>3, <2>8
    <1> QED
        BY <1>7, <1>8

\* Which step is due tells how many are left.
LEMMA OpTellsStep ==
    ASSUME NEW d, NEW n \in 1 .. 10, NEW s, s = StepLeft(d, n)
    PROVE  /\ s.op \in {"clear", "splay", "retire"} =>
                s.file.tbl \in Tables /\ s.file = [date |-> d, tbl |-> s.file.tbl]
           /\ s.op = "clear" => n = Turn(s.file.tbl)
           /\ s.op = "splay" => n = Turn(s.file.tbl) - 1
           /\ s.op = "retire" => n = Turn(s.file.tbl) - 2
           /\ s.op \in {"watermark", "reload", "drop", "sealed"} => n \in 1 .. 4
           /\ s.op = "sealed" => s.date = d
           /\ s.op \notin {"sub", "flush", "catchup"}
    <1>1. /\ "trade" \in Tables /\ Turn("trade") = 10 /\ Turn("trade") - 1 = 9 /\ Turn("trade") - 2 = 8
          /\ "risk" \in Tables /\ Turn("risk") = 7 /\ Turn("risk") - 1 = 6 /\ Turn("risk") - 2 = 5
        BY DEF Tables, Turn
    <1>2. n \in {1, 2, 3, 4, 5, 6, 7, 8, 9, 10}
        OBVIOUS
    <1>3. CASE n \in {10, 7}
        <2>1. /\ s.op = "clear" /\ s.file.tbl \in Tables
              /\ s.file = [date |-> d, tbl |-> s.file.tbl] /\ n = Turn(s.file.tbl)
            BY <1>1, <1>3, StepsNamed
        <2> QED
            BY <2>1
    <1>4. CASE n \in {9, 6}
        <2>1. /\ s.op = "splay" /\ s.file.tbl \in Tables
              /\ s.file = [date |-> d, tbl |-> s.file.tbl] /\ n = Turn(s.file.tbl) - 1
            BY <1>1, <1>4, StepsNamed
        <2> QED
            BY <2>1
    <1>5. CASE n \in {8, 5}
        <2>1. /\ s.op = "retire" /\ s.file.tbl \in Tables
              /\ s.file = [date |-> d, tbl |-> s.file.tbl] /\ n = Turn(s.file.tbl) - 2
            BY <1>1, <1>5, StepsNamed
        <2> QED
            BY <2>1
    <1>6. CASE n \in {1, 2, 3, 4}
        <2>1. /\ n \in 1 .. 4 /\ s.op \in {"watermark", "reload", "drop", "sealed"}
              /\ s.op = "sealed" => s.date = d
            BY <1>6, StepsNamed DEF WatermarkStep, ReloadStep, DropStep, SealedStep
        <2> QED
            BY <2>1
    <1> QED
        BY <1>2, <1>3, <1>4, <1>5, <1>6

\* What is due of the plan, by its name.
LEMMA StepDue ==
    ASSUME SealInv, PlanInv, todo # <<>>
    PROVE  /\ Head(todo).op # "sub"
           /\ Head(todo).op \in {"flush", "catchup"} => ~Sealing
           /\ Head(todo).op \in {"clear", "splay", "retire", "reload", "drop", "sealed"} => Sealing
           /\ Sealing => /\ StepsLeft \in 1 .. 10 /\ Head(todo) = StepLeft(Handled, StepsLeft)
    <1>1. CASE Sealing
        <2>1. StepsLeft \in 1 .. 10 /\ Head(todo) = StepLeft(Handled, StepsLeft)
            BY <1>1, PlanNow
        <2>2. Head(todo).op \notin {"sub", "flush", "catchup"}
            <3>1. PICK n, d, s : n = StepsLeft /\ d = Handled /\ s = Head(todo)
                OBVIOUS
            <3>2. n \in 1 .. 10 /\ s = StepLeft(d, n)
                BY <2>1, <3>1
            <3>3. s.op \notin {"sub", "flush", "catchup"}
                BY <3>2, OpTellsStep
            <3> QED
                BY <3>1, <3>3
        <2> QED
            BY <1>1, <2>1, <2>2
    <1>2. CASE ~Sealing
        <2>1. Head(todo).op \in RoutineOp
            BY <1>2, PlanNow
        <2> QED
            BY <1>2, <2>1 DEF RoutineOp
    <1> QED
        BY <1>1, <1>2

\* As long as the connection holds, the write-down database is not dropped and nothing dies.
LEMMA NothingLost ==
    ASSUME SealInv, Connected, Undisturbed
    PROVE  /\ "wdb" \in SubHandles /\ \A t \in Tables : "wdb" \in subs[t]
           /\ ~PortClosed("wdb") /\ ~TpRestart /\ ~Vanish("wdb") /\ wdbUp
           /\ \A q : CheckSlow(q) => "wdb" \notin TooSlow(q)
    <1>1. "trade" \in Tables
        BY DEF Tables
    <1>2. "wdb" \in SubHandles
        BY <1>1 DEF Connected, SubHandles
    <1>3. ASSUME NEW H, subs' = Unsubscribed(H) PROVE "wdb" \notin H
        BY <1>1, <1>3 DEF Undisturbed, Unsubscribed
    <1>4. ~PortClosed("wdb")
        BY <1>3 DEF PortClosed
    <1>5. ~TpRestart
        BY <1>1 DEF TpRestart, Undisturbed
    <1> QED
        BY <1>2, <1>3, <1>4, <1>5 DEF Connected, Vanish, CheckSlow

\* Nothing of the write-down database moves.
LEMMA WdbStays ==
    ASSUME SealInv, PlanInv, UNCHANGED <<todo, lastSealed, buf, diskVars>>
    PROVE  PlanInv' /\ RowsStay
    BY DEF PlanInv, RowsStay, Handled, StepsLeft, Sealing, diskVars

\* The tickerplant sends a row, a watermark or the end of a day, and touches no file.
LEMMA TpMoves ==
    ASSUME SealInv, SealInv', Connected, PlanInv, TpStep, Undisturbed
    PROVE  wdbUp' /\ PlanInv' /\ DayMove
    <1>1. wdbUp /\ "wdb" \in SubHandles /\ "wdb" \in Handles /\ \A t \in Tables : "wdb" \in subs[t]
        BY PathAssumption, NothingLost
    <1>2. chan \in [Handles -> Seq(DueMessage)] /\ logDate = today /\ today \in Int
        BY DEF SealInv, TpInv
    <1>3. CASE Tick \/ Linger
        <2>1. UNCHANGED <<wdbUp, todo, lastSealed, buf, diskVars>> /\ QueueStays
            BY <1>3 DEF Tick, Linger, TpSame, WdbSame, tpVars, wdbVars, QueueStays, Inbox
        <2> QED
            BY <1>1, <2>1, WdbStays DEF DayMove
    <1>4. ASSUME NEW r \in Arriving, Feed(r) PROVE wdbUp' /\ PlanInv' /\ DayMove
        <2>1. r \in Row /\ r.tbl \in Tables
            BY DEF Arriving, Row, SealInv, EnvInv
        <2>2. UNCHANGED <<wdbUp, todo, lastSealed, buf, diskVars>> /\ Upd(r) /\ r \notin LoggedRows
            BY <1>4 DEF Feed, WdbSame, wdbVars
        <2>3. RowSent
            BY <1>1, <1>2, <2>1, <2>2 DEF Upd, RowSent, Inbox
        <2> QED
            BY <1>1, <2>2, <2>3, WdbStays DEF DayMove
    <1>5. CASE TpTimer
        <2>1. UNCHANGED <<wdbUp, todo, lastSealed, buf, diskVars>> /\ Timer
            BY <1>5 DEF TpTimer, WdbSame, wdbVars
        <2>2. chan' \in Truncated(AfterEod, TooSlow(AfterEod)) /\ "wdb" \notin TooSlow(AfterEod)
            BY <2>1, NothingLost DEF Timer, CheckSlow
        <2>3. chan'["wdb"] = AfterEod["wdb"]
            BY <1>1, <2>2 DEF Truncated
        <2>4. CASE TradingDate(now) > today
            <3>1. chan'["wdb"] = Append(chan["wdb"], EodMsg(today))
                BY <1>1, <2>3, <2>4 DEF AfterEod, Broadcast
            <3>2. today' = TradingDate(now) /\ UNCHANGED logged
                BY <2>1, <2>4 DEF Timer, CheckEod
            <3>3. today < today'
                <4>1. TradingDate(now) \in Int
                    BY TradingDateInt DEF SealInv, EnvInv
                <4> QED
                    BY <1>2, <2>4, <3>2, <4>1
            <3>4. EndSent
                BY <3>1, <3>2, <3>3 DEF EndSent, Inbox
            <3> QED
                BY <1>1, <2>1, <3>4, WdbStays DEF DayMove
        <2>5. CASE ~(TradingDate(now) > today)
            <3>1. QueueStays
                BY <2>1, <2>3, <2>5 DEF AfterEod, Timer, CheckEod, QueueStays, Inbox
            <3> QED
                BY <1>1, <2>1, <3>1, WdbStays DEF DayMove
        <2> QED
            BY <2>4, <2>5
    <1>6. CASE ForceEnd
        <2>1. UNCHANGED <<wdbUp, todo, lastSealed, buf, diskVars>> /\ End(today)
            BY <1>6 DEF ForceEnd, WdbSame, wdbVars
        <2>2. EndSent
            BY <1>1, <1>2, <2>1 DEF End, Broadcast, EndSent, Inbox
        <2> QED
            BY <1>1, <2>1, <2>2, WdbStays DEF DayMove
    <1>7. CASE TpCrash \/ Cut
        BY <1>7, NothingLost DEF TpCrash, Cut
    <1> QED
        BY <1>3, <1>4, <1>5, <1>6, <1>7 DEF TpStep

\* The write-down database reads a row, a watermark or the end of a day.
LEMMA ReceiveMoves ==
    ASSUME SealInv, SealInv', Connected, PlanInv, EodsInv, WdbReceive, Undisturbed
    PROVE  wdbUp' /\ PlanInv' /\ DayMove
    <1>1. wdbUp /\ "wdb" \in Handles
        BY PathAssumption, NothingLost
    <1>2. PICK q \in Seq(DueMessage) : q = chan["wdb"]
        BY <1>1 DEF SealInv, TpInv
    <1>3. q # <<>> /\ QueueRead /\ WdbHandle(Head(q)) /\ Inbox = q
        BY <1>1, <1>2 DEF WdbReceive, Consume, QueueRead, Inbox, SealInv, TpInv
    <1>4. ~Sealing /\ StepsLeft = 0 /\ Handled = lastSealed
        BY <1>3, PlanNow DEF WdbHandle, WdbIdle, Sealing
    <1>5. CASE Head(q).kind = "upd" /\ WdbUpd(Head(q).row)
        <2>1. UNCHANGED <<wdbUp, todo, lastSealed, scratch, splays, sealed>> /\ buf' = buf \cup {Head(q).row}
            BY <1>5 DEF WdbUpd, diskVars
        <2>2. PlanInv' /\ UNCHANGED <<Handled, StepsLeft>>
            BY <2>1 DEF PlanInv, Handled, StepsLeft, Sealing
        <2> QED
            BY <1>1, <1>3, <1>4, <1>5, <2>1, <2>2 DEF DayMove, RowBuffered
    <1>6. CASE Head(q).kind = "shed" /\ UNCHANGED <<wdbVars, diskVars>>
        <2>1. UNCHANGED <<wdbUp, todo, lastSealed, buf, diskVars>>
            BY <1>6 DEF wdbVars
        <2> QED
            BY <1>1, <1>3, <1>6, <2>1, WdbStays DEF DayMove
    <1>7. CASE Head(q).kind = "eod" /\ WdbEod(Head(q).date)
        <2>1. PICK d : d = Head(q).date
            OBVIOUS
        <2>2. Head(q) \in DueMessage /\ 1 \in DOMAIN q /\ Head(q) = q[1]
            BY <1>3
        <2>3. d \in ClosedDates
            BY <1>7, <2>1, <2>2 DEF DueMessage
        <2>4. lastSealed < d
            BY <1>2, <1>4, <1>7, <2>1, <2>2 DEF EodsInv, Eods
        <2>5. todo' = EodSteps(d) /\ UNCHANGED <<wdbUp, lastSealed, splays, sealed>> /\ FlushTo(Midnight(d + 1))
            BY <1>7, <2>1 DEF WdbEod, EodSteps
        <2>6. PlanInv' /\ Handled' = d /\ StepsLeft' = 10
            BY <1>4, <2>3, <2>4, <2>5, EodPlanned
        <2>7. DayBegun
            BY <1>3, <1>4, <1>7, <2>1, <2>5, <2>6 DEF DayBegun
        <2> QED
            BY <1>1, <1>3, <2>5, <2>6, <2>7 DEF DayMove
    <1> QED
        BY <1>3, <1>5, <1>6, <1>7 DEF WdbHandle

\* Its timer, a flush, and a catch-up check that finds nothing.
LEMMA RoutineMoves ==
    ASSUME SealInv, SealInv', Connected, PlanInv, WdbTick \/ WdbFlushStep \/ WdbCatchUpStep, Undisturbed
    PROVE  wdbUp' /\ PlanInv' /\ DayMove
    <1>1. wdbUp /\ "wdb" \in SubHandles
        BY NothingLost
    <1>2. CASE WdbTick
        <2>1. PICK connect \in BOOLEAN : WdbTickWith(connect)
            BY <1>2 DEF WdbTick
        <2>2. WdbTimer(now, connect) /\ ~connect /\ UNCHANGED tpVars
            BY <1>1, <2>1 DEF WdbTickWith, TpSame
        <2>3. ~Sealing
            BY <2>2 DEF WdbTimer, WdbIdle, Sealing
        <2>4. PICK R : R = {s \in DueStep : s.op \in RoutineOp}
            OBVIOUS
        <2>5. FlushStep \in R /\ CatchUpStep \in R
            BY <2>4, DueSteps DEF FlushStep, CatchUpStep, RoutineOp
        <2>6. todo' \in Seq(R)
            BY <2>2, <2>5 DEF WdbTimer
        <2>7. todo' \in Seq(DueStep) /\ \A i \in 1 .. Len(todo') : todo'[i].op \in RoutineOp
            <3>1. todo' \in Seq(DueStep)
                BY <2>4, <2>6, SeqMonotonic
            <3> QED
                BY <2>4, <2>6, <3>1
        <2>8. UNCHANGED <<wdbUp, buf, lastSealed, scratch, splays, sealed>>
            BY <2>2 DEF WdbTimer, diskVars
        <2>9. PlanInv' /\ UNCHANGED <<Handled, StepsLeft>>
            BY <2>3, <2>7, <2>8, RoutinePlanned
        <2>10. QueueStays /\ RowsStay
            BY <2>2, <2>8, <2>9 DEF tpVars, QueueStays, Inbox, RowsStay
        <2> QED
            BY <1>1, <2>8, <2>9, <2>10 DEF DayMove
    <1>3. CASE WdbFlushStep
        <2>1. /\ todo # <<>> /\ Head(todo).op = "flush" /\ UNCHANGED tpVars
              /\ FlushTo(now - FlushIntv) /\ todo' = <<WatermarkStep(now - RetentionIntv)>> \o Tail(todo)
              /\ UNCHANGED <<wdbUp, lastSealed, splays, sealed>>
            BY <1>3 DEF WdbFlushStep, WdbFlush, WdbAt, TpSame
        <2>2. now - RetentionIntv \in Int /\ now - FlushIntv \in Int
            BY WdbAssumption DEF SealInv, EnvInv, RetentionIntv
        <2>3. PICK s \in Seq(DueStep) : s = <<WatermarkStep(now - RetentionIntv)>>
            <3>1. WatermarkStep(now - RetentionIntv) \in DueStep
                BY <2>2, DueSteps
            <3>2. <<WatermarkStep(now - RetentionIntv)>> \in Seq(DueStep)
                BY <3>1
            <3> QED
                BY <3>2
        <2>4. \A i \in 1 .. Len(s) : s[i].op \in RoutineOp
            BY <2>3 DEF WatermarkStep, RoutineOp
        <2>5. PlanInv' /\ UNCHANGED <<Handled, StepsLeft>> /\ StepsLeft = 0
            BY <2>1, <2>3, <2>4, StepDue, RoutineGoesOn
        <2>6. QueueStays /\ RowsFlushed
            BY <2>1, <2>2, <2>5 DEF tpVars, QueueStays, Inbox, RowsFlushed
        <2> QED
            BY <1>1, <2>1, <2>5, <2>6 DEF DayMove
    <1>4. CASE WdbCatchUpStep
        <2>1. /\ todo # <<>> /\ Head(todo).op = "catchup" /\ UNCHANGED tpVars
              /\ todo' = <<>> \o Tail(todo) /\ UNCHANGED <<wdbUp, lastSealed, buf, scratch, splays, sealed>>
            BY <1>4 DEF WdbCatchUpStep, WdbCatchUp, WdbAt, TpSame, diskVars, Undisturbed
        <2>2. PlanInv' /\ UNCHANGED <<Handled, StepsLeft>>
            <3>0. <<>> \in Seq(DueStep)
                OBVIOUS
            <3>1. PICK s \in Seq(DueStep) : s = <<>>
                BY <3>0
            <3>2. \A i \in 1 .. Len(s) : s[i].op \in RoutineOp
                BY <3>1
            <3> QED
                BY <2>1, <3>1, <3>2, StepDue, RoutineGoesOn
        <2>3. QueueStays /\ RowsStay
            BY <2>1, <2>2 DEF tpVars, QueueStays, Inbox, RowsStay
        <2> QED
            BY <1>1, <2>1, <2>2, <2>3 DEF DayMove
    <1> QED
        BY <1>2, <1>3, <1>4

\* The steps of the end of a day, and the watermark that a flush announces.
LEMMA SealMoves ==
    ASSUME SealInv, SealInv', Connected, PlanInv, Undisturbed,
           WdbAnnounce \/ WdbClearStep \/ WdbSplayStep \/ WdbRetireStep \/ WdbReload \/ WdbDrop \/ WdbSealedStep
    PROVE  wdbUp' /\ PlanInv' /\ DayMove
    <1>1. wdbUp /\ "wdb" \in SubHandles /\ "wdb" \in Handles /\ todo # <<>> /\ todo \in Seq(DueStep)
        BY PathAssumption, NothingLost
           DEF WdbAnnounce, WdbClearStep, WdbClear, WdbSplayStep, WdbSplay, WdbRetireStep, WdbRetire, WdbReload,
               WdbDrop, WdbSealedStep, WdbSealed, WdbAt, SealInv, WdbInv
    <1>2. /\ todo' = Tail(todo) /\ UNCHANGED wdbUp
          /\ lastSealed' = IF Head(todo).op = "sealed" THEN Head(todo).date ELSE lastSealed
        BY DEF WdbAnnounce, WdbClearStep, WdbClear, WdbSplayStep, WdbSplay, WdbRetireStep, WdbRetire, WdbReload,
               WdbDrop, WdbSealedStep, WdbSealed, WdbAt, WdbStepDone
    <1>3. ASSUME Sealing
          PROVE  /\ PlanInv' /\ Handled' = Handled /\ StepsLeft \in 1 .. 10 /\ StepsLeft' = StepsLeft - 1
                 /\ Head(todo) = StepLeft(Handled, StepsLeft)
        BY <1>1, <1>2, <1>3, SealGoesOn, StepDue
    <1>4. CASE WdbAnnounce
        <2>1. /\ Head(todo).op = "watermark" /\ BroadcastWatermark(Head(todo).wm)
              /\ UNCHANGED <<buf, scratch, splays, sealed>>
            BY <1>4 DEF WdbAnnounce, WdbAt, WdbStepDone, diskVars
        <2>2. MarkSent
            <3>1. PICK wm : wm = Head(todo).wm
                OBVIOUS
            <3>2. wm \in Int
                <4>1. \A s \in DueStep : s.op = "watermark" => s.wm \in Int
                    BY DEF DueStep
                <4>2. Head(todo) \in DueStep
                    BY <1>1
                <4> QED
                    BY <2>1, <3>1, <4>1, <4>2
            <3>3. chan'["wdb"] = Append(chan["wdb"], ShedMsg(wm)) /\ UNCHANGED <<logged, today>>
                BY <1>1, <2>1, <3>1 DEF BroadcastWatermark, Broadcast
            <3> QED
                BY <3>2, <3>3 DEF MarkSent, Inbox
        <2>3. PlanInv' /\ RowsStay
            <3>1. CASE Sealing
                <4>1. StepsLeft \in 1 .. 4
                    <5>1. PICK n, d, s : n = StepsLeft /\ d = Handled /\ s = Head(todo)
                        OBVIOUS
                    <5>2. n \in 1 .. 10 /\ s = StepLeft(d, n)
                        BY <1>3, <3>1, <5>1
                    <5>3. s.op \in {"watermark", "reload", "drop", "sealed"}
                        BY <2>1, <5>1
                    <5>4. n \in 1 .. 4
                        BY <5>2, <5>3, OpTellsStep
                    <5> QED
                        BY <5>1, <5>4
                <4> QED
                    BY <1>3, <2>1, <3>1, <4>1 DEF RowsStay
            <3>2. CASE ~Sealing
                <4>0. <<>> \in Seq(DueStep)
                    OBVIOUS
                <4>1. PICK s \in Seq(DueStep) : s = <<>>
                    BY <4>0
                <4>2. \A i \in 1 .. Len(s) : s[i].op \in RoutineOp
                    BY <4>1
                <4>3. todo' = s \o Tail(todo) /\ UNCHANGED lastSealed
                    <5>1. Tail(todo) \in Seq(DueStep)
                        BY <1>1
                    <5> QED
                        BY <1>2, <2>1, <4>1, <5>1
                <4>4. PlanInv' /\ UNCHANGED <<Handled, StepsLeft>>
                    BY <1>1, <3>2, <4>2, <4>3, RoutineGoesOn
                <4> QED
                    BY <2>1, <4>4 DEF RowsStay
            <3> QED
                BY <3>1, <3>2
        <2> QED
            BY <1>1, <1>2, <2>2, <2>3 DEF DayMove
    <1>5. ASSUME ~WdbAnnounce PROVE Sealing /\ QueueStays
        <2>1. Head(todo).op \in {"clear", "splay", "retire", "reload", "drop", "sealed"} /\ UNCHANGED tpVars
            BY <1>5 DEF WdbClearStep, WdbClear, WdbSplayStep, WdbSplay, WdbRetireStep, WdbRetire, WdbReload,
                        WdbDrop, WdbSealedStep, WdbSealed, WdbAt, TpSame
        <2> QED
            BY <1>1, <2>1, StepDue DEF tpVars, QueueStays, Inbox
    <1>6. CASE WdbClearStep
        <2>1. Head(todo).op = "clear" /\ Sealing /\ QueueStays
            BY <1>5, <1>6 DEF WdbClearStep, WdbClear, WdbAt, WdbAnnounce
        <2>2. PICK t \in Tables : StepsLeft = Turn(t) /\ Head(todo).file = [date |-> Handled, tbl |-> t]
            <3>1. PICK n, d, s : n = StepsLeft /\ d = Handled /\ s = Head(todo)
                OBVIOUS
            <3>2. n \in 1 .. 10 /\ s = StepLeft(d, n)
                BY <1>3, <2>1, <3>1
            <3>3. s.op = "clear"
                BY <2>1, <3>1
            <3>4. s.file.tbl \in Tables /\ n = Turn(s.file.tbl) /\ s.file = [date |-> d, tbl |-> s.file.tbl]
                BY <3>2, <3>3, OpTellsStep
            <3> QED
                BY <3>1, <3>4
        <2>3. PICK f : f = Head(todo).file
            OBVIOUS
        <2>4. /\ buf' = {r \in buf : r.tbl # f.tbl} /\ sealed' = sealed \ RowsOf(sealed, f)
              /\ splays' = splays \ {f} /\ UNCHANGED scratch
            BY <1>6, <2>3 DEF WdbClearStep, WdbClear
        <2>5. Cleared(t)
            BY <1>3, <2>1, <2>2, <2>3, <2>4 DEF Cleared, DayFile
        <2> QED
            BY <1>1, <1>2, <1>3, <2>1, <2>5 DEF DayMove
    <1>7. CASE WdbSplayStep
        <2>1. Head(todo).op = "splay" /\ Sealing /\ QueueStays
            BY <1>5, <1>7 DEF WdbSplayStep, WdbSplay, WdbAt, WdbAnnounce
        <2>2. PICK t \in Tables : StepsLeft = Turn(t) - 1 /\ Head(todo).file = [date |-> Handled, tbl |-> t]
            <3>1. PICK n, d, s : n = StepsLeft /\ d = Handled /\ s = Head(todo)
                OBVIOUS
            <3>2. n \in 1 .. 10 /\ s = StepLeft(d, n)
                BY <1>3, <2>1, <3>1
            <3>3. s.op = "splay"
                BY <2>1, <3>1
            <3>4. s.file.tbl \in Tables /\ n = Turn(s.file.tbl) - 1 /\ s.file = [date |-> d, tbl |-> s.file.tbl]
                BY <3>2, <3>3, OpTellsStep
            <3> QED
                BY <3>1, <3>4
        <2>3. PICK f : f = Head(todo).file
            OBVIOUS
        <2>4. WdbSplay(TRUE)
            <3>1. ~Fault("dpft")
                BY DEF Fault, Undisturbed, SealInv, EnvInv, FaultKinds
            <3> QED
                BY <1>7, <3>1 DEF WdbSplayStep
        <2>5. /\ sealed' = sealed \cup RowsOf(scratch, f) /\ splays' = splays \cup {f}
              /\ UNCHANGED <<buf, scratch>>
            BY <2>3, <2>4 DEF WdbSplay
        <2>6. Splayed(t)
            <3>1. StepsLeft' = Turn(t) - 2
                BY <1>3, <2>1, <2>2 DEF Turn
            <3> QED
                BY <1>3, <2>1, <2>2, <2>3, <2>5, <3>1 DEF Splayed, DayFile
        <2> QED
            BY <1>1, <1>2, <1>3, <2>1, <2>6 DEF DayMove
    <1>8. CASE WdbRetireStep
        <2>1. Head(todo).op = "retire" /\ Sealing /\ QueueStays
            BY <1>5, <1>8 DEF WdbRetireStep, WdbRetire, WdbAt, WdbAnnounce
        <2>2. PICK t \in Tables : StepsLeft = Turn(t) - 2 /\ Head(todo).file = [date |-> Handled, tbl |-> t]
            <3>1. PICK n, d, s : n = StepsLeft /\ d = Handled /\ s = Head(todo)
                OBVIOUS
            <3>2. n \in 1 .. 10 /\ s = StepLeft(d, n)
                BY <1>3, <2>1, <3>1
            <3>3. s.op = "retire"
                BY <2>1, <3>1
            <3>4. s.file.tbl \in Tables /\ n = Turn(s.file.tbl) - 2 /\ s.file = [date |-> d, tbl |-> s.file.tbl]
                BY <3>2, <3>3, OpTellsStep
            <3> QED
                BY <3>1, <3>4
        <2>3. PICK f : f = Head(todo).file
            OBVIOUS
        <2>4. scratch' = scratch \ RowsOf(scratch, f) /\ UNCHANGED <<buf, splays, sealed>>
            BY <1>8, <2>3 DEF WdbRetireStep, WdbRetire
        <2>5. Retired(t)
            <3>1. StepsLeft' = Turn(t) - 3
                BY <1>3, <2>1, <2>2 DEF Turn
            <3> QED
                BY <1>3, <2>1, <2>2, <2>3, <2>4, <3>1 DEF Retired, DayFile
        <2> QED
            BY <1>1, <1>2, <1>3, <2>1, <2>5 DEF DayMove
    <1>9. CASE WdbReload \/ WdbDrop \/ WdbSealedStep
        <2>1. /\ Head(todo).op \in {"reload", "drop", "sealed"} /\ UNCHANGED <<buf, scratch, splays, sealed>>
            BY <1>9 DEF WdbReload, WdbDrop, WdbSealedStep, WdbSealed, WdbAt, WdbStepDone, diskVars
        <2>2. Sealing /\ QueueStays
            BY <1>5, <2>1 DEF WdbAnnounce, WdbAt
        <2>3. StepsLeft \in 1 .. 4
            <3>1. PICK n, d, s : n = StepsLeft /\ d = Handled /\ s = Head(todo)
                OBVIOUS
            <3>2. n \in 1 .. 10 /\ s = StepLeft(d, n)
                BY <1>3, <2>2, <3>1
            <3>3. s.op \in {"watermark", "reload", "drop", "sealed"}
                BY <2>1, <3>1
            <3>4. n \in 1 .. 4
                BY <3>2, <3>3, OpTellsStep
            <3> QED
                BY <3>1, <3>4
        <2>4. RowsStay
            BY <1>3, <2>1, <2>2, <2>3 DEF RowsStay
        <2> QED
            BY <1>1, <1>2, <1>3, <2>2, <2>4 DEF DayMove
    <1> QED
        BY <1>4, <1>6, <1>7, <1>8, <1>9

\* Every step of an undisturbed write path goes on with the plan, and is one of the moves.
LEMMA PlanMoves ==
    ASSUME SealInv, SealInv', Connected, PlanInv, EodsInv, PathNext, Undisturbed
    PROVE  Connected' /\ PlanInv' /\ DayMove
    <1>1. wdbUp' /\ PlanInv' /\ DayMove
        <2>1. CASE TpStep
            BY <2>1, TpMoves
        <2>2. CASE WdbReceive
            BY <2>2, ReceiveMoves
        <2>3. CASE WdbTick \/ WdbFlushStep \/ WdbCatchUpStep
            BY <2>3, RoutineMoves
        <2>4. CASE WdbAnnounce \/ WdbClearStep \/ WdbSplayStep \/ WdbRetireStep \/ WdbReload \/ WdbDrop \/ WdbSealedStep
            BY <2>4, SealMoves
        <2>5. CASE WdbAnnounceFails \/ WdbDies \/ WdbStarts
            BY <2>5, NothingLost DEF WdbAnnounceFails, WdbDies, WdbStarts, WdbStart
        <2>6. CASE WdbSubscribe
            <3>1. todo # <<>> /\ Head(todo).op = "sub"
                BY <2>6 DEF WdbSubscribe, WdbAt
            <3> QED
                BY <3>1, StepDue
        <2> QED
            BY <2>1, <2>2, <2>3, <2>4, <2>5, <2>6 DEF PathNext, WriteStep, WdbOwnStep
    <1> QED
        BY <1>1 DEF Connected, Undisturbed

-----------------------------------------------------------------------------
(* Queues *)

\* The places of a queue with one message more.
LEMMA AppendAt ==
    ASSUME NEW T, NEW q \in Seq(T), NEW m
    PROVE  /\ DOMAIN q = 1 .. Len(q) /\ Len(q) \in Nat
           /\ DOMAIN Append(q, m) = 1 .. Len(q) + 1
           /\ \A i \in DOMAIN q : Append(q, m)[i] = q[i]
           /\ Append(q, m)[Len(q) + 1] = m
OBVIOUS

\* The places of a queue without its head.
LEMMA TailAt ==
    ASSUME NEW T, NEW q \in Seq(T), q # <<>>
    PROVE  /\ DOMAIN q = 1 .. Len(q) /\ Len(q) \in Nat \ {0} /\ Head(q) = q[1]
           /\ DOMAIN Tail(q) = 1 .. Len(q) - 1
           /\ \A i \in DOMAIN Tail(q) : Tail(q)[i] = q[i + 1]
OBVIOUS

\* A row that is nowhere yet may follow.
LEMMA FreshAppend ==
    ASSUME NEW T, NEW q \in Seq(T), NEW R, Fresh(q, R), NEW m,
           m.kind = "upd" =>
              m.row \notin R /\ \A i \in DOMAIN q : q[i].kind = "upd" => q[i].row # m.row
    PROVE  Fresh(Append(q, m), R)
<1> DEFINE p == Append(q, m)
<1>1. \A i \in DOMAIN p : i = Len(q) + 1 \/ i \in DOMAIN q
  BY AppendAt
<1>2. p[Len(q) + 1] = m /\ \A i \in DOMAIN q : p[i] = q[i]
  BY AppendAt
<1> HIDE DEF p
<1> QED
  BY <1>1, <1>2 DEF Fresh

\* The queue without its head, which brought a row if it did.
LEMMA FreshTail ==
    ASSUME NEW T, NEW q \in Seq(T), q # <<>>, NEW R, Fresh(q, R), NEW S,
           \A x \in S : x \in R \/ (Head(q).kind = "upd" /\ x = Head(q).row)
    PROVE  Fresh(Tail(q), S)
<1> DEFINE p == Tail(q)
<1>1. /\ DOMAIN q = 1 .. Len(q) /\ Len(q) \in Nat \ {0} /\ Head(q) = q[1] /\ DOMAIN p = 1 .. Len(q) - 1
      /\ \A i \in DOMAIN p : p[i] = q[i + 1]
  BY TailAt
<1> HIDE DEF p
<1>2. ASSUME NEW i \in DOMAIN p, p[i].kind = "upd"
      PROVE  p[i].row \notin S /\ \A j \in DOMAIN p : p[j].kind = "upd" /\ p[j].row = p[i].row => i = j
  <2>1. i + 1 \in DOMAIN q /\ q[i + 1] = p[i] /\ 1 \in DOMAIN q /\ i + 1 # 1
    BY <1>1, <1>2
  <2>2. p[i].row \notin S
    BY <1>1, <1>2, <2>1 DEF Fresh
  <2>3. ASSUME NEW j \in DOMAIN p, p[j].kind = "upd", p[j].row = p[i].row PROVE i = j
    <3>1. j + 1 \in DOMAIN q /\ q[j + 1] = p[j]
      BY <1>1
    <3>2. i + 1 = j + 1
      BY <1>2, <2>1, <2>3, <3>1 DEF Fresh
    <3> QED
      BY <1>1, <3>2
  <2> QED
    BY <2>2, <2>3
<1> QED
  BY <1>2 DEF Fresh, p

-----------------------------------------------------------------------------
(* The ends of days on their way *)

\* Another message does not disturb the order of the days.
LEMMA EodsAppend ==
    ASSUME NEW T, NEW q \in Seq(T), NEW h, NEW d, Eods(q, h, d), NEW m, m.kind # "eod"
    PROVE  Eods(Append(q, m), h, d)
    <1> DEFINE p == Append(q, m)
    <1>1. \A i \in DOMAIN p : i = Len(q) + 1 \/ i \in DOMAIN q
        BY AppendAt
    <1>2. p[Len(q) + 1] = m /\ \A i \in DOMAIN q : p[i] = q[i]
        BY AppendAt
    <1> HIDE DEF p
    <1> QED
        BY <1>1, <1>2 DEF Eods, p

\* Nor does the day that ends now.
LEMMA EodsAnnounced ==
    ASSUME NEW T, NEW q \in Seq(T), NEW h \in Int, NEW d \in Int, NEW c \in Int, d < c, Eods(q, h, d),
           \A i \in DOMAIN q : q[i].kind = "eod" => q[i].date \in Int
    PROVE  Eods(Append(q, EodMsg(d)), h, c)
    <1> DEFINE p == Append(q, EodMsg(d))
    <1>1. /\ DOMAIN q = 1 .. Len(q) /\ Len(q) \in Nat
          /\ \A i \in DOMAIN p : i = Len(q) + 1 \/ i \in DOMAIN q
        BY AppendAt
    <1>2. p[Len(q) + 1] = EodMsg(d) /\ \A i \in DOMAIN q : p[i] = q[i]
        BY AppendAt
    <1>3. EodMsg(d).date = d
        BY DEF EodMsg
    <1> HIDE DEF p
    <1>4. ASSUME NEW i \in DOMAIN p, p[i].kind = "eod" PROVE h < p[i].date /\ p[i].date < c
        BY <1>1, <1>2, <1>3, <1>4 DEF Eods
    <1>5. ASSUME NEW i \in DOMAIN p, p[i].kind = "eod", NEW j \in DOMAIN p, p[j].kind = "eod", i < j
          PROVE  p[i].date < p[j].date
        <2>1. i \in DOMAIN q
            BY <1>1, <1>5
        <2>2. CASE j \in DOMAIN q
            BY <1>2, <1>5, <2>1, <2>2 DEF Eods
        <2>3. CASE j = Len(q) + 1
            BY <1>2, <1>3, <1>5, <2>1, <2>3 DEF Eods
        <2> QED
            BY <1>1, <2>2, <2>3
    <1> QED
        BY <1>4, <1>5 DEF Eods, p

\* A day that is read is the earliest on its way.
LEMMA EodsTail ==
    ASSUME NEW T, NEW q \in Seq(T), q # <<>>, NEW h, NEW d, Eods(q, h, d), NEW g,
           IF Head(q).kind = "eod" THEN g = Head(q).date ELSE g = h
    PROVE  Eods(Tail(q), g, d)
    <1> DEFINE p == Tail(q)
    <1>1. /\ DOMAIN q = 1 .. Len(q) /\ Len(q) \in Nat \ {0} /\ Head(q) = q[1] /\ DOMAIN p = 1 .. Len(q) - 1
          /\ \A i \in DOMAIN p : p[i] = q[i + 1]
        BY TailAt
    <1> HIDE DEF p
    <1>2. 1 \in DOMAIN q /\ \A i \in DOMAIN p : i + 1 \in DOMAIN q /\ 1 < i + 1
        BY <1>1
    <1>3. g < d
        BY <1>1, <1>2 DEF Eods
    <1>4. ASSUME NEW i \in DOMAIN p, p[i].kind = "eod" PROVE g < p[i].date /\ p[i].date < d
        <2>1. q[i + 1].kind = "eod" /\ p[i] = q[i + 1]
            BY <1>1, <1>4
        <2> QED
            BY <1>1, <1>2, <2>1 DEF Eods
    <1>5. ASSUME NEW i \in DOMAIN p, p[i].kind = "eod", NEW j \in DOMAIN p, p[j].kind = "eod", i < j
          PROVE  p[i].date < p[j].date
        <2>1. i + 1 < j + 1
            BY <1>1, <1>5
        <2>2. q[i + 1].kind = "eod" /\ p[i] = q[i + 1] /\ q[j + 1].kind = "eod" /\ p[j] = q[j + 1]
            BY <1>1, <1>5
        <2> QED
            BY <1>2, <2>1, <2>2 DEF Eods
    <1> QED
        BY <1>3, <1>4, <1>5 DEF Eods, p

\* The queue of the write-down database.
LEMMA InboxType ==
    ASSUME SealInv
    PROVE  /\ Inbox \in Seq(DueMessage) /\ DOMAIN Inbox = 1 .. Len(Inbox) /\ today \in Int
           /\ \A i \in DOMAIN Inbox : /\ Inbox[i].kind = "eod" => Inbox[i].date \in Int
                                      /\ Inbox[i].kind = "upd" => Inbox[i].row \in Row
    <1>1. PICK q \in Seq(DueMessage) : q = Inbox
        BY PathAssumption DEF SealInv, TpInv, Inbox
    <1>2. \A m \in DueMessage : (m.kind = "eod" => m.date \in Int) /\ (m.kind = "upd" => m.row \in Row)
        BY DEF DueMessage, ClosedDates
    <1>3. DOMAIN q = 1 .. Len(q) /\ \A i \in DOMAIN q : q[i] \in DueMessage
        OBVIOUS
    <1> QED
        BY <1>1, <1>2, <1>3 DEF SealInv, TpInv

\* The messages by their kind.
LEMMA KindsOf ==
    /\ \A r : UpdMsg(r).kind = "upd" /\ UpdMsg(r).row = r
    /\ \A w : ShedMsg(w).kind = "shed"
    /\ \A d : EodMsg(d).kind = "eod" /\ EodMsg(d).date = d
    BY DEF UpdMsg, ShedMsg, EodMsg

\* Days stay in their order.
LEMMA EodsKept ==
    ASSUME SealInv, SealInv', PlanInv, EodsInv, DayMove
    PROVE  EodsInv'
    <1>1. PICK q, h, d : q = Inbox /\ h = Handled /\ d = today
        OBVIOUS
    <1>2. PICK p, g, c : p = Inbox' /\ g = Handled' /\ c = today'
        OBVIOUS
    <1>3. /\ q \in Seq(DueMessage) /\ h \in Int /\ d \in Int /\ c \in Int
          /\ \A i \in DOMAIN q : q[i].kind = "eod" => q[i].date \in Int
        <2>1. c \in Int
            BY <1>2 DEF SealInv, TpInv
        <2> QED
            BY <1>1, <2>1, InboxType, PlanNow
    <1>4. Eods(q, h, d)
        BY <1>1 DEF EodsInv, Inbox
    <1>5. Eods(p, g, c)
        <2>1. CASE QueueStays /\ g = h
            BY <1>1, <1>2, <1>4, <2>1 DEF QueueStays
        <2>2. CASE (RowSent \/ MarkSent) /\ g = h
            <3>1. PICK m : m.kind # "eod" /\ p = Append(q, m) /\ c = d
                BY <1>1, <1>2, <2>2, KindsOf DEF RowSent, MarkSent
            <3> QED
                BY <1>3, <1>4, <2>2, <3>1, EodsAppend
        <2>3. CASE EndSent /\ g = h
            <3>1. d < c /\ p = Append(q, EodMsg(d))
                BY <1>1, <1>2, <2>3 DEF EndSent
            <3> QED
                BY <1>3, <1>4, <2>3, <3>1, EodsAnnounced
        <2>4. CASE QueueRead /\ (IF Head(q).kind = "eod" THEN g = Head(q).date ELSE g = h)
            <3>1. q # <<>> /\ p = Tail(q) /\ c = d
                BY <1>1, <1>2, <2>4 DEF QueueRead
            <3> QED
                BY <1>3, <1>4, <2>4, <3>1, EodsTail
        <2> QED
            BY <1>1, <1>2, <2>1, <2>2, <2>3, <2>4
               DEF DayMove, RowsStay, RowsFlushed, Cleared, Splayed, Retired, RowBuffered, DayBegun
    <1> QED
        BY <1>2, <1>5 DEF EodsInv, Inbox

-----------------------------------------------------------------------------
(* Where the rows are *)

\* A row of a file is a row of its date and table.
LEMMA RowsOfDay ==
    ASSUME NEW R, NEW r, NEW t
    PROVE  r \in RowsOf(R, DayFile(t)) <=> r \in R /\ DateOf(r.time) = Handled /\ r.tbl = t
    BY DEF RowsOf, FileOf, DayFile

\* The rows of the state, and their dates.
LEMMA RowDates ==
    ASSUME SealInv
    PROVE  \A r \in buf \cup scratch \cup sealed \cup Row : r \in Row /\ DateOf(r.time) \in Int /\ r.tbl \in Tables
    <1>1. \A r \in Row : DateOf(r.time) \in Int
        BY DayLenAssumption, Division DEF Row, DateOf
    <1> QED
        BY <1>1 DEF SealInv, WdbInv, Row

\* A step that moves no file, or takes a row in that is in none.
LEMMA HeldStill ==
    ASSUME SealInv, NEW h \in Int, NEW n \in 0 .. 10, NEW m \in 0 .. 10, Held(h, n),
           m = n \/ (n \in 1 .. 4 /\ m = n - 1),
           scratch' = scratch, sealed' = sealed, buf' \cap (scratch \cup sealed) = {}
    PROVE  Held(h, m)'
    <1>1. \A r \in scratch : Retiring(h, n, r) <=> Retiring(h, m, r)
        BY DEF Retiring, Turn
    <1>2. \A r \in sealed : Past(h, n, DateOf(r.time), r.tbl) => Past(h, m, DateOf(r.time), r.tbl)
        BY DEF Past, Turn
    <1> QED
        BY <1>1, <1>2 DEF Held

\* A flush, also that at the end of a day.
LEMMA HeldFlushed ==
    ASSUME SealInv, NEW h \in Int, NEW g \in Int, NEW m \in {0, 10}, Held(h, 0),
           IF m = 0 THEN g = h ELSE h < g,
           NEW c \in Int, FlushTo(c), sealed' = sealed
    PROVE  Held(g, m)'
    <1>1. \A r : ~Retiring(h, 0, r) /\ ~Retiring(g, m, r)
        BY DEF Retiring, Turn
    <1>2. \A r \in sealed : Past(h, 0, DateOf(r.time), r.tbl) => Past(g, m, DateOf(r.time), r.tbl)
        BY RowDates DEF Past, Turn
    <1>3. buf' \cap (scratch' \cup sealed) = {} /\ scratch' \subseteq scratch \cup buf
        BY DEF Held, FlushTo
    <1>4. \A r \in scratch' : r \notin sealed
        BY <1>1, <1>3 DEF Held
    <1> QED
        BY <1>1, <1>2, <1>3, <1>4 DEF Held

\* The partition is cleared: there was nothing in it.
LEMMA HeldCleared ==
    ASSUME SealInv, NEW h \in Int, NEW t \in Tables, Held(h, Turn(t)), scratch' = scratch,
           buf' \subseteq buf, sealed' \subseteq sealed
    PROVE  Held(h, Turn(t) - 1)'
    <1>1. \A r : ~Retiring(h, Turn(t), r) /\ ~Retiring(h, Turn(t) - 1, r)
        BY DEF Retiring, Turn
    <1>2. \A d, u : Past(h, Turn(t), d, u) => Past(h, Turn(t) - 1, d, u)
        BY DEF Past, Turn
    <1> QED
        BY <1>1, <1>2 DEF Held

\* The scratch file is splayed: its rows are in two places.
LEMMA HeldSplayed ==
    ASSUME SealInv, NEW h \in Int, NEW t \in Tables, Held(h, Turn(t) - 1), scratch' = scratch, buf' = buf,
           \A r : r \in sealed' <=> r \in sealed \/ (r \in scratch /\ DateOf(r.time) = h /\ r.tbl = t)
    PROVE  Held(h, Turn(t) - 2)'
    <1>1. \A r : ~Retiring(h, Turn(t) - 1, r)
        BY DEF Retiring, Turn
    <1>2. \A d, u : Past(h, Turn(t) - 1, d, u) => Past(h, Turn(t) - 2, d, u)
        BY DEF Past, Turn
    <1>3. \A r \in scratch : Retiring(h, Turn(t) - 2, r) <=> DateOf(r.time) = h /\ r.tbl = t
        BY RowDates DEF Retiring, Turn, Tables
    <1>4. Past(h, Turn(t) - 2, h, t)
        BY DEF Past, Turn
    <1> QED
        BY <1>1, <1>2, <1>3, <1>4 DEF Held

\* The scratch file is retired: they are in one again.
LEMMA HeldRetired ==
    ASSUME SealInv, NEW h \in Int, NEW t \in Tables, Held(h, Turn(t) - 2), sealed' = sealed, buf' = buf,
           \A r : r \in scratch' <=> r \in scratch /\ ~(DateOf(r.time) = h /\ r.tbl = t)
    PROVE  Held(h, Turn(t) - 3)'
    <1>1. \A r : ~Retiring(h, Turn(t) - 3, r)
        BY DEF Retiring, Turn
    <1>2. \A d, u : Past(h, Turn(t) - 2, d, u) => Past(h, Turn(t) - 3, d, u)
        BY DEF Past, Turn
    <1>3. \A r \in scratch : Retiring(h, Turn(t) - 2, r) <=> DateOf(r.time) = h /\ r.tbl = t
        BY RowDates DEF Retiring, Turn, Tables
    <1> QED
        BY <1>1, <1>2, <1>3 DEF Held

\* The first message of the queue.
LEMMA FirstMessage ==
    ASSUME SealInv, Inbox # <<>>
    PROVE  /\ 1 \in DOMAIN Inbox /\ Head(Inbox) = Inbox[1]
           /\ Head(Inbox).kind = "upd" => Head(Inbox).row \in Row
           /\ Head(Inbox).kind = "eod" => Head(Inbox).date \in Int
    <1>1. PICK q \in Seq(DueMessage) : q = Inbox
        BY InboxType
    <1>2. 1 \in DOMAIN q /\ Head(q) = q[1]
        BY <1>1
    <1> QED
        BY <1>1, <1>2, InboxType

\* A row stays in one place.
LEMMA HeldKept ==
    ASSUME SealInv, SealInv', PlanInv, EodsInv, PlacesInv, DayMove
    PROVE  Held(Handled, StepsLeft)'
    <1>1. PICK h, n : h = Handled /\ n = StepsLeft
        OBVIOUS
    <1>2. PICK g, m : g = Handled' /\ m = StepsLeft'
        OBVIOUS
    <1>3. h \in Int /\ n \in 0 .. 10 /\ Held(h, n)
        BY <1>1, PlanNow DEF PlacesInv
    <1>4. Held(g, m)'
        <2>1. CASE RowsStay
            <3>1. g = h /\ (m = n \/ (n \in 1 .. 4 /\ m = n - 1))
                BY <1>1, <1>2, <2>1 DEF RowsStay
            <3>2. m \in 0 .. 10
                BY <1>3, <3>1
            <3>3. scratch' = scratch /\ sealed' = sealed /\ buf' \cap (scratch \cup sealed) = {}
                BY <1>3, <2>1 DEF RowsStay, Held
            <3> QED
                BY <1>3, <3>1, <3>2, <3>3, HeldStill
        <2>2. CASE QueueRead /\ RowBuffered
            <3>1. g = h /\ m = n /\ scratch' = scratch /\ sealed' = sealed /\ buf' = buf \cup {Head(Inbox).row}
                BY <1>1, <1>2, <2>2 DEF RowBuffered
            <3>2. Head(Inbox).row \notin scratch \cup sealed
                BY <2>2, FirstMessage DEF QueueRead, RowBuffered, PlacesInv, Fresh, Inbox
            <3>3. buf' \cap (scratch \cup sealed) = {}
                BY <1>3, <3>1, <3>2 DEF Held
            <3> QED
                BY <1>3, <3>1, <3>3, HeldStill
        <2>3. CASE RowsFlushed
            <3>1. g = h /\ m = 0 /\ n = 0 /\ sealed' = sealed
                BY <1>1, <1>2, <2>3 DEF RowsFlushed
            <3>2. PICK c \in Int : FlushTo(c)
                BY <2>3 DEF RowsFlushed
            <3> QED
                BY <1>3, <3>1, <3>2, HeldFlushed
        <2>4. CASE QueueRead /\ DayBegun
            <3>1. g = Head(Inbox).date /\ m = 10 /\ n = 0 /\ sealed' = sealed
                BY <1>1, <1>2, <2>4 DEF DayBegun
            <3>2. h < g /\ g \in Int
                BY <1>1, <2>4, <3>1, FirstMessage DEF QueueRead, DayBegun, EodsInv, Eods, Inbox
            <3>3. Midnight(g + 1) \in Int /\ FlushTo(Midnight(g + 1))
                BY <2>4, <3>1, <3>2, DayLenAssumption DEF DayBegun, Midnight
            <3> QED
                BY <1>3, <3>1, <3>2, <3>3, HeldFlushed
        <2>5. ASSUME NEW t \in Tables, Cleared(t) PROVE Held(g, m)'
            <3>1. g = h /\ n = Turn(t) /\ m = Turn(t) - 1
                BY <1>1, <1>2, <2>5 DEF Cleared
            <3>2. scratch' = scratch /\ buf' \subseteq buf /\ sealed' \subseteq sealed
                BY <2>5 DEF Cleared
            <3> QED
                BY <1>3, <3>1, <3>2, HeldCleared
        <2>6. ASSUME NEW t \in Tables, Splayed(t) PROVE Held(g, m)'
            <3>1. g = h /\ n = Turn(t) - 1 /\ m = Turn(t) - 2
                BY <1>1, <1>2, <2>6 DEF Splayed
            <3>2. /\ scratch' = scratch /\ buf' = buf
                  /\ \A r : r \in sealed' <=> r \in sealed \/ (r \in scratch /\ DateOf(r.time) = h /\ r.tbl = t)
                BY <1>1, <2>6, RowsOfDay DEF Splayed
            <3> QED
                BY <1>3, <3>1, <3>2, HeldSplayed
        <2>7. ASSUME NEW t \in Tables, Retired(t) PROVE Held(g, m)'
            <3>1. g = h /\ n = Turn(t) - 2 /\ m = Turn(t) - 3
                BY <1>1, <1>2, <2>7 DEF Retired
            <3>2. /\ sealed' = sealed /\ buf' = buf
                  /\ \A r : r \in scratch' <=> r \in scratch /\ ~(DateOf(r.time) = h /\ r.tbl = t)
                BY <1>1, <2>7, RowsOfDay DEF Retired
            <3> QED
                BY <1>3, <3>1, <3>2, HeldRetired
        <2> QED
            BY <2>1, <2>2, <2>3, <2>4, <2>5, <2>6, <2>7 DEF DayMove
    <1> QED
        BY <1>2, <1>4 DEF Held

\* No row is kept that was not sent and read.
LEMMA NothingInvented ==
    ASSUME SealInv, DayMove
    PROVE  \A r \in (buf \cup scratch \cup sealed)' :
              \/ r \in buf \cup scratch \cup sealed
              \/ QueueRead /\ Head(Inbox).kind = "upd" /\ r = Head(Inbox).row
    <1>1. CASE RowsStay
        BY <1>1 DEF RowsStay
    <1>2. CASE QueueRead /\ RowBuffered
        BY <1>2 DEF RowBuffered
    <1>3. CASE RowsFlushed \/ DayBegun
        BY <1>3 DEF RowsFlushed, DayBegun, FlushTo
    <1>4. ASSUME NEW t, Cleared(t) \/ Splayed(t) \/ Retired(t)
          PROVE  (buf \cup scratch \cup sealed)' \subseteq buf \cup scratch \cup sealed
        BY <1>4 DEF Cleared, Splayed, Retired, RowsOf
    <1> QED
        BY <1>1, <1>2, <1>3, <1>4 DEF DayMove

\* What may happen to the queue, and what is then kept.
LEMMA FreshStays ==
    ASSUME SealInv, PlacesInv, DayMove
    PROVE  Fresh(Inbox, buf \cup scratch \cup sealed)'
    <1>1. PICK q, R : q = Inbox /\ R = buf \cup scratch \cup sealed
        OBVIOUS
    <1>2. PICK p, S : p = Inbox' /\ S = (buf \cup scratch \cup sealed)'
        OBVIOUS
    <1>3. q \in Seq(DueMessage) /\ Fresh(q, R)
        BY <1>1, InboxType DEF PlacesInv, Inbox
    <1>4. \A x \in S : x \in R \/ (QueueRead /\ Head(q).kind = "upd" /\ x = Head(q).row)
        BY <1>1, <1>2, NothingInvented
    <1>5. \A i \in DOMAIN q : q[i].kind = "upd" => q[i].row \in LoggedRows
        BY <1>1, InboxType DEF PlacesInv, RowsIn, Inbox
    <1>6. R \subseteq LoggedRows
        BY <1>1 DEF PlacesInv
    <1>7. Fresh(p, S)
        <2>1. CASE QueueRead
            <3>1. q # <<>> /\ p = Tail(q)
                BY <1>1, <1>2, <2>1 DEF QueueRead
            <3> QED
                BY <1>3, <1>4, <3>1, FreshTail
        <2>2. CASE ~QueueRead
            <3>1. \A x \in S : x \in R
                BY <1>4, <2>2
            <3>2. CASE p = q
                BY <1>3, <3>1, <3>2 DEF Fresh
            <3>3. ASSUME NEW m, p = Append(q, m),
                         m.kind = "upd" => m.row \notin LoggedRows
                  PROVE  Fresh(p, S)
                <4>1. Fresh(p, R)
                    BY <1>3, <1>5, <1>6, <3>3, FreshAppend
                <4> QED
                    BY <3>1, <4>1 DEF Fresh
            <3>4. QueueStays => p = q
                BY <1>1, <1>2 DEF QueueStays
            <3>5. RowSent \/ MarkSent \/ EndSent => \E m : p = Append(q, m) /\ (m.kind = "upd" => m.row \notin LoggedRows)
                BY <1>1, <1>2, KindsOf DEF RowSent, MarkSent, EndSent
            <3> QED
                BY <2>2, <3>2, <3>3, <3>4, <3>5 DEF DayMove
        <2> QED
            BY <2>1, <2>2
    <1> QED
        BY <1>2, <1>7

\* The rows on the way were logged.
LEMMA OnTheWay ==
    ASSUME SealInv
    PROVE  RowsIn(chan["wdb"]) \subseteq LoggedRows
             <=> \A i \in DOMAIN Inbox : Inbox[i].kind = "upd" => Inbox[i].row \in LoggedRows
    BY InboxType DEF RowsIn, Inbox

\* Nothing is kept that was not logged.
LEMMA LoggedKept ==
    ASSUME SealInv, SealInv', PlacesInv, DayMove
    PROVE  RowsIn(chan["wdb"])' \cup (buf \cup scratch \cup sealed)' \subseteq LoggedRows'
    <1>1. PICK q, p : q = Inbox /\ p = Inbox'
        OBVIOUS
    <1>2. q \in Seq(DueMessage) /\ \A i \in DOMAIN q : q[i].kind = "upd" => q[i].row \in LoggedRows
        BY <1>1, InboxType, OnTheWay DEF PlacesInv
    <1>3. LoggedRows \subseteq LoggedRows'
        BY DEF DayMove, QueueStays, QueueRead, RowSent, MarkSent, EndSent, LoggedRows
    <1>4. \A i \in DOMAIN p : p[i].kind = "upd" => p[i].row \in LoggedRows'
        <2>1. CASE p = q
            BY <1>2, <1>3, <2>1
        <2>2. CASE q # <<>> /\ p = Tail(q)
            <3>1. \A i \in DOMAIN p : i + 1 \in DOMAIN q /\ p[i] = q[i + 1]
                BY <1>2, <2>2, TailAt
            <3> QED
                BY <1>2, <1>3, <3>1
        <2>3. ASSUME NEW m, p = Append(q, m), m.kind = "upd" => m.row \in LoggedRows',
                     NEW i \in DOMAIN p, p[i].kind = "upd"
              PROVE  p[i].row \in LoggedRows'
            <3>1. (i \in DOMAIN q /\ p[i] = q[i]) \/ (i = Len(q) + 1 /\ p[i] = m)
                BY <1>2, <2>3, AppendAt
            <3> QED
                BY <1>2, <1>3, <2>3, <3>1
        <2>4. ASSUME RowSent PROVE \E m : p = Append(q, m) /\ (m.kind = "upd" => m.row \in LoggedRows')
            <3>1. PICK r \in Row : /\ logged' = logged \cup {[date |-> today, row |-> r]}
                                   /\ Inbox' = Append(Inbox, UpdMsg(r))
                BY <2>4 DEF RowSent
            <3>2. [date |-> today, row |-> r] \in logged' /\ [date |-> today, row |-> r].row = r
                BY <3>1
            <3>3. r \in LoggedRows'
                BY <3>2 DEF LoggedRows
            <3> QED
                BY <1>1, <3>1, <3>3, KindsOf
        <2>5. ASSUME MarkSent \/ EndSent PROVE \E m : p = Append(q, m) /\ (m.kind = "upd" => m.row \in LoggedRows')
            BY <1>1, <2>5, KindsOf DEF MarkSent, EndSent
        <2>6. QueueStays => p = q
            BY <1>1 DEF QueueStays
        <2>7. QueueRead => q # <<>> /\ p = Tail(q)
            BY <1>1 DEF QueueRead
        <2> QED
            BY <2>1, <2>2, <2>3, <2>4, <2>5, <2>6, <2>7 DEF DayMove
    <1>5. (RowsIn(chan["wdb"]) \subseteq LoggedRows)'
        <2>1. DOMAIN p = 1 .. Len(p)
            <3>1. PICK s \in Seq(DueMessage)' : s = p
                BY <1>1, PathAssumption DEF SealInv, TpInv, Inbox
            <3> QED
                BY <3>1
        <2> QED
            BY <1>1, <1>4, <2>1 DEF RowsIn, Inbox
    <1>6. (buf \cup scratch \cup sealed)' \subseteq LoggedRows'
        <2>1. buf \cup scratch \cup sealed \subseteq LoggedRows
            BY DEF PlacesInv
        <2>2. QueueRead /\ Head(Inbox).kind = "upd" => Head(Inbox).row \in LoggedRows
            BY <1>1, <1>2, FirstMessage DEF QueueRead
        <2> QED
            BY <1>3, <2>1, <2>2, NothingInvented
    <1> QED
        BY <1>5, <1>6

\* The places of the rows, together.
LEMMA PlacesKept ==
    ASSUME SealInv, SealInv', PlanInv, EodsInv, PlacesInv, DayMove
    PROVE  PlacesInv'
    BY FreshStays, LoggedKept, HeldKept DEF PlacesInv, Inbox

-----------------------------------------------------------------------------
(* Which partitions there are *)

\* A step that makes no partition.
LEMMA PartsStill ==
    ASSUME NEW h \in Int, NEW n \in 0 .. 10, NEW m \in 0 .. 10, Parts(h, n), splays' = splays,
           m = n \/ (n \in 1 .. 4 /\ m = n - 1) \/ (n \in {10, 8, 7, 5} /\ m = n - 1)
    PROVE  Parts(h, m)'
    <1>1. ASSUME NEW t \in Tables, NEW d \in Int PROVE Past(h, n, d, t) <=> Past(h, m, d, t)
        BY DEF Past, Turn, Tables
    <1>2. ASSUME m > 0, NEW t \in Tables, m <= Turn(t) - 2
          PROVE  n > 0 /\ n <= Turn(t) - 2
        BY <1>2 DEF Turn, Tables
    <1> QED
        BY <1>1, <1>2 DEF Parts

\* Another day begins to be handled: all partitions are of days before it.
LEMMA PartsBegun ==
    ASSUME NEW h \in Int, NEW g \in Int, h < g, Parts(h, 0), splays' = splays
    PROVE  Parts(g, 10)'
    <1>1. ASSUME NEW t \in Tables, NEW d \in Int PROVE (Past(h, 0, d, t) <=> d <= h) /\ (Past(g, 10, d, t) <=> d < g)
        BY DEF Past, Turn, Tables
    <1>2. ASSUME NEW t \in Tables, 10 <= Turn(t) - 2 PROVE FALSE
        BY <1>2 DEF Turn, Tables
    <1>3. ASSUME NEW d \in Int, NEW t \in Tables, NEW u \in Tables, [date |-> d, tbl |-> t] \in splays
          PROVE  d <= h /\ [date |-> d, tbl |-> u] \in splays
        BY <1>1, <1>3 DEF Parts
    <1>4. \A d \in Int : d <= h => d < g
        OBVIOUS
    <1> QED
        BY <1>1, <1>2, <1>3, <1>4 DEF Parts

\* A partition is made.
LEMMA PartsSplayed ==
    ASSUME NEW h \in Int, NEW t \in Tables, Parts(h, Turn(t) - 1),
           splays' = splays \cup {[date |-> h, tbl |-> t]}
    PROVE  Parts(h, Turn(t) - 2)'
    <1>1. ASSUME NEW d \in Int, NEW u \in Tables
          PROVE  Past(h, Turn(t) - 2, d, u) <=> Past(h, Turn(t) - 1, d, u) \/ (d = h /\ u = t)
        BY DEF Past, Turn, Tables
    <1>2. ASSUME NEW u \in Tables, Turn(t) - 2 <= Turn(u) - 2 PROVE u = t \/ Turn(t) - 1 <= Turn(u) - 2
        BY <1>2 DEF Turn, Tables
    <1>3. Turn(t) - 1 > 0 /\ Turn(t) - 2 > 0
        BY DEF Turn, Tables
    <1>4. ASSUME NEW u \in Tables, Turn(t) - 2 <= Turn(u) - 2 PROVE [date |-> h, tbl |-> u] \in splays'
        BY <1>2, <1>3, <1>4 DEF Parts
    <1>5. ASSUME NEW u \in Tables, Past(h, Turn(t) - 2, h, u) PROVE [date |-> h, tbl |-> u] \in splays'
        BY <1>4, <1>5 DEF Past
    <1>6. ASSUME NEW d \in Int, NEW s \in Tables, NEW u \in Tables, [date |-> d, tbl |-> s] \in splays'
          PROVE  Past(h, Turn(t) - 2, d, s) /\ (Past(h, Turn(t) - 2, d, u) => [date |-> d, tbl |-> u] \in splays')
        <2>1. [date |-> d, tbl |-> s] \in splays \/ (d = h /\ s = t)
            BY <1>6
        <2>2. Past(h, Turn(t) - 2, d, s)
            BY <1>1, <2>1 DEF Parts
        <2>3. CASE d = h
            BY <1>5, <2>2, <2>3
        <2>4. CASE d # h
            BY <1>1, <2>1, <2>4 DEF Parts
        <2> QED
            BY <2>2, <2>3, <2>4
    <1> QED
        BY <1>4, <1>6 DEF Parts

\* Partitions are made in their turn.
LEMMA PartitionsKept ==
    ASSUME SealInv, SealInv', PlanInv, EodsInv, PartitionsInv, DayMove
    PROVE  PartitionsInv'
    <1>1. PICK h, n : h = Handled /\ n = StepsLeft
        OBVIOUS
    <1>2. PICK g, m : g = Handled' /\ m = StepsLeft'
        OBVIOUS
    <1>3. h \in Int /\ n \in 0 .. 10 /\ Parts(h, n)
        BY <1>1, PlanNow DEF PartitionsInv
    <1>4. Parts(g, m)'
        <2>1. CASE RowsStay \/ RowBuffered \/ RowsFlushed
            <3>1. g = h /\ (m = n \/ (n \in 1 .. 4 /\ m = n - 1)) /\ splays' = splays
                BY <1>1, <1>2, <2>1 DEF RowsStay, RowBuffered, RowsFlushed
            <3>2. m \in 0 .. 10
                BY <1>3, <3>1
            <3> QED
                BY <1>3, <3>1, <3>2, PartsStill
        <2>2. CASE QueueRead /\ DayBegun
            <3>1. g = Head(Inbox).date /\ m = 10 /\ n = 0 /\ splays' = splays
                BY <1>1, <1>2, <2>2 DEF DayBegun
            <3>2. h < g /\ g \in Int
                BY <1>1, <2>2, <3>1, FirstMessage DEF QueueRead, DayBegun, EodsInv, Eods, Inbox
            <3> QED
                BY <1>3, <3>1, <3>2, PartsBegun
        <2>3. ASSUME NEW t \in Tables, Cleared(t) PROVE Parts(g, m)'
            <3>1. g = h /\ n = Turn(t) /\ m = Turn(t) - 1 /\ splays' = splays \ {[date |-> h, tbl |-> t]}
                BY <1>1, <1>2, <2>3 DEF Cleared, DayFile
            <3>2. ~Past(h, n, h, t)
                BY <1>3, <3>1 DEF Past, Turn, Tables
            <3>3. splays' = splays
                BY <1>3, <3>1, <3>2 DEF Parts
            <3>4. n \in {10, 8, 7, 5} /\ m = n - 1 /\ m \in 0 .. 10
                BY <3>1 DEF Turn, Tables
            <3> QED
                BY <1>3, <3>1, <3>3, <3>4, PartsStill
        <2>4. ASSUME NEW t \in Tables, Splayed(t) PROVE Parts(g, m)'
            <3>1. g = h /\ n = Turn(t) - 1 /\ m = Turn(t) - 2 /\ splays' = splays \cup {[date |-> h, tbl |-> t]}
                BY <1>1, <1>2, <2>4 DEF Splayed, DayFile
            <3> QED
                BY <1>3, <3>1, PartsSplayed
        <2>5. ASSUME NEW t \in Tables, Retired(t) PROVE Parts(g, m)'
            <3>1. g = h /\ n = Turn(t) - 2 /\ m = Turn(t) - 3 /\ splays' = splays
                BY <1>1, <1>2, <2>5 DEF Retired
            <3>2. n \in {10, 8, 7, 5} /\ m = n - 1 /\ m \in 0 .. 10
                BY <3>1 DEF Turn, Tables
            <3> QED
                BY <1>3, <3>1, <3>2, PartsStill
        <2> QED
            BY <2>1, <2>2, <2>3, <2>4, <2>5 DEF DayMove
    <1> QED
        BY <1>2, <1>4 DEF PartitionsInv, Parts

-----------------------------------------------------------------------------
(* What has come before the end of its day *)

\* A message that brings another row.
LEMMA AppendBrings ==
    ASSUME NEW T, NEW q \in Seq(T), NEW m, NEW r, ~(m.kind = "upd" /\ m.row = r)
    PROVE  /\ \A j \in DOMAIN Append(q, m) : Brings(Append(q, m), j, r) => j \in DOMAIN q /\ Brings(q, j, r)
           /\ OnItsWay(q, r) => OnItsWay(Append(q, m), r)
    <1> DEFINE p == Append(q, m)
    <1>1. /\ \A i \in DOMAIN p : i = Len(q) + 1 \/ i \in DOMAIN q
          /\ p[Len(q) + 1] = m /\ \A i \in DOMAIN q : p[i] = q[i] /\ i \in DOMAIN p
        BY AppendAt
    <1> HIDE DEF p
    <1> QED
        BY <1>1 DEF Brings, OnItsWay, p

\* The end of the row's day, or of a later one, may follow.
LEMMA ArrivedAppend ==
    ASSUME NEW T, NEW q \in Seq(T), NEW m, NEW e, Arrived(q, e), ~(m.kind = "upd" /\ m.row = e.row),
           m.kind = "eod" => e.date <= m.date
    PROVE  Arrived(Append(q, m), e)
    <1> DEFINE p == Append(q, m)
    <1>1. /\ DOMAIN q = 1 .. Len(q) /\ Len(q) \in Nat
          /\ \A i \in DOMAIN p : i = Len(q) + 1 \/ i \in DOMAIN q
          /\ p[Len(q) + 1] = m /\ \A i \in DOMAIN q : p[i] = q[i] /\ i \in DOMAIN p
        BY AppendAt
    <1> HIDE DEF p
    <1>2. ASSUME NEW i \in DOMAIN p, p[i].kind = "eod", \A j \in DOMAIN p : Brings(p, j, e.row) => j < i
          PROVE  e.date <= p[i].date
        <2>1. CASE i = Len(q) + 1
            BY <1>1, <1>2, <2>1
        <2>2. CASE i \in DOMAIN q
            <3>1. \A j \in DOMAIN q : Brings(q, j, e.row) => j < i
                BY <1>1, <1>2 DEF Brings
            <3> QED
                BY <1>1, <1>2, <2>2, <3>1 DEF Arrived
        <2> QED
            BY <1>1, <2>1, <2>2
    <1> QED
        BY <1>2 DEF Arrived, p

\* A row that is sent is behind everything.
LEMMA ArrivedSent ==
    ASSUME NEW T, NEW q \in Seq(T), NEW e
    PROVE  Arrived(Append(q, UpdMsg(e.row)), e) /\ OnItsWay(Append(q, UpdMsg(e.row)), e.row)
    <1> DEFINE p == Append(q, UpdMsg(e.row))
    <1>1. DOMAIN p = 1 .. Len(q) + 1 /\ Len(q) \in Nat /\ p[Len(q) + 1] = UpdMsg(e.row)
        BY AppendAt
    <1> HIDE DEF p
    <1>2. Len(q) + 1 \in DOMAIN p /\ Brings(p, Len(q) + 1, e.row)
        BY <1>1, KindsOf DEF Brings
    <1>3. \A i \in DOMAIN p : ~(Len(q) + 1 < i)
        BY <1>1
    <1> QED
        BY <1>2, <1>3 DEF Arrived, OnItsWay, p

\* What follows the row still follows when the head was read.
LEMMA ArrivedTail ==
    ASSUME NEW T, NEW q \in Seq(T), q # <<>>, NEW e, Arrived(q, e)
    PROVE  Arrived(Tail(q), e)
    <1> DEFINE p == Tail(q)
    <1>1. /\ DOMAIN q = 1 .. Len(q) /\ Len(q) \in Nat \ {0} /\ DOMAIN p = 1 .. Len(q) - 1
          /\ \A i \in DOMAIN p : p[i] = q[i + 1]
        BY TailAt
    <1> HIDE DEF p
    <1>2. ASSUME NEW i \in DOMAIN p, p[i].kind = "eod", \A j \in DOMAIN p : Brings(p, j, e.row) => j < i
          PROVE  e.date <= p[i].date
        <2>1. i + 1 \in DOMAIN q /\ q[i + 1] = p[i]
            BY <1>1
        <2>2. ASSUME NEW j \in DOMAIN q, Brings(q, j, e.row) PROVE j < i + 1
            <3>1. CASE j = 1
                BY <1>1, <3>1
            <3>2. CASE j # 1
                <4>1. PICK k \in DOMAIN p : k = j - 1 /\ k + 1 = j /\ k \in Int /\ i \in Int
                    BY <1>1, <3>2
                <4>2. Brings(p, k, e.row)
                    BY <1>1, <2>2, <4>1 DEF Brings
                <4>3. k < i
                    BY <1>2, <4>2
                <4> QED
                    BY <4>1, <4>3
            <3> QED
                BY <3>1, <3>2
        <2> QED
            BY <1>2, <2>1, <2>2 DEF Arrived
    <1> QED
        BY <1>2 DEF Arrived, p

\* The end of its day, sent after the row.
LEMMA EndsAppend ==
    ASSUME NEW T, NEW q \in Seq(T), NEW m, NEW e, ~(m.kind = "upd" /\ m.row = e.row),
           EndsAfter(q, e) \/ (m.kind = "eod" /\ m.date = e.date)
    PROVE  EndsAfter(Append(q, m), e)
    <1> DEFINE p == Append(q, m)
    <1>1. /\ DOMAIN q = 1 .. Len(q) /\ Len(q) \in Nat /\ DOMAIN p = 1 .. Len(q) + 1
          /\ p[Len(q) + 1] = m /\ \A i \in DOMAIN q : p[i] = q[i] /\ i \in DOMAIN p
        BY AppendAt
    <1>2. \A j \in DOMAIN p : Brings(p, j, e.row) => j \in DOMAIN q /\ Brings(q, j, e.row)
        BY AppendBrings
    <1> HIDE DEF p
    <1>3. CASE EndsAfter(q, e)
        BY <1>1, <1>2, <1>3 DEF EndsAfter, p
    <1>4. CASE m.kind = "eod" /\ m.date = e.date
        <2>1. Len(q) + 1 \in DOMAIN p /\ \A j \in DOMAIN q : j < Len(q) + 1
            BY <1>1
        <2> QED
            BY <1>1, <1>2, <1>4, <2>1 DEF EndsAfter, p
    <1> QED
        BY <1>3, <1>4

\* The end of its day is on its way until it is read.
LEMMA EndsTail ==
    ASSUME NEW T, NEW q \in Seq(T), q # <<>>, NEW e, EndsAfter(q, e),
           ~(Head(q).kind = "eod" /\ Head(q).date = e.date)
    PROVE  EndsAfter(Tail(q), e)
    <1> DEFINE p == Tail(q)
    <1>1. /\ DOMAIN q = 1 .. Len(q) /\ Len(q) \in Nat \ {0} /\ DOMAIN p = 1 .. Len(q) - 1
          /\ Head(q) = q[1] /\ \A i \in DOMAIN p : p[i] = q[i + 1]
        BY TailAt
    <1> HIDE DEF p
    <1>2. PICK i \in DOMAIN q : /\ q[i].kind = "eod" /\ q[i].date = e.date
                                /\ \A j \in DOMAIN q : Brings(q, j, e.row) => j < i
        BY DEF EndsAfter
    <1>3. i # 1
        BY <1>1, <1>2
    <1>4. PICK k \in DOMAIN p : k + 1 = i /\ k \in Int
        <2>1. i - 1 \in DOMAIN p /\ (i - 1) + 1 = i /\ i - 1 \in Int
            BY <1>1, <1>3
        <2> QED
            BY <2>1
    <1>5. ASSUME NEW j \in DOMAIN p, Brings(p, j, e.row) PROVE j < k
        <2>1. j + 1 \in DOMAIN q /\ Brings(q, j + 1, e.row) /\ j \in Int
            BY <1>1, <1>5 DEF Brings
        <2>2. j + 1 < i
            BY <1>2, <2>1
        <2> QED
            BY <1>4, <2>1, <2>2
    <1>6. p[k].kind = "eod" /\ p[k].date = e.date
        BY <1>1, <1>2, <1>4
    <1> QED
        BY <1>5, <1>6 DEF EndsAfter, p

\* A row is on its way until it is read.
LEMMA WayTail ==
    ASSUME NEW T, NEW q \in Seq(T), q # <<>>, NEW r, OnItsWay(q, r)
    PROVE  OnItsWay(Tail(q), r) \/ (Head(q).kind = "upd" /\ Head(q).row = r)
    <1> DEFINE p == Tail(q)
    <1>1. /\ DOMAIN q = 1 .. Len(q) /\ Len(q) \in Nat \ {0} /\ DOMAIN p = 1 .. Len(q) - 1
          /\ Head(q) = q[1] /\ \A i \in DOMAIN p : p[i] = q[i + 1]
        BY TailAt
    <1> HIDE DEF p
    <1>2. PICK j \in DOMAIN q : Brings(q, j, r)
        BY DEF OnItsWay
    <1>3. CASE j = 1
        BY <1>1, <1>2, <1>3 DEF Brings
    <1>4. CASE j # 1
        <2>1. PICK k \in DOMAIN p : k + 1 = j
            <3>1. j - 1 \in DOMAIN p /\ (j - 1) + 1 = j
                BY <1>1, <1>4
            <3> QED
                BY <3>1
        <2>2. Brings(p, k, r)
            BY <1>1, <1>2, <2>1 DEF Brings
        <2> QED
            BY <2>2 DEF OnItsWay, p
    <1> QED
        BY <1>3, <1>4

-----------------------------------------------------------------------------
(* Where the rows of a day are until it is sealed *)

\* The types of what was logged.
LEMMA LoggedTypes ==
    ASSUME SealInv, NEW e \in logged
    PROVE  e.date \in Int /\ e.row \in Row /\ e.row.tbl \in Tables /\ e.row.time \in Nat
    BY DEF SealInv, TpInv, Row

\* A step that moves no file, or takes in a row that was on its way.
LEMMA KeptStill ==
    ASSUME SealInv, NEW e \in logged, NEW q, NEW p, NEW h \in Int, NEW n \in 0 .. 10, NEW m \in 0 .. 10,
           Kept(q, h, n, e), m = n \/ (n \in 1 .. 4 /\ m = n - 1),
           sealed' = sealed, scratch' = scratch, buf \subseteq buf',
           OnItsWay(q, e.row) => OnItsWay(p, e.row) \/ (n = 0 /\ e.row \in buf')
    PROVE  Kept(p, h, m, e)'
    <1>1. Past(h, n, e.date, e.row.tbl) <=> Past(h, m, e.date, e.row.tbl)
        BY LoggedTypes DEF Past, Turn
    <1>2. n = 0 => m = 0
        OBVIOUS
    <1> QED
        BY <1>1, <1>2 DEF Kept

\* A flush.
LEMMA KeptFlushed ==
    ASSUME SealInv, NEW e \in logged, NEW q, NEW h \in Int, Kept(q, h, 0, e),
           NEW c \in Int, FlushTo(c), sealed' = sealed
    PROVE  Kept(q, h, 0, e)'
    <1>1. e.date <= h => Past(h, 0, e.date, e.row.tbl)
        BY LoggedTypes DEF Past, Turn, Tables
    <1>2. scratch \subseteq scratch' /\ buf \subseteq buf' \cup scratch'
        BY DEF FlushTo
    <1> QED
        BY <1>1, <1>2 DEF Kept

\* The partition of the day is cleared.
LEMMA KeptCleared ==
    ASSUME SealInv, NEW e \in logged, NEW q, NEW h \in Int, NEW t \in Tables, Kept(q, h, Turn(t), e),
           scratch' = scratch, sealed' = sealed
    PROVE  Kept(q, h, Turn(t) - 1, e)'
    <1>1. Past(h, Turn(t), e.date, e.row.tbl) <=> Past(h, Turn(t) - 1, e.date, e.row.tbl)
        BY LoggedTypes DEF Past, Turn, Tables
    <1>2. Turn(t) # 0
        BY DEF Turn
    <1> QED
        BY <1>1, <1>2 DEF Kept

\* The scratch file of the day is splayed: with it the row.
LEMMA KeptSplayed ==
    ASSUME SealInv, NEW e \in logged, OfItsDay(e), NEW q, NEW h \in Int, NEW t \in Tables,
           Kept(q, h, Turn(t) - 1, e), scratch' = scratch,
           \A r : r \in sealed' <=> r \in sealed \/ (r \in scratch /\ DateOf(r.time) = h /\ r.tbl = t)
    PROVE  Kept(q, h, Turn(t) - 2, e)'
    <1>1. Past(h, Turn(t) - 2, e.date, e.row.tbl)
            <=> Past(h, Turn(t) - 1, e.date, e.row.tbl) \/ (e.date = h /\ e.row.tbl = t)
        BY LoggedTypes DEF Past, Turn, Tables
    <1>2. Turn(t) - 1 # 0
        BY DEF Turn
    <1> QED
        BY <1>1, <1>2 DEF Kept, OfItsDay

\* The scratch file of the day is retired: of the day's rows, those that were splayed.
LEMMA KeptRetired ==
    ASSUME SealInv, NEW e \in logged, OfItsDay(e), NEW q, NEW h \in Int, NEW t \in Tables,
           Kept(q, h, Turn(t) - 2, e), sealed' = sealed,
           \A r : r \in scratch' <=> r \in scratch /\ ~(DateOf(r.time) = h /\ r.tbl = t)
    PROVE  Kept(q, h, Turn(t) - 3, e)'
    <1>1. Past(h, Turn(t) - 3, e.date, e.row.tbl) <=> Past(h, Turn(t) - 2, e.date, e.row.tbl)
        BY LoggedTypes DEF Past, Turn, Tables
    <1>2. Past(h, Turn(t) - 2, h, t) /\ Turn(t) - 2 # 0
        BY DEF Past, Turn, Tables
    <1>3. e.date > h => e.date # h
        BY LoggedTypes
    <1>4. CASE e.date <= h
        BY <1>1, <1>2, <1>4 DEF Kept, OfItsDay
    <1>5. CASE ~(e.date <= h)
        BY <1>2, <1>3, <1>5, LoggedTypes DEF Kept, OfItsDay
    <1> QED
        BY <1>4, <1>5

\* A row of a day was sent before the midnight that ends it.
LEMMA BeforeMidnight ==
    ASSUME NEW x \in Nat
    PROVE  x < Midnight(DateOf(x) + 1)
    <1>1. /\ DateOf(x) \in Nat /\ x % DayLen \in 0 .. DayLen - 1
          /\ x = DayLen * DateOf(x) + (x % DayLen)
        BY DayLenAssumption, Division DEF DateOf
    <1>2. (DateOf(x) + 1) * DayLen = DayLen * DateOf(x) + DayLen
        BY <1>1, DayLenAssumption, Z3
    <1>3. DayLen * DateOf(x) \in Int /\ DayLen \in Nat
        BY <1>1, DayLenAssumption
    <1> QED
        BY <1>1, <1>2, <1>3 DEF Midnight

\* The end of a day finds its rows in memory or in the scratch files.
LEMMA KeptBegun ==
    ASSUME SealInv, NEW e \in logged, OfItsDay(e), NEW q \in Seq(DueMessage), q # <<>>,
           Head(q).kind = "eod", NEW d \in Int, d = Head(q).date, NEW h \in Int, h < d, Kept(q, h, 0, e),
           d < e.date => e.row \notin buf,
           e.date <= d /\ h < e.date => e.date = d /\ ~OnItsWay(q, e.row),
           FlushTo(Midnight(d + 1)), sealed' = sealed
    PROVE  Kept(Tail(q), d, 10, e)'
    <1>1. CASE e.date <= h
        <2>1. Past(h, 0, e.date, e.row.tbl) /\ Past(d, 10, e.date, e.row.tbl) /\ e.date <= d
            BY <1>1, LoggedTypes DEF Past, Turn, Tables
        <2> QED
            BY <1>1, <2>1 DEF Kept
    <1>2. CASE h < e.date /\ e.date <= d
        <2>1. e.date = d /\ ~OnItsWay(q, e.row)
            BY <1>2
        <2>2. e.row \in scratch \/ e.row \in buf
            BY <1>2, <2>1, LoggedTypes DEF Kept
        <2>3. e.row.time < Midnight(d + 1)
            BY <2>1, LoggedTypes, BeforeMidnight DEF OfItsDay
        <2>4. e.row \in scratch'
            BY <2>2, <2>3 DEF FlushTo
        <2>5. ~Past(d, 10, e.date, e.row.tbl)
            BY <2>1, LoggedTypes DEF Past, Turn, Tables
        <2> QED
            BY <2>1, <2>4, <2>5 DEF Kept
    <1>3. CASE d < e.date
        <2>1. ~(e.date <= h) /\ ~(e.date <= d)
            BY <1>3, LoggedTypes
        <2>2. e.row \in scratch \/ OnItsWay(q, e.row)
            BY <1>3, <2>1 DEF Kept
        <2>3. OnItsWay(q, e.row) => OnItsWay(Tail(q), e.row)
            BY WayTail
        <2>4. scratch \subseteq scratch'
            BY DEF FlushTo
        <2> QED
            BY <2>1, <2>2, <2>3, <2>4 DEF Kept
    <1> QED
        BY <1>1, <1>2, <1>3, LoggedTypes

\* A row is not sent again.
LEMMA NotSentAgain ==
    ASSUME NEW e \in logged, NEW m, m.kind = "upd" => m.row \notin LoggedRows
    PROVE  ~(m.kind = "upd" /\ m.row = e.row)
    BY DEF LoggedRows

\* The queue, with regard to a row that was logged before.
LEMMA QueueFollows ==
    ASSUME SealInv, SealInv', PlanInv, DayMove,
           NEW e \in logged, NEW q, NEW p, NEW h, NEW g, NEW d, NEW c, q = Inbox, p = Inbox', h = Handled, g = Handled',
           d = today, c = today', e.date <= d, Arrived(q, e)
    PROVE  /\ e.date <= c /\ Arrived(p, e)
           /\ (e.date < d /\ h < e.date => EndsAfter(q, e))
                 => ((e.date < c /\ g < e.date) /\ h <= g => EndsAfter(p, e))
    <1>1. q \in Seq(DueMessage) /\ h \in Int /\ d \in Int /\ c \in Int /\ e.date \in Int
        <2>1. c \in Int
            BY DEF SealInv, TpInv
        <2> QED
            BY <2>1, InboxType, PlanNow, LoggedTypes
    <1>2. CASE QueueStays /\ g = h
        BY <1>2 DEF QueueStays
    <1>3. CASE (RowSent \/ MarkSent) /\ g = h
        <2>1. PICK m : p = Append(q, m) /\ m.kind # "eod" /\ (m.kind = "upd" => m.row \notin LoggedRows) /\ c = d
            BY <1>3, KindsOf DEF RowSent, MarkSent
        <2>2. ~(m.kind = "upd" /\ m.row = e.row)
            BY <2>1, NotSentAgain
        <2>3. Arrived(p, e)
            BY <1>1, <2>1, <2>2, ArrivedAppend
        <2>4. EndsAfter(q, e) => EndsAfter(p, e)
            BY <1>1, <2>1, <2>2, EndsAppend
        <2> QED
            BY <1>3, <2>1, <2>3, <2>4
    <1>4. CASE EndSent /\ g = h
        <2>1. PICK m : p = Append(q, m) /\ m.kind = "eod" /\ m.date = d /\ d < c
            BY <1>4, KindsOf DEF EndSent
        <2>2. ~(m.kind = "upd" /\ m.row = e.row)
            BY <2>1
        <2>3. Arrived(p, e)
            BY <1>1, <2>1, <2>2, ArrivedAppend
        <2>4. EndsAfter(q, e) \/ d = e.date => EndsAfter(p, e)
            BY <1>1, <2>1, <2>2, EndsAppend
        <2>5. e.date <= c /\ (e.date < d \/ e.date = d)
            BY <1>1, <2>1
        <2> QED
            BY <1>4, <2>3, <2>4, <2>5
    <1>5. CASE QueueRead /\ (IF Head(q).kind = "eod" THEN g = Head(q).date ELSE g = h)
        <2>1. q # <<>> /\ p = Tail(q) /\ c = d
            BY <1>5 DEF QueueRead
        <2>2. Arrived(p, e)
            BY <1>1, <2>1, ArrivedTail
        <2>3. g \in Int
            BY <1>1, <1>5, <2>1, FirstMessage
        <2>4. ASSUME g < e.date, EndsAfter(q, e) PROVE EndsAfter(p, e)
            <3>1. ~(Head(q).kind = "eod" /\ Head(q).date = e.date)
                BY <1>1, <1>5, <2>3, <2>4
            <3> QED
                BY <1>1, <2>1, <2>4, <3>1, EndsTail
        <2>5. g < e.date /\ h <= g => h < e.date
            BY <1>1, <2>3
        <2> QED
            BY <2>1, <2>2, <2>4, <2>5
    <1> QED
        BY <1>2, <1>3, <1>4, <1>5
           DEF DayMove, RowsStay, RowsFlushed, Cleared, Splayed, Retired, RowBuffered, DayBegun

\* The end of a day that is read is later than the last, and earlier than those behind it.
LEMMA DayRead ==
    ASSUME SealInv, PlanInv, EodsInv, Inbox # <<>>, Head(Inbox).kind = "eod"
    PROVE  /\ Handled < Head(Inbox).date /\ Head(Inbox).date < today
           /\ \A i \in DOMAIN Inbox : Inbox[i].kind = "eod" /\ Inbox[i].date <= Head(Inbox).date => i = 1
    <1>1. PICK q, h, d : q = Inbox /\ h = Handled /\ d = today
        OBVIOUS
    <1>2. /\ 1 \in DOMAIN q /\ Head(q) = q[1] /\ q[1].kind = "eod" /\ DOMAIN q = 1 .. Len(q)
          /\ \A i \in DOMAIN q : q[i].kind = "eod" => q[i].date \in Int
        BY <1>1, FirstMessage, InboxType
    <1>3. Eods(q, h, d)
        BY <1>1 DEF EodsInv, Inbox
    <1>4. h < q[1].date /\ q[1].date < d
        BY <1>2, <1>3 DEF Eods
    <1>5. ASSUME NEW i \in DOMAIN q, q[i].kind = "eod", q[i].date <= q[1].date PROVE i = 1
        <2> SUFFICES ASSUME i # 1 PROVE FALSE
            OBVIOUS
        <2>1. 1 < i
            BY <1>2
        <2>2. q[1].date < q[i].date
            BY <1>2, <1>3, <1>5, <2>1 DEF Eods
        <2> QED
            BY <1>2, <1>5, <2>2
    <1> QED
        BY <1>1, <1>2, <1>4, <1>5

\* What becomes of a row that was logged during its day.
LEMMA KeptKept ==
    ASSUME SealInv, SealInv', PlanInv, EodsInv, PlacesInv, DayMove,
           NEW e \in logged, OfItsDay(e), Followed(Inbox, Handled, StepsLeft, today, e)
    PROVE  Kept(Inbox, Handled, StepsLeft, e)'
    <1>1. PICK q, h, n, d : q = Inbox /\ h = Handled /\ n = StepsLeft /\ d = today
        OBVIOUS
    <1>2. PICK p, g, m : p = Inbox' /\ g = Handled' /\ m = StepsLeft'
        OBVIOUS
    <1>3. /\ h \in Int /\ n \in 0 .. 10 /\ d \in Int /\ e.date \in Int /\ q \in Seq(DueMessage)
          /\ Kept(q, h, n, e) /\ Held(h, n) /\ e.date <= d /\ Arrived(q, e)
          /\ e.date < d /\ h < e.date => EndsAfter(q, e)
        BY <1>1, PlanNow, InboxType, LoggedTypes DEF PlacesInv, Followed
    <1>4. Kept(p, g, m, e)'
        <2>1. CASE (QueueStays \/ RowSent \/ MarkSent \/ EndSent) /\ RowsStay
            <3>1. g = h /\ (m = n \/ (n \in 1 .. 4 /\ m = n - 1)) /\ UNCHANGED <<buf, scratch, sealed>>
                BY <1>1, <1>2, <2>1 DEF RowsStay
            <3>2. m \in 0 .. 10
                BY <1>3, <3>1
            <3>3. p = q \/ \E x : p = Append(q, x) /\ (x.kind = "upd" => x.row \notin LoggedRows)
                BY <1>1, <1>2, <2>1, KindsOf DEF QueueStays, RowSent, MarkSent, EndSent
            <3>4. OnItsWay(q, e.row) => OnItsWay(p, e.row)
                BY <1>3, <3>3, NotSentAgain, AppendBrings
            <3> QED
                BY <1>3, <3>1, <3>2, <3>4, KeptStill
        <2>2. CASE QueueRead /\ Head(Inbox).kind = "shed" /\ RowsStay
            <3>1. g = h /\ (m = n \/ (n \in 1 .. 4 /\ m = n - 1)) /\ UNCHANGED <<buf, scratch, sealed>>
                BY <1>1, <1>2, <2>2 DEF RowsStay
            <3>2. m \in 0 .. 10
                BY <1>3, <3>1
            <3>3. q # <<>> /\ p = Tail(q) /\ Head(q).kind # "upd"
                BY <1>1, <1>2, <2>2 DEF QueueRead
            <3>4. OnItsWay(q, e.row) => OnItsWay(p, e.row)
                BY <1>3, <3>3, WayTail
            <3> QED
                BY <1>3, <3>1, <3>2, <3>4, KeptStill
        <2>3. CASE QueueRead /\ RowBuffered
            <3>1. g = h /\ m = n /\ n = 0 /\ UNCHANGED <<scratch, sealed>> /\ buf' = buf \cup {Head(q).row}
                BY <1>1, <1>2, <2>3 DEF RowBuffered
            <3>2. q # <<>> /\ p = Tail(q)
                BY <1>1, <1>2, <2>3 DEF QueueRead
            <3>3. OnItsWay(q, e.row) => OnItsWay(p, e.row) \/ (n = 0 /\ e.row \in buf')
                BY <1>3, <3>1, <3>2, WayTail
            <3>4. buf \subseteq buf'
                BY <3>1
            <3> QED
                BY <1>3, <3>1, <3>3, <3>4, KeptStill
        <2>4. CASE QueueStays /\ RowsFlushed
            <3>1. g = h /\ m = 0 /\ n = 0 /\ sealed' = sealed /\ p = q
                BY <1>1, <1>2, <2>4 DEF RowsFlushed, QueueStays
            <3>2. PICK c \in Int : FlushTo(c)
                BY <2>4 DEF RowsFlushed
            <3> QED
                BY <1>3, <3>1, <3>2, KeptFlushed
        <2>5. CASE QueueRead /\ DayBegun
            <3>1. /\ g = Head(q).date /\ m = 10 /\ n = 0 /\ sealed' = sealed /\ Head(q).kind = "eod"
                  /\ q # <<>> /\ p = Tail(q) /\ FlushTo(Midnight(g + 1))
                BY <1>1, <1>2, <2>5 DEF DayBegun, QueueRead
            <3>2. /\ g \in Int /\ 1 \in DOMAIN q /\ q[1].kind = "eod" /\ q[1].date = g /\ h < g /\ g < d
                  /\ \A i \in DOMAIN q : q[i].kind = "eod" /\ q[i].date <= g => i = 1
                BY <1>1, <3>1, FirstMessage, DayRead
            <3>3. ASSUME g < e.date, e.row \in buf PROVE FALSE
                <4>1. \A j \in DOMAIN q : ~Brings(q, j, e.row)
                    BY <1>1, <3>3 DEF PlacesInv, Fresh, Brings, Inbox
                <4>2. e.date <= q[1].date
                    BY <1>3, <3>2, <4>1 DEF Arrived
                <4> QED
                    BY <1>3, <3>2, <3>3, <4>2
            <3>4. ASSUME e.date <= g, h < e.date PROVE e.date = g /\ ~OnItsWay(q, e.row)
                <4>1. e.date < d
                    BY <1>3, <3>2, <3>4
                <4>2. PICK i \in DOMAIN q : /\ q[i].kind = "eod" /\ q[i].date = e.date
                                            /\ \A j \in DOMAIN q : Brings(q, j, e.row) => j < i
                    BY <1>3, <3>4, <4>1 DEF EndsAfter
                <4>3. i = 1
                    BY <3>2, <3>4, <4>2
                <4>4. \A j \in DOMAIN q : ~(j < 1)
                    BY <1>3
                <4> QED
                    BY <3>2, <4>2, <4>3, <4>4 DEF OnItsWay
            <3> QED
                BY <1>3, <3>1, <3>2, <3>3, <3>4, KeptBegun
        <2>6. ASSUME NEW t \in Tables, QueueStays, Cleared(t) PROVE Kept(p, g, m, e)'
            <3>1. g = h /\ n = Turn(t) /\ m = Turn(t) - 1 /\ p = q /\ scratch' = scratch
                BY <1>1, <1>2, <2>6 DEF Cleared, QueueStays
            <3>2. ~Past(h, n, h, t)
                BY <1>3, <3>1 DEF Past, Turn, Tables
            <3>3. \A r \in sealed : ~(DateOf(r.time) = h /\ r.tbl = t)
                BY <1>3, <3>2 DEF Held
            <3>4. sealed' = sealed
                BY <1>1, <2>6, <3>3, RowsOfDay DEF Cleared
            <3> QED
                BY <1>3, <3>1, <3>4, KeptCleared
        <2>7. ASSUME NEW t \in Tables, QueueStays, Splayed(t) PROVE Kept(p, g, m, e)'
            <3>1. g = h /\ n = Turn(t) - 1 /\ m = Turn(t) - 2 /\ p = q /\ scratch' = scratch
                BY <1>1, <1>2, <2>7 DEF Splayed, QueueStays
            <3>2. \A r : r \in sealed' <=> r \in sealed \/ (r \in scratch /\ DateOf(r.time) = h /\ r.tbl = t)
                BY <1>1, <2>7, RowsOfDay DEF Splayed
            <3> QED
                BY <1>3, <3>1, <3>2, KeptSplayed
        <2>8. ASSUME NEW t \in Tables, QueueStays, Retired(t) PROVE Kept(p, g, m, e)'
            <3>1. g = h /\ n = Turn(t) - 2 /\ m = Turn(t) - 3 /\ p = q /\ sealed' = sealed
                BY <1>1, <1>2, <2>8 DEF Retired, QueueStays
            <3>2. \A r : r \in scratch' <=> r \in scratch /\ ~(DateOf(r.time) = h /\ r.tbl = t)
                BY <1>1, <2>8, RowsOfDay DEF Retired
            <3> QED
                BY <1>3, <3>1, <3>2, KeptRetired
        <2> QED
            BY <2>1, <2>2, <2>3, <2>4, <2>5, <2>6, <2>7, <2>8 DEF DayMove
    <1> QED
        BY <1>2, <1>4 DEF Kept, Inbox

\* Days are handled in their order.
LEMMA HandledGrows ==
    ASSUME SealInv, PlanInv, EodsInv, DayMove
    PROVE  Handled <= Handled'
    <1>1. Handled \in Int /\ (Handled' = Handled => Handled <= Handled')
        BY PlanNow
    <1>2. QueueRead /\ DayBegun => Handled < Handled' /\ Handled' \in Int
        BY DayRead, FirstMessage DEF QueueRead, DayBegun
    <1>3. QueueRead /\ DayBegun => Handled <= Handled'
        BY <1>1, <1>2
    <1> QED
        BY <1>1, <1>3 DEF DayMove, RowsStay, RowsFlushed, Cleared, Splayed, Retired, RowBuffered

\* A row that was logged before.
LEMMA FollowedKept ==
    ASSUME SealInv, SealInv', PlanInv, EodsInv, PlacesInv, RowsInv, DayMove, NEW e \in logged
    PROVE  Followed(Inbox, Handled, StepsLeft, today, e)'
    <1>1. PICK q, h, n, d : q = Inbox /\ h = Handled /\ n = StepsLeft /\ d = today
        OBVIOUS
    <1>2. PICK p, g, m, c : p = Inbox' /\ g = Handled' /\ m = StepsLeft' /\ c = today'
        OBVIOUS
    <1>3. Followed(Inbox, Handled, StepsLeft, today, e)
        BY DEF RowsInv
    <1>4. e.date <= d /\ Arrived(q, e) /\ (OfItsDay(e) => (e.date < d /\ h < e.date => EndsAfter(q, e)))
        BY <1>1, <1>3 DEF Followed
    <1>5. /\ e.date <= c /\ Arrived(p, e)
          /\ OfItsDay(e) => (e.date < c /\ g < e.date /\ h <= g => EndsAfter(p, e))
        BY <1>1, <1>2, <1>4, QueueFollows
    <1>6. h <= g
        BY <1>1, <1>2, HandledGrows
    <1>7. OfItsDay(e) => Kept(p, g, m, e)'
        <2>1. OfItsDay(e) => Kept(Inbox, Handled, StepsLeft, e)'
            BY <1>3, KeptKept
        <2> QED
            BY <1>2, <2>1 DEF Kept, Inbox
    <1> QED
        BY <1>2, <1>5, <1>6, <1>7 DEF Followed, Kept, Inbox

\* A row that is logged now.
LEMMA SentFollowed ==
    ASSUME SealInv, SealInv', PlanInv, EodsInv, RowSent, RowsStay, NEW e \in logged', e \notin logged
    PROVE  Followed(Inbox, Handled, StepsLeft, today, e)'
    <1>1. PICK q, h, d : q = Inbox /\ h = Handled /\ d = today
        OBVIOUS
    <1>2. PICK p, g, m, c : p = Inbox' /\ g = Handled' /\ m = StepsLeft' /\ c = today'
        OBVIOUS
    <1>3. e.date = d /\ c = d /\ g = h /\ p = Append(q, UpdMsg(e.row))
        <2>1. PICK r \in Row : logged' = logged \cup {[date |-> today, row |-> r]} /\ Inbox' = Append(Inbox, UpdMsg(r))
            BY DEF RowSent
        <2>2. e = [date |-> today, row |-> r]
            BY <2>1
        <2>3. e.date = today /\ e.row = r
            BY <2>2
        <2> QED
            BY <1>1, <1>2, <2>1, <2>3 DEF RowSent, RowsStay
    <1>4. q \in Seq(DueMessage) /\ d \in Int /\ h \in Int /\ h < d
        BY <1>1, InboxType, PlanNow DEF EodsInv, Eods, Inbox
    <1>5. Arrived(p, e) /\ OnItsWay(p, e.row)
        BY <1>3, <1>4, ArrivedSent
    <1>6. e.date <= c /\ ~(e.date <= g) /\ ~(e.date < c)
        BY <1>3, <1>4
    <1>7. Kept(p, g, m, e)'
        BY <1>5, <1>6 DEF Kept
    <1> QED
        BY <1>2, <1>5, <1>6, <1>7 DEF Followed, Kept, Inbox

\* Every logged row is where it belongs.
LEMMA RowsKept ==
    ASSUME SealInv, SealInv', PlanInv, EodsInv, PlacesInv, RowsInv, DayMove
    PROVE  RowsInv'
    <1>1. ASSUME NEW e \in logged' PROVE e \in logged \/ (RowSent /\ RowsStay)
        BY <1>1 DEF DayMove, QueueStays, QueueRead, MarkSent, EndSent
    <1>2. ASSUME NEW e \in logged' PROVE Followed(Inbox, Handled, StepsLeft, today, e)'
        BY <1>1, <1>2, FollowedKept, SentFollowed
    <1> QED
        BY <1>2 DEF RowsInv

-----------------------------------------------------------------------------
(* The invariant, and what follows *)

\* The invariant holds at first,
LEMMA InitDayInv == PathInit => DayInv
    <1> SUFFICES ASSUME PathInit PROVE DayInv
        OBVIOUS
    <1> USE DEF PathInit
    <1>1. todo = <<>> /\ lastSealed = NoDate /\ wdbUp /\ buf = {} /\ scratch = {} /\ sealed = {} /\ splays = {}
        BY DEF WdbInit, DiskInit
    <1>2. chan["wdb"] = <<>> /\ logged = {} /\ \A t \in Tables : subs[t] = Handles
        BY PathAssumption DEF TpInitWith
    <1>3. ~Sealing /\ Handled = NoDate /\ StepsLeft = 0
        BY <1>1 DEF Sealing, Handled, StepsLeft
    <1>4. today = 0
        <2>1. EodOffset - EodOffset = 0 /\ 0 \div DayLen = 0
            BY EodOffsetAssumption, DayLenAssumption
        <2> QED
            BY <2>1 DEF TpInitWith, TradingDate
    <1>5. Connected
        BY <1>1, <1>2, PathAssumption DEF Connected
    <1>6. PlanInv
        BY <1>1, <1>3 DEF PlanInv
    <1>7. EodsInv
        BY <1>2, <1>3, <1>4 DEF EodsInv, Eods, NoDate
    <1>8. PlacesInv
        BY <1>1, <1>2 DEF PlacesInv, Fresh, RowsIn, Held
    <1>9. PartitionsInv
        BY <1>1, <1>3 DEF PartitionsInv, Parts
    <1>10. RowsInv
        BY <1>2 DEF RowsInv
    <1> QED
        BY <1>5, <1>6, <1>7, <1>8, <1>9, <1>10 DEF DayInv

\* it asks nothing of what else may change,
LEMMA DayStays ==
    ASSUME DayInv, Connected',
           UNCHANGED <<todo, lastSealed, Inbox, today, buf, scratch, sealed, splays, logged>>
    PROVE  DayInv' /\ UNCHANGED <<Handled, StepsLeft>>
    <1>1. UNCHANGED <<Sealing, Handled, StepsLeft>>
        BY DEF Sealing, Handled, StepsLeft
    <1>2. PlanInv' /\ EodsInv'
        BY <1>1 DEF DayInv, PlanInv, EodsInv, Inbox
    <1>3. PlacesInv' /\ PartitionsInv'
        BY <1>1 DEF DayInv, PlacesInv, PartitionsInv, Held, Parts, LoggedRows, Inbox
    <1>4. RowsInv'
        BY <1>1 DEF DayInv, RowsInv, Followed, Kept
    <1> QED
        BY <1>1, <1>2, <1>3, <1>4 DEF DayInv

\* every undisturbed step keeps it,
LEMMA StepDayInv ==
    SealInv /\ SealInv' /\ DayInv /\ [PathNext]_pathVars /\ [Undisturbed]_pathVars => DayInv'
    <1> SUFFICES ASSUME SealInv, SealInv', DayInv, [PathNext]_pathVars, [Undisturbed]_pathVars
                 PROVE  DayInv'
        OBVIOUS
    <1>1. CASE PathNext /\ Undisturbed
        <2>1. Connected' /\ PlanInv' /\ DayMove
            BY <1>1, PlanMoves DEF DayInv
        <2> QED
            BY <2>1, EodsKept, PlacesKept, PartitionsKept, RowsKept DEF DayInv
    <1>2. CASE UNCHANGED pathVars
        <2>1. UNCHANGED <<wdbUp, subs, todo, lastSealed, chan, today, buf, scratch, sealed, splays, logged>>
            BY <1>2 DEF pathVars, tpVars, wdbVars, diskVars
        <2>2. Connected' /\ UNCHANGED Inbox
            BY <2>1 DEF DayInv, Connected, Inbox
        <2> QED
            BY <2>1, <2>2, DayStays
    <1> QED
        BY <1>1, <1>2

\* and it makes the sealed days whole.
LEMMA WholeDays == SealInv /\ DayInv => SealedDaysAreWhole
    <1> SUFFICES ASSUME SealInv, DayInv PROVE SealedDaysAreWhole
        OBVIOUS
    <1>1. PICK h, n : h = Handled /\ n = StepsLeft
        OBVIOUS
    <1>2. /\ h \in Int /\ n \in 0 .. 10 /\ lastSealed \in Int /\ (n = 0 <=> ~Sealing)
          /\ Held(h, n) /\ Parts(h, n) /\ lastSealed <= h /\ (Sealing => lastSealed < h)
        BY <1>1, PlanNow DEF DayInv, PlacesInv, PartitionsInv, PlanInv, SealInv, WdbInv
    <1>3. SealedDayComplete
        <2> SUFFICES ASSUME NEW e \in logged, OfItsDay(e), e.date <= lastSealed PROVE e.row \in sealed
            BY DEF SealedDayComplete, OfItsDay
        <2>1. Kept(Inbox, h, n, e)
            BY <1>1 DEF DayInv, RowsInv, Followed
        <2>2. e.date <= h /\ (Sealing => e.date < h)
            BY <1>2, LoggedTypes
        <2>3. Past(h, n, e.date, e.row.tbl)
            BY <1>2, <2>2, LoggedTypes DEF Past, Turn, Tables
        <2> QED
            BY <2>1, <2>2, <2>3 DEF Kept
    <1>4. WdbIdle => n = 0
        BY <1>2 DEF WdbIdle, Sealing
    <1>5. \A d \in Int : \A t \in Tables : Past(h, 0, d, t) <=> d <= h
        BY <1>2 DEF Past, Turn, Tables
    <1>6. BothTablesSplayed
        <2> SUFFICES ASSUME n = 0, NEW f \in splays, NEW t \in Tables PROVE [f EXCEPT !.tbl = t] \in splays
            BY <1>4 DEF BothTablesSplayed
        <2>1. f.date \in Int /\ f.tbl \in Tables /\ f = [date |-> f.date, tbl |-> f.tbl]
              /\ [f EXCEPT !.tbl = t] = [date |-> f.date, tbl |-> t]
            BY DEF SealInv, WdbInv, ClosedFile, ClosedDates
        <2>2. Past(h, n, f.date, f.tbl)
            BY <1>2, <2>1 DEF Parts
        <2>3. Past(h, n, f.date, t)
            BY <1>5, <2>1, <2>2
        <2>4. [date |-> f.date, tbl |-> t] \in splays
            BY <1>2, <2>1, <2>3 DEF Parts
        <2> QED
            BY <2>1, <2>4
    <1>7. ScratchXorHdb
        <2>1. n = 0 => \A r : ~Retiring(h, n, r)
            BY DEF Retiring, Turn
        <2> QED
            BY <1>2, <1>4, <2>1 DEF ScratchXorHdb, Held
    <1> QED
        BY <1>3, <1>6, <1>7, SealInvTypes DEF SealedDaysAreWhole

\* No move loses a row that is on disk.
LEMMA DurableMoves ==
    ASSUME SealInv, PlanInv, PlacesInv, DayMove
    PROVE  Durable \subseteq Durable'
    <1>1. PICK h, n : h = Handled /\ n = StepsLeft
        OBVIOUS
    <1>2. h \in Int /\ n \in 0 .. 10 /\ Held(h, n)
        BY <1>1, PlanNow DEF PlacesInv
    <1>3. CASE RowsStay \/ RowBuffered
        BY <1>3 DEF RowsStay, RowBuffered, Durable
    <1>4. CASE RowsFlushed \/ DayBegun
        BY <1>4 DEF RowsFlushed, DayBegun, FlushTo, Durable
    <1>5. ASSUME NEW t \in Tables, Cleared(t) PROVE Durable \subseteq Durable'
        <2>1. ~Past(h, n, h, t)
            BY <1>1, <1>2, <1>5 DEF Cleared, Past, Turn, Tables
        <2>2. \A r \in sealed : ~(DateOf(r.time) = h /\ r.tbl = t)
            BY <1>2, <2>1 DEF Held
        <2>3. sealed' = sealed /\ scratch' = scratch
            BY <1>1, <1>5, <2>2, RowsOfDay DEF Cleared
        <2> QED
            BY <2>3 DEF Durable
    <1>6. ASSUME NEW t \in Tables, Splayed(t) PROVE Durable \subseteq Durable'
        BY <1>6 DEF Splayed, Durable
    <1>7. ASSUME NEW t \in Tables, Retired(t) PROVE Durable \subseteq Durable'
        <2>1. n = Turn(t) - 2 /\ sealed' = sealed
            BY <1>1, <1>7 DEF Retired
        <2>2. \A r \in scratch : DateOf(r.time) = h /\ r.tbl = t => r \in sealed
            BY <1>2, <2>1 DEF Held, Retiring
        <2>3. \A r \in scratch : r \in scratch' \/ (DateOf(r.time) = h /\ r.tbl = t)
            BY <1>1, <1>7, RowsOfDay DEF Retired
        <2> QED
            BY <2>1, <2>2, <2>3 DEF Durable
    <1> QED
        BY <1>3, <1>4, <1>5, <1>6, <1>7 DEF DayMove

\* As long as the write-down database stays subscribed, no .Q.dpft signals and no catch-up check
\* finds a day left behind, the partitions of a sealed day (.wdb.eod, .wdb.seal) hold every row of
\* the day that the tickerplant logged during it, in both tables, and no row is kept twice.
THEOREM DaysAreWhole == PathSpec /\ [][Undisturbed]_pathVars => []SealedDaysAreWhole
    <1> QED
        BY InitSealInv, StepSealInv, InitDayInv, StepDayInv, WholeDays, PTL DEF PathSpec

\* Under the same conditions no row that reached a scratch file or a partition is ever off the disk,
\* though clearing and retiring delete (.wdb.clearPartition, .wdb.retireScratch).
THEOREM NothingIsLost == PathSpec /\ [][Undisturbed]_pathVars => DurableForGood
    <1>1. SealInv /\ SealInv' /\ DayInv /\ [PathNext]_pathVars /\ [Undisturbed]_pathVars
            => [Durable \subseteq Durable']_pathVars
        <2> SUFFICES ASSUME SealInv, SealInv', DayInv, PathNext, Undisturbed
                     PROVE  Durable \subseteq Durable'
            BY DEF pathVars
        <2>1. DayMove
            BY PlanMoves DEF DayInv
        <2> QED
            BY <2>1, DurableMoves DEF DayInv
    <1> QED
        BY <1>1, InitSealInv, StepSealInv, InitDayInv, StepDayInv, PTL DEF PathSpec, DurableForGood

=============================================================================
