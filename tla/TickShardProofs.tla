-------------------------- MODULE TickShardProofs --------------------------
(***************************************************************************)
(* What TLAPS proves about the shard: with or without readers, its write   *)
(* path behaves as the write path alone, as long as the historical         *)
(* database purges nothing; the chained RDB holds no row twice and none of *)
(* a day whose end it was told; and the intraday database gives a row up   *)
(* only to the historical database.                                        *)
(***************************************************************************)
EXTENDS TickShard, WritePathProofs

\* The operators of the instance that read none of the substituted variables.
LEMMA SameTypes ==
    /\ W!Tables = Tables /\ W!Row = Row
    /\ \A t : W!DateOf(t) = DateOf(t) /\ W!Midnight(t) = Midnight(t) /\ W!TradingDate(t) = TradingDate(t)
    /\ \A x : W!UpdMsg(x) = UpdMsg(x) /\ W!ShedMsg(x) = ShedMsg(x) /\ W!EodMsg(x) = EodMsg(x)
    BY DEF W!Tables, Tables, W!Row, Row, W!DateOf, DateOf, W!Midnight, Midnight, W!TradingDate, TradingDate,
       W!UpdMsg, UpdMsg, W!ShedMsg, ShedMsg, W!EodMsg, EodMsg

\* Files and the rows in them, read the same way in both.
LEMMA SameFiles ==
    /\ \A r : W!FileOf(r) = FileOf(r)
    /\ W!ScratchFiles = ScratchFiles /\ W!ScratchDates = ScratchDates
    /\ \A R, f : W!RowsOf(R, f) = RowsOf(R, f)
    /\ \A t : W!Backlog(t) = Backlog(t)
    /\ \A S : W!Min(S) = Min(S)
    BY SameTypes DEF W!FileOf, FileOf, W!ScratchFiles, ScratchFiles, W!RowsOf, RowsOf, W!ScratchDates, ScratchDates,
       W!Backlog, Backlog, W!Min, Min

\* The steps the write-down database goes through.
LEMMA SameSteps ==
    /\ \A x : /\ W!SubStep(x) = SubStep(x) /\ W!WatermarkStep(x) = WatermarkStep(x)
              /\ W!DropStep(x) = DropStep(x) /\ W!SealedStep(x) = SealedStep(x)
    /\ W!FlushStep = FlushStep /\ W!CatchUpStep = CatchUpStep /\ W!ReloadStep = ReloadStep
    /\ W!ConnectSteps = ConnectSteps
    /\ \A f : W!SealFileSteps(f) = SealFileSteps(f)
    /\ \A d : W!SealSteps(d) = SealSteps(d)
    BY DEF W!SubStep, SubStep, W!WatermarkStep, WatermarkStep, W!DropStep, DropStep, W!SealedStep, SealedStep,
       W!FlushStep, FlushStep, W!CatchUpStep, CatchUpStep, W!ReloadStep, ReloadStep, W!ConnectSteps, ConnectSteps,
       W!SealFileSteps, SealFileSteps, W!SealSteps, SealSteps

\* The handlers of the write-down database.
LEMMA SameHandlers ==
    /\ \A m : WdbHandle(m) => W!WdbHandle(m)
    /\ \A t, c : WdbTimer(t, c) => W!WdbTimer(t, c)
    /\ \A op : WdbAt(op) => W!WdbAt(op)
    /\ WdbStepDone => W!WdbStepDone
    /\ \A t : WdbFlush(t) => W!WdbFlush(t)
    /\ \A t : WdbCatchUp(t) => W!WdbCatchUp(t)
    /\ \A t : WdbStart(t) => W!WdbStart(t)
    /\ WdbClear => W!WdbClear
    /\ \A ok : WdbSplay(ok) => W!WdbSplay(ok)
    /\ WdbRetire => W!WdbRetire
    /\ WdbSealed => W!WdbSealed
    /\ WdbCrash => W!WdbCrash
    <1> USE SameTypes, SameFiles, SameSteps
    <1>1. ASSUME NEW m, WdbHandle(m) PROVE W!WdbHandle(m)
        BY <1>1 DEF WdbHandle, W!WdbHandle, WdbIdle, W!WdbIdle, WdbUpd, W!WdbUpd, WdbEod, W!WdbEod,
           FlushTo, W!FlushTo, wdbVars, W!wdbVars, diskVars, W!diskVars
    <1>2. ASSUME NEW t, NEW c, WdbTimer(t, c) PROVE W!WdbTimer(t, c)
        BY <1>2 DEF WdbTimer, W!WdbTimer, WdbIdle, W!WdbIdle, FlushDue, W!FlushDue, CatchUpDue, W!CatchUpDue,
           diskVars, W!diskVars
    <1>3. ASSUME NEW op, WdbAt(op) PROVE W!WdbAt(op)
        BY <1>3 DEF WdbAt, W!WdbAt
    <1>4. ASSUME WdbStepDone PROVE W!WdbStepDone
        BY <1>4 DEF WdbStepDone, W!WdbStepDone, diskVars, W!diskVars
    <1>5. ASSUME NEW t, WdbFlush(t) PROVE W!WdbFlush(t)
        BY <1>5 DEF WdbFlush, W!WdbFlush, FlushTo, W!FlushTo, WdbAt, W!WdbAt, RetentionIntv, W!RetentionIntv
    <1>6. ASSUME NEW t, WdbCatchUp(t) PROVE W!WdbCatchUp(t)
        BY <1>6 DEF WdbCatchUp, W!WdbCatchUp, WdbAt, W!WdbAt, diskVars, W!diskVars
    <1>7. ASSUME NEW t, WdbStart(t) PROVE W!WdbStart(t)
        BY <1>7 DEF WdbStart, W!WdbStart, NoDate, W!NoDate, diskVars, W!diskVars
    <1>8. ASSUME WdbClear PROVE W!WdbClear
        BY <1>8 DEF WdbClear, W!WdbClear, WdbAt, W!WdbAt
    <1>9. ASSUME NEW ok, WdbSplay(ok) PROVE W!WdbSplay(ok)
        BY <1>9 DEF WdbSplay, W!WdbSplay, WdbAt, W!WdbAt
    <1>10. ASSUME WdbRetire PROVE W!WdbRetire
        BY <1>10 DEF WdbRetire, W!WdbRetire, WdbAt, W!WdbAt
    <1>11. ASSUME WdbSealed PROVE W!WdbSealed
        BY <1>11 DEF WdbSealed, W!WdbSealed, WdbAt, W!WdbAt, diskVars, W!diskVars
    <1>12. ASSUME WdbCrash PROVE W!WdbCrash
        BY <1>12 DEF WdbCrash, W!WdbCrash, NoTime, W!NoTime, NoDate, W!NoDate, diskVars, W!diskVars
    <1> QED
        BY <1>1, <1>2, <1>3, <1>4, <1>5, <1>6, <1>7, <1>8, <1>9, <1>10, <1>11, <1>12

-----------------------------------------------------------------------------
(* The tickerplant, seen through the write-down database's connection *)

\* The handles that subscribe, as far as the write path knows them.
LEMMA SeenHandles == TpInv => W!SubHandles = SubHandles \cap {"wdb"}
    BY SameTypes DEF W!SubHandles, SubHandles

\* A message for every subscriber is one for the write-down database, if it subscribes.
LEMMA SeenBroadcast ==
    ASSUME TpInv, NEW q, NEW m, q \in [Handles -> Seq(DueMessage)]
    PROVE  [h \in {"wdb"} |-> Broadcast(q, m)[h]] = W!Broadcast([h \in {"wdb"} |-> q[h]], m)
    BY SeenHandles, PathAssumption DEF W!Broadcast, Broadcast

\* The queues that may survive, seen through the one connection, are those that may survive there.
LEMMA SeenTruncated ==
    ASSUME NEW q \in [Handles -> Seq(DueMessage)], NEW H, NEW c \in Truncated(q, H)
    PROVE  [h \in {"wdb"} |-> c[h]] \in W!Truncated([h \in {"wdb"} |-> q[h]], H \cap {"wdb"})
    <1> DEFINE v == [h \in {"wdb"} |-> c[h]]
               p == [h \in {"wdb"} |-> q[h]]
    <1>1. "wdb" \in Handles /\ v["wdb"] = c["wdb"] /\ p["wdb"] = q["wdb"]
        BY PathAssumption
    <1>2. /\ "wdb" \in H => \E n \in 0 .. Len(q["wdb"]) : c["wdb"] = SubSeq(q["wdb"], 1, n)
          /\ "wdb" \notin H => c["wdb"] = q["wdb"]
        BY <1>1 DEF Truncated
    <1>3. \E n \in 0 .. Len(q["wdb"]) : c["wdb"] = SubSeq(q["wdb"], 1, n)
        <2>1. q["wdb"] \in Seq(DueMessage)
            BY <1>1
        <2>2. Len(q["wdb"]) \in 0 .. Len(q["wdb"]) /\ SubSeq(q["wdb"], 1, Len(q["wdb"])) = q["wdb"]
            BY <2>1, SubSeqFull
        <2> QED
            BY <1>2, <2>2
    <1> HIDE DEF v, p
    <1>4. v \in [{"wdb"} -> UNION {{SubSeq(p[h], 1, n) : n \in 0 .. Len(p[h])} : h \in {"wdb"}}]
        <2>1. \E n \in 0 .. Len(p["wdb"]) : v["wdb"] = SubSeq(p["wdb"], 1, n)
            BY <1>1, <1>3
        <2>2. v = [h \in {"wdb"} |-> v[h]]
            BY DEF v
        <2> QED
            BY <2>1, <2>2
    <1>5. v \in W!Truncated(p, H \cap {"wdb"})
        BY <1>1, <1>2, <1>4 DEF W!Truncated
    <1> QED
        BY <1>5 DEF v, p

\* A row is logged and buffered, whoever subscribes.
LEMMA SeenUpd ==
    ASSUME TpInv, NEW r \in Row, Upd(r)
    PROVE  W!Upd(r)
    BY SameTypes, PathAssumption DEF Upd, W!Upd, TpInv, Row

\* A watermark goes to the write-down database as it does to everyone.
LEMMA SeenWatermark ==
    ASSUME TpInv, NEW wm, BroadcastWatermark(wm)
    PROVE  W!BroadcastWatermark(wm)
    <1>1. chan \in [Handles -> Seq(DueMessage)]
        BY DEF TpInv
    <1>2. [h \in {"wdb"} |-> chan'[h]] = W!Broadcast([h \in {"wdb"} |-> chan[h]], W!ShedMsg(wm))
        BY <1>1, SeenBroadcast, SameTypes DEF BroadcastWatermark
    <1> QED
        BY <1>2 DEF BroadcastWatermark, W!BroadcastWatermark

\* So does the end of a day.
LEMMA SeenEnd ==
    ASSUME TpInv, End(today)
    PROVE  W!End(today)
    <1>1. chan \in [Handles -> Seq(DueMessage)]
        BY DEF TpInv
    <1>2. [h \in {"wdb"} |-> chan'[h]] = W!Broadcast([h \in {"wdb"} |-> chan[h]], W!EodMsg(today))
        BY <1>1, SeenBroadcast, SameTypes DEF End
    <1> QED
        BY <1>2 DEF End, W!End

\* A restart takes every connection, this one too.
LEMMA SeenTpRestart ==
    ASSUME TpInv, TpRestart
    PROVE  W!TpRestart
    <1>1. [h \in {"wdb"} |-> chan'[h]] \in W!Truncated([h \in {"wdb"} |-> chan[h]], {"wdb"})
        <2>1. Handles \cap {"wdb"} = {"wdb"}
            BY PathAssumption
        <2>2. chan \in [Handles -> Seq(DueMessage)] /\ chan' \in Truncated(chan, Handles)
            BY DEF TpInv, TpRestart
        <2> QED
            BY <2>1, <2>2, SeenTruncated
    <1>2. [t \in Tables |-> subs'[t] \cap {"wdb"}] = [t \in W!Tables |-> {}]
        BY SameTypes DEF TpRestart
    <1>3. [h \in {"wdb"} |-> strikes'[h]] = W!NoCounts
        BY PathAssumption DEF TpRestart, NoCounts, W!NoCounts
    <1> QED
        BY <1>1, <1>2, <1>3, SameTypes DEF TpRestart, W!TpRestart

\* A closed port forgets the handle's subscriptions.
LEMMA SeenPortClosed ==
    ASSUME TpInv, PortClosed("wdb")
    PROVE  W!PortClosed("wdb")
    <1>1. [h \in {"wdb"} |-> chan'[h]] \in W!Truncated([h \in {"wdb"} |-> chan[h]], {"wdb"})
        <2>1. {"wdb"} \cap {"wdb"} = {"wdb"}
            OBVIOUS
        <2>2. chan \in [Handles -> Seq(DueMessage)] /\ chan' \in Truncated(chan, {"wdb"})
            BY DEF TpInv, PortClosed
        <2> QED
            BY <2>1, <2>2, SeenTruncated
    <1>2. [t \in Tables |-> subs'[t] \cap {"wdb"}] = W!Unsubscribed({"wdb"})
        BY SameTypes DEF PortClosed, Unsubscribed, W!Unsubscribed
    <1>3. [h \in {"wdb"} |-> strikes'[h]] = [[h \in {"wdb"} |-> strikes[h]] EXCEPT !["wdb"] = 0]
        BY PathAssumption DEF PortClosed, TpInv
    <1>4. "wdb" \in W!SubHandles
        BY SeenHandles DEF PortClosed
    <1> QED
        BY <1>1, <1>2, <1>3, <1>4 DEF PortClosed, W!PortClosed

\* A subscription of the write-down database.
LEMMA SeenSub ==
    ASSUME TpInv, NEW t \in Tables, Sub("wdb", t)
    PROVE  W!Sub("wdb", t)
    <1>1. [u \in Tables |-> subs'[u] \cap {"wdb"}]
            = [[u \in Tables |-> subs[u] \cap {"wdb"}] EXCEPT ![t] = @ \cup {"wdb"}]
        BY DEF Sub, TpInv
    <1>2. "wdb" \notin [u \in Tables |-> subs[u] \cap {"wdb"}][t]
        BY DEF Sub
    <1>3. "wdb" \in SubHandles <=> "wdb" \in W!SubHandles
        BY SeenHandles
    <1>4. CASE "wdb" \in SubHandles
        BY <1>1, <1>2, <1>3, <1>4 DEF Sub, W!Sub
    <1>5. CASE "wdb" \notin SubHandles
        <2>1. chan' = [chan EXCEPT !["wdb"] = <<>>] /\ breaches' = [breaches EXCEPT !["wdb"] = 0]
            BY <1>5 DEF Sub
        <2>2. /\ [h \in {"wdb"} |-> chan'[h]] = [[h \in {"wdb"} |-> chan[h]] EXCEPT !["wdb"] = <<>>]
              /\ [h \in {"wdb"} |-> breaches'[h]] = [[h \in {"wdb"} |-> breaches[h]] EXCEPT !["wdb"] = 0]
            BY <2>1, PathAssumption DEF TpInv
        <2> QED
            BY <1>1, <1>2, <1>3, <1>5, <2>2 DEF Sub, W!Sub
    <1> QED
        BY <1>4, <1>5

\* A message it takes off its queue.
LEMMA SeenConsume ==
    ASSUME TpInv, Consume("wdb")
    PROVE  W!Consume("wdb")
    <1>1. [h \in {"wdb"} |-> chan'[h]] = [[h \in {"wdb"} |-> chan[h]] EXCEPT !["wdb"] = Tail(@)]
        BY PathAssumption DEF Consume, TpInv
    <1> QED
        BY <1>1 DEF Consume, W!Consume

\* Its connection breaks, and what was on the way is lost.
LEMMA SeenVanish ==
    ASSUME TpInv, Vanish("wdb")
    PROVE  W!Vanish("wdb")
    <1>1. "wdb" \in SubHandles <=> "wdb" \in W!SubHandles
        BY SeenHandles
    <1>2. CASE "wdb" \in SubHandles
        BY <1>1, <1>2, SeenPortClosed DEF Vanish, W!Vanish
    <1>3. CASE "wdb" \notin SubHandles
        <2>1. chan' = [chan EXCEPT !["wdb"] = <<>>]
            BY <1>3 DEF Vanish
        <2>2. [h \in {"wdb"} |-> chan'[h]] = [[h \in {"wdb"} |-> chan[h]] EXCEPT !["wdb"] = <<>>]
            BY <2>1, PathAssumption DEF TpInv
        <2> QED
            BY <1>1, <1>3, <2>2 DEF Vanish, W!Vanish
    <1> QED
        BY <1>2, <1>3

\* The sweep: whether the write-down database is dropped depends on its own queue only.
LEMMA SeenTimer ==
    ASSUME EnvInv, TpInv, Timer
    PROVE  W!Timer
    <1> DEFINE q == AfterEod
               p == [h \in {"wdb"} |-> q[h]]
    <1>1. q \in [Handles -> Seq(DueMessage)]
        BY AfterEodDue
    <1>2. p = W!AfterEod
        <2>1. chan \in [Handles -> Seq(DueMessage)]
            BY DEF TpInv
        <2>2. CASE TradingDate(now) > today
            BY <2>1, <2>2, SeenBroadcast, SameTypes DEF AfterEod, W!AfterEod
        <2>3. CASE ~(TradingDate(now) > today)
            BY <2>3, SameTypes DEF AfterEod, W!AfterEod
        <2> QED
            BY <2>2, <2>3
    <1>3. CheckSlow(q) /\ CountBreaches(q) /\ CheckEod /\ UNCHANGED logged
        BY DEF Timer
    <1> HIDE DEF q
    <1>4. /\ "wdb" \in Handles /\ p["wdb"] = q["wdb"]
          /\ "wdb" \in SubHandles <=> "wdb" \in W!SubHandles
          /\ W!SubHandles \subseteq {"wdb"}
        BY PathAssumption, SeenHandles
    <1> HIDE DEF p
    <1>5. Breach(q, "wdb") <=> W!Breach(p, "wdb")
        BY <1>4 DEF Breach, W!Breach
    <1>6. W!TooSlow(p) = TooSlow(q) \cap {"wdb"}
        BY <1>4, <1>5 DEF TooSlow, W!TooSlow
    <1>7. W!CheckSlow(p)
        <2>1. [t \in Tables |-> subs'[t] \cap {"wdb"}] = W!Unsubscribed(W!TooSlow(p))
            BY <1>3, <1>6, SameTypes DEF CheckSlow, Unsubscribed, W!Unsubscribed
        <2>2. [h \in {"wdb"} |-> chan'[h]] \in W!Truncated(p, W!TooSlow(p))
            BY <1>1, <1>3, <1>6, SeenTruncated DEF CheckSlow, p
        <2>3. [h \in {"wdb"} |-> strikes'[h]]
                = [h \in {"wdb"} |-> IF h \notin W!SubHandles THEN [g \in {"wdb"} |-> strikes[g]][h]
                                     ELSE IF W!Breach(p, h) /\ h \notin W!TooSlow(p)
                                     THEN [g \in {"wdb"} |-> strikes[g]][h] + 1 ELSE 0]
            BY <1>3, <1>4, <1>5, <1>6 DEF CheckSlow
        <2> QED
            BY <2>1, <2>2, <2>3 DEF W!CheckSlow
    <1>8. W!CountBreaches(p)
        BY <1>3, <1>4, <1>5 DEF CountBreaches, W!CountBreaches
    <1>9. W!CheckEod
        BY <1>3, SameTypes DEF CheckEod, W!CheckEod
    <1> QED
        BY <1>2, <1>3, <1>7, <1>8, <1>9 DEF W!Timer, W!CheckSlow, W!CountBreaches

-----------------------------------------------------------------------------
(* The steps of the write path *)

\* The faults that may still happen are the same.
LEMMA SameFaults ==
    /\ \A k : Fault(k) => W!Fault(k)
    /\ NoFault => W!NoFault
    /\ WdbSame => W!WdbSame
    BY DEF Fault, W!Fault, NoFault, W!NoFault, WdbSame, W!WdbSame, wdbVars, W!wdbVars, diskVars, W!diskVars

\* What leaves the tickerplant alone is seen to.
LEMMA SeenTpSame ==
    ASSUME UNCHANGED tpVars
    PROVE  UNCHANGED W!tpVars
    BY DEF tpVars, W!tpVars

\* Every step of the tickerplant is one, or nothing, for the write path.
LEMMA SeenTpStep ==
    ASSUME EnvInv, TpInv, TpStep
    PROVE  W!TpStep
    <1> USE SameFaults
    <1>1. CASE Tick
        BY <1>1, SeenTpSame DEF Tick, W!Tick, W!TpStep
    <1>2. CASE Linger
        <2>1. \A h \in {"wdb"} : Len([g \in {"wdb"} |-> chan[g]][h]) < MaxChan
            BY <1>2, PathAssumption DEF Linger
        <2> QED
            BY <1>2, <2>1, SeenTpSame DEF Linger, W!Linger, TpSame, W!TpSame, diskVars, W!diskVars, W!TpStep
    <1>3. ASSUME NEW r \in Arriving, Feed(r) PROVE W!TpStep
        <2>1. r \in Row /\ r \in W!Arriving
            BY SameTypes DEF Arriving, W!Arriving, Row, EnvInv
        <2>2. \A h \in {"wdb"} : Len([g \in {"wdb"} |-> chan[g]][h]) < MaxChan
            BY <1>3, PathAssumption DEF Feed
        <2>3. W!Upd(r)
            BY <1>3, <2>1, SeenUpd DEF Feed
        <2>4. W!Feed(r)
            BY <1>3, <2>2, <2>3 DEF Feed, W!Feed, LoggedRows, W!LoggedRows, Cardinality, W!Cardinality
        <2> QED
            BY <2>1, <2>4 DEF W!TpStep
    <1>4. CASE TpTimer
        BY <1>4, SeenTimer DEF TpTimer, W!TpTimer, W!TpStep
    <1>5. CASE ForceEnd
        BY <1>5, SeenEnd, SameTypes DEF ForceEnd, W!ForceEnd, W!TpStep
    <1>6. CASE TpCrash
        BY <1>6, SeenTpRestart DEF TpCrash, W!TpCrash, W!TpStep
    <1>7. CASE Cut
        BY <1>7, SeenPortClosed DEF Cut, W!Cut, W!TpStep
    <1> QED
        BY <1>1, <1>2, <1>3, <1>4, <1>5, <1>6, <1>7 DEF TpStep, W!TpStep

\* Handlers of the write-down database that exchange nothing with the tickerplant, and steps
\* that make it subscribe or announce.
LEMMA SeenOwnStep ==
    ASSUME TpInv, WdbInv, WdbOwnStep
    PROVE  W!WdbOwnStep
    <1> USE SameFaults, SameHandlers
    <1>1. CASE WdbSubscribe
        <2>1. /\ todo # <<>> /\ Head(todo).op = "sub"
              /\ W!WdbAt("sub") /\ W!WdbStepDone /\ W!NoFault /\ TrySub("wdb", Head(todo).tbl)
            BY <1>1 DEF WdbSubscribe, WdbAt
        <2>2. Head(todo).tbl \in Tables
            <3>1. \A s \in DueStep : s.op = "sub" => s.tbl \in Tables
                BY DEF DueStep
            <3> QED
                BY <2>1, <3>1, RestDue
        <2>3. PICK t \in Tables : t = Head(todo).tbl
            BY <2>2
        <2>4. SubWorks("wdb", t) <=> W!SubWorks("wdb", t)
            BY SeenHandles DEF SubWorks, W!SubWorks
        <2>5. W!TrySub("wdb", t)
            BY <2>1, <2>3, <2>4, SeenSub, SeenTpSame
               DEF TrySub, W!TrySub, TpSame, W!TpSame
        <2>6. W!TrySub("wdb", Head(todo).tbl)
            BY <2>3, <2>5 DEF W!TrySub, W!SubWorks, W!Sub
        <2> QED
            BY <2>1, <2>6 DEF W!WdbSubscribe, W!WdbOwnStep
    <1>2. CASE WdbAnnounce
        <2>1. PICK wm : wm = Head(todo).wm
            OBVIOUS
        <2>2. W!BroadcastWatermark(wm)
            BY <1>2, <2>1, SeenWatermark DEF WdbAnnounce
        <2>3. W!BroadcastWatermark(Head(todo).wm)
            BY <2>1, <2>2 DEF W!BroadcastWatermark, W!Broadcast, W!ShedMsg
        <2> QED
            BY <1>2, <2>3 DEF WdbAnnounce, W!WdbAnnounce, W!WdbOwnStep
    <1>3. CASE WdbFlushStep
        BY <1>3, SeenTpSame DEF WdbFlushStep, W!WdbFlushStep, TpSame, W!TpSame, W!WdbOwnStep
    <1>4. CASE WdbCatchUpStep
        BY <1>4, SeenTpSame, SameTypes
           DEF WdbCatchUpStep, W!WdbCatchUpStep, TpSame, W!TpSame, W!WdbOwnStep
    <1>5. CASE WdbClearStep
        BY <1>5, SeenTpSame DEF WdbClearStep, W!WdbClearStep, TpSame, W!TpSame, W!WdbOwnStep
    <1>6. CASE WdbSplayStep
        BY <1>6, SeenTpSame DEF WdbSplayStep, W!WdbSplayStep, TpSame, W!TpSame, W!WdbOwnStep
    <1>7. CASE WdbRetireStep
        BY <1>7, SeenTpSame DEF WdbRetireStep, W!WdbRetireStep, TpSame, W!TpSame, W!WdbOwnStep
    <1>8. CASE WdbSealedStep
        BY <1>8, SeenTpSame DEF WdbSealedStep, W!WdbSealedStep, TpSame, W!TpSame, W!WdbOwnStep
    <1> QED
        BY <1>1, <1>2, <1>3, <1>4, <1>5, <1>6, <1>7, <1>8 DEF WdbOwnStep

\* Every step of the write path within the shard is one of the write path alone.
LEMMA SeenWriteStep ==
    ASSUME SealInv, WriteStep
    PROVE  W!WriteStep
    <1> USE SameFaults, SameHandlers DEF SealInv
    <1>1. CASE TpStep
        BY <1>1, SeenTpStep DEF W!WriteStep
    <1>2. CASE WdbReceive
        <2>1. [h \in {"wdb"} |-> chan[h]]["wdb"] = chan["wdb"]
            OBVIOUS
        <2>2. W!WdbHandle(Head(chan["wdb"]))
            BY <1>2 DEF WdbReceive
        <2> QED
            BY <1>2, <2>1, <2>2, SeenConsume DEF WdbReceive, W!WdbReceive, W!WriteStep
    <1>3. CASE WdbTick
        <2>1. PICK connect \in BOOLEAN : WdbTickWith(connect)
            BY <1>3 DEF WdbTick
        <2>2. "wdb" \in SubHandles <=> "wdb" \in W!SubHandles
            BY SeenHandles
        <2>3. W!WdbTickWith(connect)
            BY <2>1, <2>2, SeenTpSame DEF WdbTickWith, W!WdbTickWith, TpSame, W!TpSame
        <2> QED
            BY <2>3 DEF W!WdbTick, W!WriteStep
    <1>4. CASE WdbOwnStep
        BY <1>4, SeenOwnStep DEF W!WriteStep
    <1>5. CASE WdbAnnounceFails
        BY <1>5, SeenTpRestart
           DEF WdbAnnounceFails, W!WdbAnnounceFails, diskVars, W!diskVars, W!WriteStep
    <1>6. CASE WdbDies
        BY <1>6, SeenVanish DEF WdbDies, W!WdbDies, W!WriteStep
    <1>7. CASE WdbStarts
        BY <1>7, SeenTpSame DEF WdbStarts, W!WdbStarts, TpSame, W!TpSame, W!WriteStep
    <1> QED
        BY <1>1, <1>2, <1>3, <1>4, <1>5, <1>6, <1>7 DEF WriteStep

-----------------------------------------------------------------------------
(* The readers *)

\* Only a chained RDB that the shard has runs, and only "rdb" is another connection.
ReadersInv ==
    /\ rdbUp => "rdb" \in Handles
    /\ rdbConn \in Seq(Tables)

ShardInv == SealInv /\ ReadersInv

\* The readers begin with nothing announced to them.
LEMMA InitShardInv == Init => ShardInv
    <1> SUFFICES ASSUME Init PROVE ShardInv
        OBVIOUS
    <1>1. rdbUp = ("rdb" \in Readers) /\ rdbConn = <<>>
        BY DEF Init, RdbInit
    <1>2. rdbUp => "rdb" \in Handles
        BY <1>1, ShardAssumption
    <1>3. rdbConn \in Seq(Tables)
        BY <1>1
    <1> QED
        BY <1>2, <1>3, InitSealInv DEF Init, ReadersInv, ShardInv

\* What the readers know stays in range.
LEMMA ReadersInvKept ==
    ASSUME ReadersInv, [Next]_vars
    PROVE  ReadersInv'
    <1> USE DEF ReadersInv
    <1>0. <<"trade", "risk">> \in Seq(Tables)
        BY DEF Tables
    <1>1. CASE UNCHANGED <<rdbUp, rdbConn>>
        BY <1>1
    <1>2. CASE RdbStarts
        BY <1>0, <1>2, ShardAssumption DEF RdbStarts, RdbStart
    <1>3. CASE RdbDies
        BY <1>3 DEF RdbDies, RdbCrash
    <1>4. CASE RdbTick
        BY <1>0, <1>4 DEF RdbTick, RdbReconnect
    <1>5. CASE RdbSubscribe
        <2>1. rdbConn' \in {Tail(rdbConn), <<>>} /\ rdbConn # <<>> /\ UNCHANGED rdbUp
            BY <1>5 DEF RdbSubscribe, RdbSubDone
        <2>2. Tail(rdbConn) \in Seq(Tables) /\ <<>> \in Seq(Tables)
            BY <2>1
        <2> QED
            BY <2>1, <2>2
    <1>6. ASSUME ~RdbStarts, ~RdbDies, ~RdbTick, ~RdbSubscribe PROVE UNCHANGED <<rdbUp, rdbConn>>
        <2>1. CASE Write
            BY <2>1 DEF Write, Alone, readerVars, rdbVars
        <2>2. CASE Reload \/ Drop
            BY <2>2 DEF Reload, Drop, RdbSame, rdbVars
        <2>3. CASE RdbReceive
            BY <2>3 DEF RdbReceive, RdbHandle, RdbUpd, RdbShedTo, RdbEod
        <2>4. CASE RdbCut
            BY <2>4 DEF RdbCut, RdbSame, rdbVars
        <2>5. CASE IdbTick \/ IdbDies \/ IdbStarts
            BY <2>5 DEF IdbTick, IdbDies, IdbStarts, IdbOnly, RdbSame, rdbVars
        <2>6. CASE HdbTick \/ HdbDies
            BY <2>6 DEF HdbTick, HdbDies, HdbOnly, RdbSame, rdbVars
        <2>7. CASE UNCHANGED vars
            BY <2>7 DEF vars, readerVars, rdbVars
        <2> QED
            BY <1>6, <2>1, <2>2, <2>3, <2>4, <2>5, <2>6, <2>7 DEF Next
    <1> QED
        BY <1>1, <1>2, <1>3, <1>4, <1>5, <1>6

\* A step of the historical database may purge partitions; no other reader touches the
\* directories, and what they do to the tickerplant does not reach the connection of the
\* write-down database.
ReaderStep ==
    \/ RdbReceive \/ RdbTick \/ RdbSubscribe \/ RdbCut \/ RdbDies \/ RdbStarts
    \/ IdbTick \/ IdbDies \/ IdbStarts
    \/ HdbTick \/ HdbDies

\* A reader leaves the calendar and the log alone.
LEMMA ReaderEnv ==
    ASSUME ReaderStep
    PROVE  UNCHANGED <<now, left, wdbVars, scratch>>
    <1> USE DEF NoReaderFault, ReaderFault, NoFault, RdbOnly, WdbSame, TpSame, wdbVars, diskVars
    <1>1. CASE RdbReceive \/ RdbTick
        BY <1>1 DEF RdbReceive, Consume, RdbTick
    <1>2. CASE RdbSubscribe \/ RdbCut
        BY <1>2 DEF RdbSubscribe, TrySub, RdbCut
    <1>3. CASE RdbDies \/ RdbStarts
        BY <1>3 DEF RdbDies, Vanish, RdbStarts
    <1>4. CASE IdbTick \/ IdbDies \/ IdbStarts
        BY <1>4 DEF IdbTick, IdbDies, IdbStarts, IdbOnly
    <1>5. CASE HdbTick \/ HdbDies
        BY <1>5 DEF HdbTick, HdbDies, HdbOnly
    <1> QED
        BY <1>1, <1>2, <1>3, <1>4, <1>5 DEF ReaderStep

\* A reader leaves the disk of the write path alone, but for a purge.
LEMMA ReaderDisk ==
    ASSUME ReaderStep
    PROVE  /\ splays' \subseteq splays /\ sealed' \subseteq sealed
           /\ HdbRetention = 0 => UNCHANGED <<splays, sealed>>
    <1>1. CASE HdbTick
        <2>1. HdbTimer(now)
            BY <1>1 DEF HdbTick
        <2>2. HdbRetention = 0 => Purged(now) = {}
            BY DEF Purged
        <2> QED
            BY <2>1, <2>2 DEF HdbTimer
    <1>2. CASE HdbDies
        BY <1>2 DEF HdbDies
    <1>3. CASE \/ RdbReceive \/ RdbTick \/ RdbSubscribe \/ RdbCut \/ RdbDies \/ RdbStarts
        BY <1>3 DEF RdbReceive, RdbTick, RdbSubscribe, RdbCut, RdbDies, RdbStarts, RdbOnly,
                    WdbSame, diskVars
    <1>4. CASE IdbTick \/ IdbDies \/ IdbStarts
        BY <1>4 DEF IdbTick, IdbDies, IdbStarts, IdbOnly, WdbSame, diskVars
    <1> QED
        BY <1>1, <1>2, <1>3, <1>4 DEF ReaderStep

\* What a reader may do to the tickerplant.
LEMMA ReaderTp ==
    ASSUME TpInv, ReadersInv, ReaderStep
    PROVE  \/ UNCHANGED tpVars
           \/ "rdb" \in Handles /\ (Consume("rdb") \/ Vanish("rdb") \/ PortClosed("rdb"))
           \/ "rdb" \in Handles /\ \E t \in Tables : Sub("rdb", t)
    <1>1. CASE RdbReceive \/ RdbDies
        BY <1>1 DEF RdbReceive, RdbDies, RdbCrash, ReadersInv
    <1>2. CASE RdbSubscribe
        <2>1. rdbUp /\ TrySub("rdb", Head(rdbConn))
            BY <1>2 DEF RdbSubscribe, RdbSubDone
        <2>2. Head(rdbConn) \in Tables
            BY <1>2 DEF RdbSubscribe, ReadersInv
        <2> QED
            BY <2>1, <2>2 DEF ReadersInv, TrySub, TpSame
    <1>3. CASE RdbCut
        BY <1>3 DEF RdbCut, PortClosed, TpInv, SubHandles
    <1>4. CASE RdbTick \/ RdbStarts \/ IdbTick \/ IdbDies \/ IdbStarts \/ HdbTick \/ HdbDies
        BY <1>4 DEF RdbTick, RdbStarts, IdbTick, IdbDies, IdbStarts, HdbTick, HdbDies,
                    IdbOnly, HdbOnly, TpSame
    <1> QED
        BY <1>1, <1>2, <1>3, <1>4 DEF ReaderStep

\* A reader leaves the invariant of the write path alone.
LEMMA ReaderKeeps ==
    ASSUME SealInv, ReadersInv, ReaderStep
    PROVE  SealInv'
    <1> USE DEF SealInv
    <1>1. EnvInv' /\ ClosedDates \subseteq ClosedDates'
        BY ReaderEnv, EnvKept
    <1>2. TpInv'
        BY <1>1, ReaderTp, TpKept, ConsumeKeeps, VanishKeeps, PortClosedKeeps, SubKeeps
    <1>3. WdbInv'
        BY <1>1, ReaderEnv, ReaderDisk, DueStays DEF WdbInv, wdbVars
    <1> QED
        BY <1>1, <1>2, <1>3

\* The invariant of the shard is inductive.
LEMMA StepShardInv == ShardInv /\ [Next]_vars => ShardInv'
    <1> SUFFICES ASSUME ShardInv, [Next]_vars PROVE ShardInv'
        OBVIOUS
    <1> USE DEF ShardInv
    <1>1. ReadersInv'
        BY ReadersInvKept
    <1>2. CASE Write
        BY <1>1, <1>2, StepSealInv DEF Write, Alone, PathNext
    <1>3. CASE Reload
        <2>1. WdbReload
            BY <1>3 DEF Reload, WdbReload, NoReaderFault
        <2> QED
            BY <1>1, <2>1, StepSealInv DEF PathNext
    <1>4. CASE Drop
        BY <1>1, <1>4, StepSealInv DEF Drop, PathNext
    <1>5. CASE ReaderStep
        BY <1>1, <1>5, ReaderKeeps
    <1>6. CASE UNCHANGED vars
        BY <1>1, <1>6, StepSealInv DEF vars
    <1> QED
        BY <1>2, <1>3, <1>4, <1>5, <1>6 DEF Next, ReaderStep

\* The write-down database's connection does not feel another one's.
LEMMA OtherConnection ==
    ASSUME TpInv, ReadersInv, ReaderStep
    PROVE  UNCHANGED W!tpVars
    <1>1. CASE UNCHANGED tpVars
        BY <1>1, SeenTpSame
    <1>2. CASE Consume("rdb")
        BY <1>2, PathAssumption DEF Consume, TpInv, W!tpVars
    <1>3. CASE PortClosed("rdb")
        <2>1. chan'["wdb"] = chan["wdb"]
            BY <1>3, PathAssumption DEF PortClosed, Truncated
        <2>2. strikes'["wdb"] = strikes["wdb"]
            BY <1>3, PathAssumption DEF PortClosed, TpInv
        <2>3. [t \in Tables |-> subs'[t] \cap {"wdb"}] = [t \in Tables |-> subs[t] \cap {"wdb"}]
            BY <1>3 DEF PortClosed, Unsubscribed
        <2> QED
            BY <1>3, <2>1, <2>2, <2>3 DEF PortClosed, W!tpVars
    <1>4. CASE Vanish("rdb") /\ ~PortClosed("rdb")
        <2>1. chan' = [chan EXCEPT !["rdb"] = <<>>]
            BY <1>4 DEF Vanish
        <2>2. chan'["wdb"] = chan["wdb"]
            BY <2>1, PathAssumption DEF TpInv
        <2> QED
            BY <1>4, <2>2 DEF Vanish, W!tpVars
    <1>5. ASSUME NEW t \in Tables, Sub("rdb", t) PROVE UNCHANGED W!tpVars
        <2>1. [u \in Tables |-> subs'[u] \cap {"wdb"}] = [u \in Tables |-> subs[u] \cap {"wdb"}]
            BY <1>5 DEF Sub, TpInv
        <2>2. chan'["wdb"] = chan["wdb"] /\ breaches'["wdb"] = breaches["wdb"]
            BY <1>5, PathAssumption DEF Sub, TpInv
        <2> QED
            BY <1>5, <2>1, <2>2 DEF Sub, W!tpVars
    <1> QED
        BY <1>1, <1>2, <1>3, <1>4, <1>5, ReaderTp

\* Every step of the shard is a step of the write path, or none.
LEMMA StepIsSeen ==
    ASSUME HdbRetention = 0, ShardInv, [Next]_vars
    PROVE  [W!PathNext]_(W!pathVars)
    <1> USE SameFaults, SameHandlers DEF ShardInv
    <1>1. CASE Write
        BY <1>1, SeenWriteStep DEF Write, Alone, W!PathNext
    <1>2. CASE Reload
        <2>1. W!WdbReload
            BY <1>2, SeenTpSame DEF Reload, W!WdbReload, TpSame, W!TpSame, NoReaderFault
        <2> QED
            BY <2>1 DEF W!PathNext
    <1>3. CASE Drop
        <2>1. W!WdbDrop
            BY <1>3, SeenTpSame DEF Drop, WdbDrop, W!WdbDrop, TpSame, W!TpSame
        <2> QED
            BY <2>1 DEF W!PathNext
    <1>4. CASE ReaderStep
        <2>1. UNCHANGED W!tpVars
            BY <1>4, OtherConnection DEF SealInv
        <2>2. UNCHANGED <<now, left, wdbVars, scratch, splays, sealed>>
            BY <1>4, ReaderEnv, ReaderDisk
        <2> QED
            BY <2>1, <2>2 DEF W!pathVars, wdbVars, W!wdbVars, W!diskVars
    <1>5. CASE UNCHANGED vars
        BY <1>5, SeenTpSame
           DEF vars, pathVars, wdbVars, diskVars, W!pathVars, W!wdbVars, W!diskVars
    <1> QED
        BY <1>1, <1>2, <1>3, <1>4, <1>5 DEF Next, ReaderStep

\* And it begins as the write path does.
LEMMA InitIsSeen == Init => W!PathInit
    <1> SUFFICES ASSUME Init PROVE W!PathInit
        OBVIOUS
    <1> USE DEF Init, PathInit
    <1>1. W!WdbInit(now) /\ W!DiskInit /\ now = EodOffset /\ left = Budget
        BY DEF WdbInit, W!WdbInit, NoDate, W!NoDate, DiskInit, W!DiskInit
    <1>2. W!TpInitWith([t \in W!Tables |-> {"wdb"}])
        BY SameTypes, PathAssumption DEF TpInitWith, W!TpInitWith, NoCounts, W!NoCounts
    <1> QED
        BY <1>1, <1>2 DEF W!PathInit

\* The readers seal no day early either, purged partitions or not.
THEOREM ShardSealsOnlyClosedDays == Spec => []SealsOnlyClosedDays
    <1>1. ShardInv => SealsOnlyClosedDays
        BY DEF ShardInv, SealInv, WdbInv, ClosedFile, ClosedDates, SealsOnlyClosedDays
    <1> QED
        BY <1>1, InitShardInv, StepShardInv, PTL DEF Spec

\* The chained RDB, the intraday and the historical database come, go, read and reload, and
\* the write path goes on as if it were alone; but for a historical database that purges.
THEOREM WritePathUndisturbed ==
    ASSUME HdbRetention = 0
    PROVE  Spec => ImplementsWritePath
    <1>1. ShardInv /\ [Next]_vars => [W!PathNext]_(W!pathVars)
        BY StepIsSeen
    <1> QED
        BY <1>1, InitShardInv, StepShardInv, InitIsSeen, PTL
           DEF Spec, ImplementsWritePath, W!PathSpec

-----------------------------------------------------------------------------
(* The chained RDB *)

\* Rows come from the tickerplant: whatever holds one, the log has it.
LoggedMessage == [kind : {"upd"}, row : LoggedRows]
                   \cup [kind : {"shed"}, wm : Int]
                   \cup [kind : {"eod"}, date : Int]

SourceInv ==
    /\ chan \in [Handles -> Seq(LoggedMessage)]
    /\ buf \subseteq LoggedRows /\ scratch \subseteq LoggedRows /\ rdbRows \subseteq LoggedRows

\* After place j of the queue the end of day d, or of a later one, is announced.
Announced(q, j, d) == \E i \in DOMAIN q : i > j /\ q[i].kind = "eod" /\ q[i].date >= d

\* The row of an entry of a closed day has the end of the day still before it, in the
\* queue or, if it is among the rows R, anywhere in the queue.
Leaving(q, R, e) ==
    /\ e.row \in R => Announced(q, 0, e.date)
    /\ \A j \in DOMAIN q : q[j].kind = "upd" /\ q[j].row = e.row => Announced(q, j, e.date)

RdbDayInv ==
    rdbFirst /\ "rdb" \in SubHandles =>
        \A e \in logged : e.date <= today /\ (OfItsDay(e) /\ e.date < today => Leaving(chan["rdb"], rdbRows, e))

RdbInv ==
    /\ SourceInv
    /\ rdbUp => "rdb" \in Handles
    /\ "rdb" \in Handles =>
        /\ Fresh(chan["rdb"], rdbRows)
        /\ ~rdbUp => "rdb" \notin SubHandles /\ chan["rdb"] = <<>>
        /\ rdbConn # <<>> \/ ~rdbUp => ~rdbFirst
        /\ RdbDayInv

-----------------------------------------------------------------------------
(* Queues *)

\* The places of a queue cut off.
LEMMA PrefixAt ==
    ASSUME NEW T, NEW q \in Seq(T), NEW n \in 0 .. Len(q)
    PROVE  /\ DOMAIN q = 1 .. Len(q) /\ Len(q) \in Nat
           /\ DOMAIN SubSeq(q, 1, n) = 1 .. n
           /\ \A i \in 1 .. n : SubSeq(q, 1, n)[i] = q[i]
OBVIOUS

\* A queue cut off.
LEMMA FreshPrefix ==
    ASSUME NEW T, NEW q \in Seq(T), NEW R, Fresh(q, R), NEW n \in 0 .. Len(q)
    PROVE  Fresh(SubSeq(q, 1, n), R)
BY PrefixAt DEF Fresh

\* A message with another row in it changes nothing for a row that is leaving.
LEMMA LeavingAppend ==
    ASSUME NEW T, NEW q \in Seq(T), NEW R, NEW e, Leaving(q, R, e), NEW m, m.kind = "upd" => m.row # e.row
    PROVE  Leaving(Append(q, m), R, e)
<1> DEFINE p == Append(q, m)
<1>1. DOMAIN q \subseteq DOMAIN p /\ \A i \in DOMAIN p : i = Len(q) + 1 \/ i \in DOMAIN q
  BY AppendAt
<1>2. p[Len(q) + 1] = m /\ \A i \in DOMAIN q : p[i] = q[i]
  BY AppendAt
<1> HIDE DEF p
<1>3. \A j : Announced(q, j, e.date) => Announced(p, j, e.date)
  BY <1>1, <1>2 DEF Announced
<1> QED
  BY <1>1, <1>2, <1>3 DEF Leaving, p

\* The end of a day that is announced last stands behind all there is.
LEMMA LeavingAnnounced ==
    ASSUME NEW T, NEW q \in Seq(T), NEW R, NEW e, NEW d, e.date <= d
    PROVE  Leaving(Append(q, EodMsg(d)), R, e)
<1> DEFINE p == Append(q, EodMsg(d))
<1>1. /\ DOMAIN q = 1 .. Len(q) /\ Len(q) \in Nat /\ DOMAIN p = 1 .. Len(q) + 1
      /\ p[Len(q) + 1].kind = "eod" /\ p[Len(q) + 1].date = d
  BY AppendAt DEF EodMsg
<1> HIDE DEF p
<1>2. \A j \in 0 .. Len(q) : Announced(p, j, e.date)
  BY <1>1 DEF Announced
<1>3. \A j \in DOMAIN p : p[j].kind = "upd" => j \in 0 .. Len(q)
  BY <1>1
<1> QED
  BY <1>1, <1>2, <1>3 DEF Leaving, p

\* Once the head is handled, what the rows R become: fewer, but for the row of the head, and
\* none of a day whose end it was.
LEMMA LeavingTail ==
    ASSUME NEW T, NEW q \in Seq(T), q # <<>>, NEW R, NEW e, Leaving(q, R, e), NEW S,
           e.row \in S => e.row \in R \/ (Head(q).kind = "upd" /\ Head(q).row = e.row),
           e.row \in S /\ Head(q).kind = "eod" => ~(Head(q).date >= e.date)
    PROVE  Leaving(Tail(q), S, e)
<1> DEFINE p == Tail(q)
<1>1. /\ DOMAIN q = 1 .. Len(q) /\ Len(q) \in Nat \ {0} /\ Head(q) = q[1] /\ DOMAIN p = 1 .. Len(q) - 1
      /\ \A i \in DOMAIN p : p[i] = q[i + 1]
  BY TailAt
<1> HIDE DEF p
<1>2. ASSUME NEW j \in Nat, Announced(q, j + 1, e.date) PROVE Announced(p, j, e.date)
  <2>1. PICK i \in DOMAIN q : i > j + 1 /\ q[i].kind = "eod" /\ q[i].date >= e.date
    BY <1>2 DEF Announced
  <2>2. i - 1 \in DOMAIN p /\ i - 1 > j /\ p[i - 1] = q[i]
    BY <1>1, <2>1
  <2> QED
    BY <2>1, <2>2 DEF Announced
<1>3. ASSUME NEW j \in DOMAIN p, p[j].kind = "upd" /\ p[j].row = e.row PROVE Announced(p, j, e.date)
  <2>1. j + 1 \in DOMAIN q /\ q[j + 1] = p[j] /\ j \in Nat
    BY <1>1
  <2> QED
    BY <1>2, <1>3, <2>1 DEF Leaving
<1>4. ASSUME e.row \in S PROVE Announced(p, 0, e.date)
  <2>1. Announced(q, 1, e.date)
    <3>1. CASE e.row \in R
      <4>1. PICK i \in DOMAIN q : i > 0 /\ q[i].kind = "eod" /\ q[i].date >= e.date
        BY <3>1 DEF Leaving, Announced
      <4>2. i # 1
        BY <1>1, <1>4, <4>1
      <4> QED
        BY <1>1, <4>1, <4>2 DEF Announced
    <3>2. CASE Head(q).kind = "upd" /\ Head(q).row = e.row
      BY <1>1, <3>2 DEF Leaving
    <3> QED
      BY <1>4, <3>1, <3>2
  <2> QED
    BY <1>2, <2>1
<1> QED
  BY <1>3, <1>4 DEF Leaving, p

-----------------------------------------------------------------------------
(* What a step of the write path does to the tickerplant *)

TpMove ==
    \/ UNCHANGED tpVars
    \/ \E r \in Row : r \notin LoggedRows /\ Upd(r)
    \/ Timer \/ End(today) \/ TpRestart
    \/ Consume("wdb") \/ Vanish("wdb") \/ \E t \in Tables : Sub("wdb", t)
    \/ \E h \in Handles : PortClosed(h)
    \/ \E wm \in Int : BroadcastWatermark(wm)

\* The steps of the write path, by what they do to the tickerplant.
LEMMA PathMoves == ASSUME SealInv, [PathNext]_pathVars PROVE TpMove
<1>1. CASE TpStep
  <2>1. ASSUME NEW r \in Arriving, Feed(r) PROVE TpMove
    <3>1. r \in Row
      BY DEF Arriving, Row, SealInv, EnvInv
    <3> QED
      BY <2>1, <3>1 DEF Feed, TpMove
  <2>2. CASE Tick \/ Linger
    BY <2>2 DEF Tick, Linger, TpSame, TpMove
  <2>3. CASE TpTimer \/ ForceEnd \/ TpCrash
    BY <2>3 DEF TpTimer, ForceEnd, TpCrash, TpMove
  <2>4. CASE Cut
    BY <2>4, PathAssumption DEF Cut, TpMove
  <2> QED
    BY <1>1, <2>1, <2>2, <2>3, <2>4 DEF TpStep
<1>2. CASE WdbReceive \/ WdbDies \/ WdbAnnounceFails
  BY <1>2 DEF WdbReceive, WdbDies, WdbAnnounceFails, TpMove
<1>3. CASE WdbTick \/ WdbStarts \/ WdbReload \/ WdbDrop
  BY <1>3 DEF WdbTick, WdbTickWith, WdbStarts, WdbReload, WdbDrop, TpSame, TpMove
<1>4. CASE WdbOwnStep
  <2>1. CASE WdbSubscribe
    <3>1. todo # <<>> /\ TrySub("wdb", Head(todo).tbl)
      BY <2>1 DEF WdbSubscribe, WdbAt
    <3>2. \A s \in DueStep : s.op = "sub" => s.tbl \in Tables
      BY DEF DueStep
    <3>3. Head(todo) \in DueStep /\ Head(todo).op = "sub"
      BY <2>1, <3>1, RestDue DEF WdbSubscribe, WdbAt, SealInv
    <3> QED
      BY <3>1, <3>2, <3>3 DEF TrySub, TpSame, TpMove
  <2>2. CASE WdbAnnounce
    <3>1. todo # <<>> /\ BroadcastWatermark(Head(todo).wm)
      BY <2>2 DEF WdbAnnounce, WdbAt
    <3>2. \A s \in DueStep : s.op = "watermark" => s.wm \in Int
      BY DEF DueStep
    <3>3. Head(todo) \in DueStep /\ Head(todo).op = "watermark"
      BY <2>2, <3>1, RestDue DEF WdbAnnounce, WdbAt, SealInv
    <3> QED
      BY <3>1, <3>2, <3>3 DEF TpMove
  <2>3. CASE WdbFlushStep \/ WdbCatchUpStep \/ WdbClearStep \/ WdbSplayStep \/ WdbRetireStep \/ WdbSealedStep
    BY <2>3 DEF WdbFlushStep, WdbCatchUpStep, WdbClearStep, WdbSplayStep, WdbRetireStep, WdbSealedStep,
                TpSame, TpMove
  <2> QED
    BY <1>4, <2>1, <2>2, <2>3 DEF WdbOwnStep
<1>5. CASE UNCHANGED pathVars
  BY <1>5 DEF pathVars, TpMove
<1> QED
  BY <1>1, <1>2, <1>3, <1>4, <1>5 DEF PathNext, WriteStep

\* The rows that the write-down database holds after a step of the write path it held
\* before, or has just been sent.
LEMMA PathRows ==
    ASSUME SealInv, [PathNext]_pathVars, NEW x \in buf' \cup scratch'
    PROVE  \/ x \in buf \cup scratch
           \/ Consume("wdb") /\ Head(chan["wdb"]).kind = "upd" /\ x = Head(chan["wdb"]).row
<1>1. CASE TpStep
  BY <1>1 DEF TpStep, Tick, Linger, Feed, TpTimer, ForceEnd, TpCrash, Cut, WdbSame, wdbVars, diskVars
<1>2. CASE WdbReceive
  BY <1>2 DEF WdbReceive, WdbHandle, WdbUpd, WdbEod, FlushTo, wdbVars, diskVars
<1>3. CASE WdbTick \/ WdbStarts \/ WdbReload \/ WdbDrop
  BY <1>3 DEF WdbTick, WdbTickWith, WdbTimer, WdbStarts, WdbStart, WdbReload, WdbDrop, WdbStepDone, diskVars
<1>4. CASE WdbAnnounceFails \/ WdbDies
  BY <1>4 DEF WdbAnnounceFails, WdbDies, WdbCrash, diskVars
<1>5. CASE WdbSubscribe \/ WdbAnnounce \/ WdbCatchUpStep \/ WdbSealedStep
  BY <1>5 DEF WdbSubscribe, WdbAnnounce, WdbStepDone, WdbCatchUpStep, WdbCatchUp, WdbSealedStep, WdbSealed, diskVars
<1>6. CASE WdbFlushStep \/ WdbClearStep \/ WdbSplayStep \/ WdbRetireStep
  BY <1>6 DEF WdbFlushStep, WdbFlush, FlushTo, WdbClearStep, WdbClear, WdbSplayStep, WdbSplay,
              WdbRetireStep, WdbRetire
<1>7. CASE UNCHANGED pathVars
  BY <1>7 DEF pathVars, wdbVars, diskVars
<1> QED
  BY <1>1, <1>2, <1>3, <1>4, <1>5, <1>6, <1>7 DEF PathNext, WriteStep, WdbOwnStep

\* What is sent is logged first, so that every queue holds what is in the log.
LEMMA SourceKept ==
    ASSUME SealInv, SourceInv,
           TpMove \/ \E h \in Handles : Consume(h) \/ Vanish(h) \/ \E t \in Tables : Sub(h, t)
    PROVE  chan' \in [Handles -> Seq(LoggedMessage)]' /\ LoggedRows \subseteq LoggedRows'
<1> DEFINE M == LoggedMessage'
<1>1. LoggedRows \subseteq LoggedRows'
  BY DEF TpMove, tpVars, LoggedRows, Upd, Timer, End, TpRestart, Consume, Vanish, PortClosed, Sub, BroadcastWatermark
<1>2. LoggedMessage \subseteq M
  BY <1>1 DEF LoggedMessage
<1> HIDE DEF M
<1>3. chan \in [Handles -> Seq(M)]
  <2>1. \A h \in Handles : chan[h] \in Seq(M)
    BY <1>2 DEF SourceInv
  <2> QED
    BY <2>1 DEF SourceInv
<1>4. (\A wm \in Int : ShedMsg(wm) \in M) /\ (today \in Int => EodMsg(today) \in M)
  BY DEF M, LoggedMessage, ShedMsg, EodMsg
<1>5. today \in Int /\ "wdb" \in Handles /\ DOMAIN chan = Handles
  BY PathAssumption DEF SealInv, TpInv
<1>6. ASSUME NEW h \in Handles, chan' = [chan EXCEPT ![h] = <<>>] PROVE chan' \in [Handles -> Seq(M)]
  <2>1. <<>> \in Seq(M)
    OBVIOUS
  <2>2. PICK none \in Seq(M) : none = <<>>
    BY <2>1
  <2>3. chan' = [chan EXCEPT ![h] = none]
    BY <1>6, <2>2
  <2> QED
    BY <1>3, <1>5, <2>3
<1>7. chan' \in [Handles -> Seq(M)]
  <2>1. ASSUME NEW r \in Row, Upd(r) PROVE chan' \in [Handles -> Seq(M)]
    <3>1. r \in LoggedRows'
      <4>1. PICK e : e = [date |-> logDate, row |-> r]
        OBVIOUS
      <4>2. e \in logged' /\ e.row = r
        BY <2>1, <4>1 DEF Upd
      <4> QED
        BY <4>2 DEF LoggedRows
    <3>2. UpdMsg(r) \in M
      BY <3>1 DEF M, LoggedMessage, UpdMsg
    <3> QED
      BY <1>3, <2>1, <3>2 DEF Upd
  <2>2. CASE Timer
    <3>1. AfterEod \in [Handles -> Seq(M)]
      BY <1>3, <1>4, <1>5, BroadcastType DEF AfterEod
    <3>2. chan' \in Truncated(AfterEod, TooSlow(AfterEod))
      BY <2>2 DEF Timer, CheckSlow
    <3> QED
      BY <3>1, <3>2, TruncatedType
  <2>3. CASE End(today)
    BY <1>3, <1>4, <1>5, <2>3, BroadcastType DEF End
  <2>4. CASE TpRestart
    <3>1. chan' \in Truncated(chan, Handles)
      BY <2>4 DEF TpRestart
    <3> QED
      BY <1>3, <3>1, TruncatedType
  <2>5. ASSUME NEW h, PortClosed(h) PROVE chan' \in [Handles -> Seq(M)]
    <3>1. chan' \in Truncated(chan, {h})
      BY <2>5 DEF PortClosed
    <3> QED
      BY <1>3, <3>1, TruncatedType
  <2>6. ASSUME NEW h \in Handles, Consume(h) PROVE chan' \in [Handles -> Seq(M)]
    <3>1. chan' = [chan EXCEPT ![h] = Tail(@)] /\ chan[h] # <<>>
      BY <2>6 DEF Consume
    <3>2. Tail(chan[h]) \in Seq(M)
      BY <1>3, <1>5, <3>1
    <3> QED
      BY <1>3, <1>5, <3>1, <3>2
  <2>7. ASSUME NEW h \in Handles, Vanish(h) PROVE chan' \in [Handles -> Seq(M)]
    BY <1>6, <2>5, <2>7 DEF Vanish
  <2>8. ASSUME NEW h \in Handles, NEW t \in Tables, Sub(h, t) PROVE chan' \in [Handles -> Seq(M)]
    <3>1. chan' = chan \/ chan' = [chan EXCEPT ![h] = <<>>]
      BY <2>8 DEF Sub
    <3> QED
      BY <1>3, <1>6, <3>1
  <2>9. ASSUME NEW wm \in Int, BroadcastWatermark(wm) PROVE chan' \in [Handles -> Seq(M)]
    <3>1. chan' = Broadcast(chan, ShedMsg(wm)) /\ ShedMsg(wm) \in M
      BY <1>4, <2>9 DEF BroadcastWatermark
    <3> QED
      BY <1>3, <3>1, BroadcastType
  <2>10. CASE UNCHANGED tpVars
    BY <1>3, <2>10 DEF tpVars
  <2> QED
    BY <2>1, <2>2, <2>3, <2>4, <2>5, <2>6, <2>7, <2>8, <2>9, <2>10, <1>5 DEF TpMove
<1> QED
  BY <1>1, <1>7 DEF M

-----------------------------------------------------------------------------
(* What the chained RDB sees of it *)

Unseen ==
    /\ chan'["rdb"] = chan["rdb"] /\ UNCHANGED <<logged, today>>
    /\ "rdb" \in SubHandles' => "rdb" \in SubHandles

\* Its connection is gone, or was, and with it a part of the queue.
GoneFor ==
    /\ "rdb" \notin SubHandles' /\ logged' = logged
    /\ \/ chan'["rdb"] = chan["rdb"]
       \/ \E n \in 0 .. Len(chan["rdb"]) : chan'["rdb"] = SubSeq(chan["rdb"], 1, n)
       \/ /\ "rdb" \in SubHandles
          /\ \E n \in 0 .. Len(Append(chan["rdb"], EodMsg(today))) :
                chan'["rdb"] = SubSeq(Append(chan["rdb"], EodMsg(today)), 1, n)

RowSeen ==
    \E r \in Row :
        /\ r \notin LoggedRows /\ logged' = logged \cup {[date |-> today, row |-> r]}
        /\ UNCHANGED <<today, subs>>
        /\ \/ chan'["rdb"] = chan["rdb"]
           \/ "rdb" \in SubHandles /\ chan'["rdb"] = Append(chan["rdb"], UpdMsg(r))

WatermarkSeen ==
    /\ "rdb" \in SubHandles /\ UNCHANGED <<logged, today>>
    /\ \E wm : chan'["rdb"] = Append(chan["rdb"], ShedMsg(wm))

EndSeen ==
    /\ "rdb" \in SubHandles /\ logged' = logged /\ today' \in Int /\ today <= today'
    /\ chan'["rdb"] = Append(chan["rdb"], EodMsg(today))

\* The same, by what becomes of the chained RDB's queue.
LEMMA RdbSees ==
    ASSUME SealInv, TpMove, "rdb" \in Handles
    PROVE  Unseen \/ GoneFor \/ RowSeen \/ WatermarkSeen \/ EndSeen
<1>1. /\ DOMAIN chan = Handles /\ today \in Int /\ logDate = today /\ "wdb" \in Handles
      /\ DOMAIN subs = Tables /\ TradingDate(now) \in Int
  BY PathAssumption, TradingDateInt DEF SealInv, TpInv, EnvInv
<1>2. ASSUME NEW H, subs' = Unsubscribed(H) PROVE SubHandles' = SubHandles \ H
  BY <1>2 DEF Unsubscribed, SubHandles
<1>3. CASE UNCHANGED tpVars
  BY <1>3 DEF tpVars, Unseen, SubHandles
<1>4. ASSUME NEW r \in Row, r \notin LoggedRows, Upd(r) PROVE RowSeen
  <2>1. /\ logged' = logged \cup {[date |-> today, row |-> r]} /\ UNCHANGED <<today, subs>>
        /\ chan'["rdb"] = IF "rdb" \in subs[r.tbl] THEN Append(chan["rdb"], UpdMsg(r)) ELSE chan["rdb"]
    BY <1>1, <1>4 DEF Upd
  <2>2. "rdb" \in subs[r.tbl] => "rdb" \in SubHandles
    BY DEF SubHandles, Row
  <2> QED
    BY <1>4, <2>1, <2>2 DEF RowSeen
<1>5. CASE Timer
  <2> DEFINE q == AfterEod
  <2>1. /\ chan' \in Truncated(q, TooSlow(q)) /\ subs' = Unsubscribed(TooSlow(q)) /\ logged' = logged
        /\ IF TradingDate(now) > today THEN today' = TradingDate(now) ELSE today' = today
    BY <1>5 DEF Timer, CheckEod, CheckSlow
  <2>2. q["rdb"] = IF TradingDate(now) > today /\ "rdb" \in SubHandles
                   THEN Append(chan["rdb"], EodMsg(today)) ELSE chan["rdb"]
    BY DEF AfterEod, Broadcast
  <2> HIDE DEF q
  <2>3. SubHandles' = SubHandles \ TooSlow(q)
    BY <1>2, <2>1
  <2>4. CASE "rdb" \in TooSlow(q)
    <3>1. PICK n \in 0 .. Len(q["rdb"]) : chan'["rdb"] = SubSeq(q["rdb"], 1, n)
      BY <2>1, <2>4 DEF Truncated
    <3> QED
      BY <2>1, <2>2, <2>3, <2>4, <3>1 DEF GoneFor
  <2>5. CASE "rdb" \notin TooSlow(q)
    <3>1. chan'["rdb"] = q["rdb"]
      BY <2>1, <2>5 DEF Truncated
    <3>2. CASE TradingDate(now) > today /\ "rdb" \in SubHandles
      BY <1>1, <2>1, <2>2, <3>1, <3>2 DEF EndSeen
    <3>3. CASE TradingDate(now) > today /\ "rdb" \notin SubHandles
      BY <2>1, <2>2, <2>3, <3>1, <3>3 DEF GoneFor
    <3>4. CASE ~(TradingDate(now) > today)
      BY <2>1, <2>2, <2>3, <3>1, <3>4 DEF Unseen
    <3> QED
      BY <3>2, <3>3, <3>4
  <2> QED
    BY <2>4, <2>5
<1>6. CASE End(today)
  <2>1. UNCHANGED subs /\ logged' = logged /\ today' = today + 1 /\ SubHandles' = SubHandles
    BY <1>6 DEF End, SubHandles
  <2>2. chan'["rdb"] = IF "rdb" \in SubHandles THEN Append(chan["rdb"], EodMsg(today)) ELSE chan["rdb"]
    BY <1>6 DEF End, Broadcast
  <2> QED
    BY <1>1, <2>1, <2>2 DEF EndSeen, GoneFor
<1>7. CASE TpRestart
  <2>1. SubHandles' = {} /\ logged' = logged
    BY <1>7 DEF TpRestart, SubHandles
  <2>2. PICK n \in 0 .. Len(chan["rdb"]) : chan'["rdb"] = SubSeq(chan["rdb"], 1, n)
    BY <1>7 DEF TpRestart, Truncated
  <2> QED
    BY <2>1, <2>2 DEF GoneFor
<1>8. ASSUME NEW h \in Handles, PortClosed(h) PROVE Unseen \/ GoneFor
  <2>1. SubHandles' = SubHandles \ {h} /\ UNCHANGED <<logged, today>> /\ chan' \in Truncated(chan, {h})
    BY <1>2, <1>8 DEF PortClosed
  <2>2. CASE h = "rdb"
    <3>1. PICK n \in 0 .. Len(chan["rdb"]) : chan'["rdb"] = SubSeq(chan["rdb"], 1, n)
      BY <2>1, <2>2 DEF Truncated
    <3> QED
      BY <2>1, <2>2, <3>1 DEF GoneFor
  <2>3. CASE h # "rdb"
    BY <2>1, <2>3 DEF Truncated, Unseen
  <2> QED
    BY <2>2, <2>3
<1>9. CASE Consume("wdb")
  BY <1>1, <1>9 DEF Consume, Unseen, SubHandles
<1>10. CASE Vanish("wdb")
  BY <1>1, <1>8, <1>10 DEF Vanish, Unseen, SubHandles
<1>11. ASSUME NEW t \in Tables, Sub("wdb", t) PROVE Unseen
  BY <1>1, <1>11 DEF Sub, Unseen, SubHandles
<1>12. ASSUME NEW wm \in Int, BroadcastWatermark(wm) PROVE Unseen \/ WatermarkSeen
  BY <1>1, <1>12 DEF BroadcastWatermark, Broadcast, Unseen, WatermarkSeen, SubHandles
<1> QED
  BY <1>3, <1>4, <1>5, <1>6, <1>7, <1>8, <1>9, <1>10, <1>11, <1>12 DEF TpMove

-----------------------------------------------------------------------------
(* The invariant is inductive *)

\* What is on its way to the chained RDB is logged.
LEMMA RdbQueue ==
    ASSUME SealInv, SourceInv, "rdb" \in Handles
    PROVE  /\ chan["rdb"] \in Seq(LoggedMessage)
           /\ \A i \in DOMAIN chan["rdb"] : chan["rdb"][i].kind = "upd" => chan["rdb"][i].row \in LoggedRows
<1>1. chan["rdb"] \in Seq(LoggedMessage)
  BY DEF SourceInv
<1>2. \A m \in LoggedMessage : m.kind = "upd" => m.row \in LoggedRows
  BY DEF LoggedMessage
<1> QED
  BY <1>1, <1>2

\* A step in which the chained RDB takes no part keeps its queue fresh.
LEMMA FreshKept ==
    ASSUME SealInv, RdbInv, TpMove, UNCHANGED rdbVars, "rdb" \in Handles
    PROVE  Fresh(chan'["rdb"], rdbRows) /\ (~rdbUp => "rdb" \notin SubHandles' /\ chan'["rdb"] = <<>>)
<1>1. PICK q : q = chan["rdb"]
  OBVIOUS
<1>2. /\ q \in Seq(LoggedMessage) /\ Fresh(q, rdbRows)
      /\ \A i \in DOMAIN q : q[i].kind = "upd" => q[i].row \in LoggedRows
      /\ rdbRows \subseteq LoggedRows
      /\ ~rdbUp => "rdb" \notin SubHandles /\ q = <<>>
  BY <1>1, RdbQueue DEF RdbInv, SourceInv
<1>3. CASE Unseen
  BY <1>1, <1>2, <1>3 DEF Unseen
<1>4. CASE GoneFor
  <2>1. CASE chan'["rdb"] = q
    BY <1>2, <1>4, <2>1 DEF GoneFor
  <2>2. ASSUME NEW n \in 0 .. Len(q), chan'["rdb"] = SubSeq(q, 1, n)
        PROVE  Fresh(chan'["rdb"], rdbRows) /\ (q = <<>> => chan'["rdb"] = <<>>)
    BY <1>2, <2>2, FreshPrefix
  <2>3. ASSUME "rdb" \in SubHandles,
               NEW n \in 0 .. Len(Append(q, EodMsg(today))),
               chan'["rdb"] = SubSeq(Append(q, EodMsg(today)), 1, n)
        PROVE  Fresh(chan'["rdb"], rdbRows)
    <3>1. PICK p : p = Append(q, EodMsg(today))
      OBVIOUS
    <3>2. EodMsg(today).kind # "upd" /\ EodMsg(today) \in LoggedMessage
      BY DEF EodMsg, LoggedMessage, SealInv, TpInv
    <3>3. Fresh(p, rdbRows) /\ p \in Seq(LoggedMessage)
      BY <1>2, <3>1, <3>2, FreshAppend
    <3> QED
      BY <2>3, <3>1, <3>3, FreshPrefix
  <2>4. "rdb" \notin SubHandles'
    BY <1>4 DEF GoneFor
  <2> QED
    BY <1>1, <1>2, <1>4, <2>1, <2>2, <2>3, <2>4 DEF GoneFor
<1>5. CASE RowSeen
  <2>1. PICK r \in Row :
        /\ r \notin LoggedRows /\ SubHandles' = SubHandles
        /\ chan'["rdb"] = q \/ ("rdb" \in SubHandles /\ chan'["rdb"] = Append(q, UpdMsg(r)))
    BY <1>1, <1>5 DEF RowSeen, SubHandles
  <2>2. UpdMsg(r).row = r
    BY DEF UpdMsg
  <2>3. Fresh(Append(q, UpdMsg(r)), rdbRows)
    BY <1>2, <2>1, <2>2, FreshAppend
  <2> QED
    BY <1>2, <2>1, <2>3
<1>6. CASE WatermarkSeen
  <2>1. PICK wm : "rdb" \in SubHandles /\ chan'["rdb"] = Append(q, ShedMsg(wm))
    BY <1>1, <1>6 DEF WatermarkSeen
  <2>2. ShedMsg(wm).kind # "upd"
    BY DEF ShedMsg
  <2> QED
    BY <1>2, <2>1, <2>2, FreshAppend
<1>7. CASE EndSeen
  <2>1. "rdb" \in SubHandles /\ chan'["rdb"] = Append(q, EodMsg(today))
    BY <1>1, <1>7 DEF EndSeen
  <2>2. EodMsg(today).kind # "upd"
    BY DEF EodMsg
  <2> QED
    BY <1>2, <2>1, <2>2, FreshAppend
<1> QED
  BY <1>3, <1>4, <1>5, <1>6, <1>7, RdbSees

\* And what it holds, or is to hold, of a day that is closed stays before the end of that day.
LEMMA DayKept ==
    ASSUME SealInv, RdbInv, TpMove, UNCHANGED rdbVars, "rdb" \in Handles
    PROVE  RdbDayInv'
<1> SUFFICES ASSUME rdbFirst, "rdb" \in SubHandles', NEW e \in logged'
             PROVE  e.date <= today' /\ (OfItsDay(e) /\ e.date < today' => Leaving(chan'["rdb"], rdbRows, e))
  BY DEF RdbDayInv, rdbVars, OfItsDay, DateOf
<1>1. PICK q : q = chan["rdb"]
  OBVIOUS
<1>2. q \in Seq(LoggedMessage) /\ today \in Int /\ logged \subseteq [date : Int, row : Row]
  BY <1>1, RdbQueue DEF RdbInv, SealInv, TpInv
<1>3. ASSUME "rdb" \in SubHandles, e \in logged
      PROVE  /\ e.date \in Int /\ e.date <= today
             /\ OfItsDay(e) /\ e.date < today => Leaving(q, rdbRows, e)
  BY <1>1, <1>2, <1>3 DEF RdbInv, RdbDayInv
<1>4. CASE Unseen
  BY <1>1, <1>3, <1>4 DEF Unseen
<1>5. CASE GoneFor
  BY <1>5 DEF GoneFor
<1>6. CASE RowSeen
  <2>1. PICK r \in Row :
        /\ r \notin LoggedRows /\ SubHandles' = SubHandles /\ today' = today
        /\ logged' = logged \cup {[date |-> today, row |-> r]}
        /\ chan'["rdb"] = q \/ chan'["rdb"] = Append(q, UpdMsg(r))
    BY <1>1, <1>6 DEF RowSeen, SubHandles
  <2>2. CASE e = [date |-> today, row |-> r]
    BY <1>2, <2>1, <2>2
  <2>3. CASE e \in logged
    <3>1. e.row # r /\ UpdMsg(r).row = r
      BY <2>1, <2>3 DEF LoggedRows, UpdMsg
    <3>2. Leaving(q, rdbRows, e) => Leaving(Append(q, UpdMsg(r)), rdbRows, e)
      BY <1>2, <3>1, LeavingAppend
    <3> QED
      BY <1>3, <2>1, <2>3, <3>2
  <2> QED
    BY <2>1, <2>2, <2>3
<1>7. CASE WatermarkSeen
  <2>1. PICK wm : "rdb" \in SubHandles /\ logged' = logged /\ today' = today /\ chan'["rdb"] = Append(q, ShedMsg(wm))
    BY <1>1, <1>7 DEF WatermarkSeen
  <2>2. Leaving(q, rdbRows, e) => Leaving(Append(q, ShedMsg(wm)), rdbRows, e)
    <3>1. ShedMsg(wm).kind # "upd"
      BY DEF ShedMsg
    <3> QED
      BY <1>2, <3>1, LeavingAppend
  <2> QED
    BY <1>3, <2>1, <2>2
<1>8. CASE EndSeen
  <2>1. "rdb" \in SubHandles /\ logged' = logged /\ today' \in Int /\ today <= today' /\ chan'["rdb"] = Append(q, EodMsg(today))
    BY <1>1, <1>8 DEF EndSeen
  <2>2. e.date \in Int /\ e.date <= today
    BY <1>3, <2>1
  <2>3. Leaving(Append(q, EodMsg(today)), rdbRows, e)
    BY <1>2, <2>2, LeavingAnnounced
  <2>4. e.date <= today'
    BY <1>2, <2>1, <2>2
  <2> QED
    BY <2>1, <2>3, <2>4
<1> QED
  BY <1>4, <1>5, <1>6, <1>7, <1>8, RdbSees

\* Whatever the others do, the chained RDB's rows come from the log, fresh, and leave with their day.
LEMMA OthersKeep ==
    ASSUME SealInv, RdbInv, TpMove, UNCHANGED rdbVars,
           \A x \in buf' \cup scratch' :
              \/ x \in buf \cup scratch
              \/ Consume("wdb") /\ Head(chan["wdb"]).kind = "upd" /\ x = Head(chan["wdb"]).row
    PROVE  RdbInv'
<1>1. chan' \in [Handles -> Seq(LoggedMessage)]' /\ LoggedRows \subseteq LoggedRows'
  BY SourceKept DEF RdbInv
<1>2. ASSUME Consume("wdb"), Head(chan["wdb"]).kind = "upd" PROVE Head(chan["wdb"]).row \in LoggedRows
  <2>1. Head(chan["wdb"]) \in LoggedMessage
    BY <1>2, PathAssumption DEF RdbInv, SourceInv, Consume
  <2> QED
    BY <1>2, <2>1 DEF LoggedMessage
<1>3. SourceInv'
  BY <1>1, <1>2 DEF RdbInv, SourceInv, rdbVars
<1>4. ASSUME "rdb" \in Handles
      PROVE  /\ Fresh(chan["rdb"], rdbRows)'
             /\ (~rdbUp => "rdb" \notin SubHandles /\ chan["rdb"] = <<>>)'
  BY <1>4, FreshKept DEF rdbVars, Fresh
<1> QED
  BY <1>3, <1>4, DayKept DEF RdbInv, rdbVars

\* The end of a day takes every row of the day with it.
LEMMA EndTakesDay ==
    ASSUME NEW time \in Nat, NEW d \in Int, time >= Midnight(d + 1)
    PROVE  ~(d >= DateOf(time))
<1> SUFFICES ASSUME d >= DateOf(time) PROVE FALSE
  OBVIOUS
<1>1. DayLen \in Nat \ {0}
  BY DayLenAssumption
<1>2. /\ time \div DayLen \in Nat /\ time % DayLen \in 0 .. DayLen - 1
      /\ time = DayLen * (time \div DayLen) + (time % DayLen)
  BY <1>1, Division
<1>3. PICK k \in Nat : k = time \div DayLen
  BY <1>2
<1>4. d \in Nat /\ k <= d
  BY <1>3 DEF DateOf
<1>5. (k + 1) * DayLen <= (d + 1) * DayLen
  BY <1>1, <1>4, Monotone
<1>6. (k + 1) * DayLen = DayLen * k + DayLen
  BY <1>1
<1>7. time < DayLen * k + DayLen
  <2>1. DayLen * k \in Nat
    BY <1>1
  <2> QED
    BY <1>1, <1>2, <1>3, <2>1
<1>8. (d + 1) * DayLen \in Nat /\ (k + 1) * DayLen \in Nat
  BY <1>1, <1>4
<1> QED
  BY <1>5, <1>6, <1>7, <1>8 DEF Midnight

\* So they do when it reads a message.
LEMMA ReceiveKeeps ==
    ASSUME SealInv, RdbInv, RdbReceive
    PROVE  RdbInv'
<1>1. PICK q : q = chan["rdb"]
  OBVIOUS
<1>2. /\ "rdb" \in Handles /\ rdbUp /\ rdbConn = <<>> /\ q # <<>> /\ RdbHandle(Head(q))
      /\ UNCHANGED <<subs, logged, today, buf, scratch, rdbUp, rdbConn, rdbFirst>>
      /\ Consume("rdb") /\ chan' = [chan EXCEPT !["rdb"] = Tail(@)]
  BY <1>1 DEF RdbReceive, RdbInv, Consume, RdbHandle, RdbIdle, RdbUpd, RdbShedTo, RdbEod, RdbOnly, WdbSame,
              wdbVars, diskVars
<1>3. /\ chan'["rdb"] = Tail(q) /\ q \in Seq(LoggedMessage) /\ Fresh(q, rdbRows)
      /\ chan' \in [Handles -> Seq(LoggedMessage)]' /\ UNCHANGED <<LoggedRows, SubHandles>>
  <2>1. chan'["rdb"] = Tail(q)
    BY <1>1, <1>2 DEF SealInv, TpInv
  <2> QED
    BY <1>1, <1>2, <2>1, RdbQueue, SourceKept DEF RdbInv, LoggedRows, SubHandles
<1>4. Head(q) \in LoggedMessage
  BY <1>2, <1>3
<1>5. \A x \in rdbRows' : x \in rdbRows \/ (Head(q).kind = "upd" /\ x = Head(q).row)
  BY <1>2 DEF RdbHandle, RdbUpd, RdbShedTo, RdbEod
<1>6. Fresh(Tail(q), rdbRows')
  BY <1>2, <1>3, <1>5, FreshTail
<1>7. rdbRows' \subseteq LoggedRows'
  BY <1>3, <1>4, <1>5 DEF RdbInv, SourceInv, LoggedMessage
<1>8. RdbDayInv'
  <2> SUFFICES ASSUME rdbFirst, "rdb" \in SubHandles, NEW e \in logged
               PROVE  e.date <= today /\ (OfItsDay(e) /\ e.date < today => Leaving(chan'["rdb"], rdbRows', e))
    BY <1>2, <1>3 DEF RdbDayInv, OfItsDay, DateOf
  <2>1. e.date <= today /\ (OfItsDay(e) /\ e.date < today => Leaving(q, rdbRows, e))
    BY <1>1, <1>2 DEF RdbInv, RdbDayInv
  <2>2. ASSUME OfItsDay(e), Leaving(q, rdbRows, e) PROVE Leaving(Tail(q), rdbRows', e)
    <3>1. ASSUME e.row \in rdbRows', Head(q).kind = "eod" PROVE ~(Head(q).date >= e.date)
      <4>1. Head(q).date \in Int /\ rdbRows' = {r \in rdbRows : r.time >= Midnight(Head(q).date + 1)}
        BY <1>2, <1>4, <3>1 DEF LoggedMessage, RdbHandle, RdbEod, RdbShedTo
      <4>2. e.row.time \in Nat
        BY DEF SealInv, TpInv, Row
      <4> QED
        BY <2>2, <3>1, <4>1, <4>2, EndTakesDay DEF OfItsDay
    <3> QED
      BY <1>2, <1>3, <1>5, <2>2, <3>1, LeavingTail
  <2> QED
    BY <1>3, <2>1, <2>2
<1>9. SourceInv'
  BY <1>2, <1>3, <1>7 DEF RdbInv, SourceInv
<1>10. Fresh(chan["rdb"], rdbRows)'
  BY <1>3, <1>6 DEF Fresh
<1> QED
  BY <1>2, <1>8, <1>9, <1>10 DEF RdbInv

\* An empty queue has no row twice.
LEMMA FreshNone == ASSUME NEW R PROVE Fresh(<<>>, R)
BY DEF Fresh

\* The chained RDB comes, connects, subscribes and goes.
LEMMA RdbComesKeeps ==
    ASSUME SealInv, ReadersInv, RdbInv, RdbTick \/ RdbSubscribe \/ RdbDies \/ RdbStarts
    PROVE  RdbInv'
<1>0. "rdb" \in Handles /\ DOMAIN chan = Handles /\ Fresh(chan["rdb"], rdbRows)
  BY ShardAssumption DEF RdbInv, SealInv, TpInv, ReadersInv, RdbTick, RdbSubscribe, RdbSubDone, RdbDies, RdbCrash, RdbStarts
<1>1. UNCHANGED <<buf, scratch>>
  BY DEF RdbTick, RdbSubscribe, RdbDies, RdbStarts, RdbOnly, WdbSame, wdbVars, diskVars
<1>2. CASE RdbTick
  <2>1. /\ UNCHANGED <<chan, subs, logged, today, rdbUp, rdbRows>> /\ ~rdbFirst' /\ rdbUp
    BY <1>2 DEF RdbTick, RdbReconnect, TpSame, tpVars
  <2> QED
    BY <1>0, <1>1, <2>1 DEF RdbInv, SourceInv, RdbDayInv, LoggedMessage, LoggedRows, Fresh
<1>3. CASE RdbStarts
  <2>1. /\ UNCHANGED <<chan, subs, logged, today, rdbFirst>> /\ ~rdbUp /\ rdbUp'
        /\ rdbRows' \subseteq scratch
    BY <1>3 DEF RdbStarts, RdbStart, TpSame, tpVars
  <2>2. ~rdbFirst' /\ chan'["rdb"] = <<>>
    BY <1>0, <2>1 DEF RdbInv
  <2>3. Fresh(chan["rdb"], rdbRows)'
    BY <2>2 DEF Fresh
  <2> QED
    BY <1>0, <1>1, <2>1, <2>2, <2>3 DEF RdbInv, SourceInv, RdbDayInv, LoggedMessage, LoggedRows
<1>4. CASE RdbDies
  <2>1. Vanish("rdb") /\ ~rdbUp' /\ rdbRows' = {} /\ ~rdbFirst' /\ UNCHANGED <<logged, today>>
    BY <1>4 DEF RdbDies, RdbCrash, Vanish, PortClosed
  <2>2. chan'["rdb"] = <<>> /\ "rdb" \notin SubHandles'
    BY <1>0, <2>1 DEF Vanish, PortClosed, Unsubscribed, SubHandles
  <2>3. chan' \in [Handles -> Seq(LoggedMessage)]' /\ LoggedRows \subseteq LoggedRows'
    BY <1>0, <2>1, SourceKept DEF RdbInv
  <2>4. Fresh(chan["rdb"], rdbRows)'
    BY <2>2 DEF Fresh
  <2> QED
    BY <1>0, <1>1, <2>1, <2>2, <2>3, <2>4 DEF RdbInv, SourceInv, RdbDayInv
<1>5. CASE RdbSubscribe
  <2>1. /\ rdbUp /\ rdbConn # <<>> /\ UNCHANGED <<rdbUp, rdbRows, rdbFirst>> /\ ~rdbFirst
        /\ TrySub("rdb", Head(rdbConn)) /\ Head(rdbConn) \in Tables
    BY <1>0, <1>5 DEF RdbSubscribe, RdbSubDone, RdbInv, ReadersInv
  <2>2. CASE TpSame
    BY <1>0, <1>1, <2>1, <2>2 DEF RdbInv, SourceInv, RdbDayInv, LoggedMessage, LoggedRows, Fresh, TpSame, tpVars
  <2>3. CASE Sub("rdb", Head(rdbConn))
    <3>1. chan' \in [Handles -> Seq(LoggedMessage)]' /\ LoggedRows \subseteq LoggedRows'
      BY <1>0, <2>1, <2>3, SourceKept DEF RdbInv
    <3>2. chan'["rdb"] = chan["rdb"] \/ chan'["rdb"] = <<>>
      BY <1>0, <2>3 DEF Sub
    <3>3. Fresh(chan'["rdb"], rdbRows')
      BY <1>0, <2>1, <3>2, FreshNone
    <3>4. Fresh(chan["rdb"], rdbRows)'
      BY <3>3 DEF Fresh
    <3> QED
      BY <1>0, <1>1, <2>1, <3>1, <3>4 DEF RdbInv, SourceInv, RdbDayInv
  <2> QED
    BY <2>1, <2>2, <2>3 DEF TrySub
<1> QED
  BY <1>2, <1>3, <1>4, <1>5

\* It begins on its first connection, with nothing.
LEMMA InitRdbInv == Init => RdbInv
<1> SUFFICES ASSUME Init PROVE RdbInv
  OBVIOUS
<1>1. /\ chan = [h \in Handles |-> <<>>] /\ logged = {} /\ buf = {} /\ scratch = {} /\ rdbRows = {}
      /\ rdbUp = ("rdb" \in Readers) /\ rdbConn = <<>> /\ rdbFirst
  BY DEF Init, PathInit, TpInitWith, WdbInit, DiskInit, RdbInit
<1>2. "rdb" \in Handles <=> "rdb" \in Readers
  BY ShardAssumption
<1>3. chan \in [Handles -> Seq(LoggedMessage)]
  <2>1. <<>> \in Seq(LoggedMessage)
    OBVIOUS
  <2> QED
    BY <1>1, <2>1
<1> QED
  BY <1>1, <1>2, <1>3, FreshNone DEF RdbInv, SourceInv, RdbDayInv, Fresh

\* The invariant, step by step.
LEMMA StepRdbInv == ShardInv /\ RdbInv /\ [Next]_vars => RdbInv'
<1> SUFFICES ASSUME ShardInv, RdbInv, [Next]_vars PROVE RdbInv'
  OBVIOUS
<1> USE DEF ShardInv
<1>1. ASSUME [PathNext]_pathVars, UNCHANGED rdbVars PROVE RdbInv'
  BY <1>1, PathMoves, PathRows, OthersKeep
<1>2. CASE Write
  BY <1>1, <1>2 DEF Write, Alone, PathNext, readerVars
<1>3. CASE Reload
  <2>1. WdbReload
    BY <1>3 DEF Reload, WdbReload, NoReaderFault
  <2> QED
    BY <1>1, <1>3, <2>1 DEF PathNext, Reload, RdbSame
<1>4. CASE Drop
  BY <1>1, <1>4 DEF PathNext, Drop, RdbSame
<1>5. CASE RdbReceive
  BY <1>5, ReceiveKeeps
<1>6. CASE RdbTick \/ RdbSubscribe \/ RdbDies \/ RdbStarts
  BY <1>6, RdbComesKeeps
<1>7. CASE RdbCut
  <2>1. PortClosed("rdb") /\ "rdb" \in Handles
    BY <1>7 DEF RdbCut, PortClosed, SubHandles, SealInv, TpInv
  <2> QED
    BY <1>7, <2>1, OthersKeep DEF RdbCut, RdbSame, RdbOnly, WdbSame, wdbVars, diskVars, TpMove
<1>8. CASE IdbTick \/ IdbDies \/ IdbStarts
  BY <1>8, OthersKeep DEF IdbTick, IdbDies, IdbStarts, IdbOnly, TpSame, WdbSame, RdbSame, wdbVars, diskVars, TpMove
<1>9. CASE HdbTick \/ HdbDies
  BY <1>9, OthersKeep DEF HdbTick, HdbDies, HdbOnly, TpSame, RdbSame, wdbVars, TpMove
<1>10. CASE UNCHANGED vars
  BY <1>1, <1>10 DEF vars, readerVars
<1> QED
  BY <1>2, <1>3, <1>4, <1>5, <1>6, <1>7, <1>8, <1>9, <1>10 DEF Next

\* The chained RDB is sent no row that it has, whatever it is restarted or disconnected; and
\* as long as it is on its first connection, with no end of day on its way to it, it has no
\* row that was logged on a day that is over.
THEOREM RdbIsOfTheDay == Spec => []RdbHoldsTheDay
<1>1. ShardInv /\ RdbInv => RdbHoldsTheDay
  <2> SUFFICES ASSUME ShardInv, RdbInv, RdbIdle PROVE RdbHoldsTheDay
    BY DEF RdbHoldsTheDay, NoRowTwiceInRdb, RdbClearOfClosedDays
  <2> DEFINE q == chan["rdb"]
  <2>1. "rdb" \in Handles /\ Fresh(q, rdbRows) /\ RdbDayInv
    BY DEF RdbInv, RdbIdle
  <2>2. q \in Seq(LoggedMessage) /\ DOMAIN q = 1 .. Len(q)
    BY <2>1, RdbQueue DEF RdbInv, ShardInv
  <2>3. NoRowTwiceInRdb
    BY <2>1, <2>2 DEF NoRowTwiceInRdb, RowsIn, Fresh
  <2>4. ASSUME rdbFirst, "rdb" \in SubHandles, \A i \in 1 .. Len(q) : q[i].kind # "eod",
               NEW e \in logged, e.row \in rdbRows, DateOf(e.row.time) = e.date
        PROVE  e.date >= today
    <3>1. ~(e.date < today)
      BY <2>1, <2>2, <2>4 DEF RdbDayInv, OfItsDay, Leaving, Announced
    <3> QED
      BY <3>1 DEF ShardInv, SealInv, TpInv
  <2> QED
    BY <2>3, <2>4 DEF RdbHoldsTheDay, RdbClearOfClosedDays
<1> QED
  BY <1>1, InitShardInv, StepShardInv, InitRdbInv, StepRdbInv, PTL DEF Spec

-----------------------------------------------------------------------------
(* From the intraday to the historical database *)

\* The hypothesis: the write path is undisturbed, and the intraday database expires no date by age.
Unhurried == Undisturbed /\ (IdbTick => Expired(idbLoaded \cup ToLoad(now), now) = {})

\* Once a table's scratch file was retired, no other comes in its place while the day is being sealed.
NoFileBehind == \A r \in scratch : ~(DateOf(r.time) = Handled /\ 0 < StepsLeft /\ StepsLeft <= Turn(r.tbl) - 3)

\* A row of the intraday database is in a scratch file, or in a partition of the day that is
\* being sealed and has not been dropped yet; when it is dropped, the historical database serves it.
HandInv ==
    /\ NoFileBehind
    /\ \A r \in idbRows :
          \/ r \in scratch
          \/ r \in sealed /\ DateOf(r.time) = Handled /\ StepsLeft \in 2 .. Turn(r.tbl) - 3
    /\ StepsLeft = 2 /\ hdbUp => Handled \in hdbDates
    /\ ~idbUp => idbRows = {}

\* The steps that concern the readers, by the number of those that are left.
LEMMA ReaderSteps ==
    ASSUME SealInv, PlanInv, todo # <<>>
    PROVE  /\ Head(todo).op = "reload" <=> StepsLeft = 3
           /\ Head(todo).op = "drop" <=> StepsLeft = 2
           /\ StepsLeft = 2 => Head(todo).date = Handled
    <1>1. PICK n, d, s : n = StepsLeft /\ d = Handled /\ s = Head(todo)
        OBVIOUS
    <1>2. CASE Sealing
        <2>1. n \in 1 .. 10 /\ s = StepLeft(d, n)
            BY <1>1, <1>2, StepDue
        <2>2. n \in {1, 2, 3, 4, 5, 6, 7, 8, 9, 10}
            BY <2>1
        <2>3. CASE n \in {1, 2, 3, 4}
            BY <1>1, <2>1, <2>3, StepsNamed DEF WatermarkStep, ReloadStep, DropStep, SealedStep
        <2>4. CASE n \in {5, 6, 7, 8, 9, 10}
            <3>1. s.op \in {"clear", "splay", "retire"}
                BY <2>1, <2>4, StepsNamed
            <3> QED
                BY <1>1, <2>4, <3>1
        <2> QED
            BY <2>2, <2>3, <2>4
    <1>3. CASE ~Sealing
        <2>1. StepsLeft = 0 /\ Head(todo).op \in RoutineOp
            BY <1>3, PlanNow
        <2> QED
            BY <2>1 DEF RoutineOp
    <1> QED
        BY <1>2, <1>3

\* While a notification is due, nothing else of the plan happens.
LEMMA NotificationWaits ==
    ASSUME SealInv, PlanInv, Connected, Undisturbed, WriteStep, todo # <<>>, Head(todo).op \in {"reload", "drop"}
    PROVE  UNCHANGED <<todo, lastSealed>>
    <1>1. wdbUp /\ ~PortClosed("wdb") /\ ~TpRestart /\ ~Vanish("wdb")
        BY NothingLost
    <1>2. CASE TpStep
        BY <1>1, <1>2 DEF TpStep, Tick, Linger, Feed, TpTimer, ForceEnd, TpCrash, Cut, WdbSame, wdbVars, TpSame
    <1>3. CASE WdbReceive \/ WdbTick
        BY <1>1, <1>3 DEF WdbReceive, WdbHandle, WdbIdle, WdbTick, WdbTickWith, WdbTimer
    <1>4. CASE WdbOwnStep
        BY <1>4 DEF WdbOwnStep, WdbSubscribe, WdbFlushStep, WdbFlush, WdbAnnounce, WdbCatchUpStep, WdbCatchUp,
                    WdbClearStep, WdbClear, WdbSplayStep, WdbSplay, WdbRetireStep, WdbRetire, WdbSealedStep, WdbSealed,
                    WdbAt
    <1>5. CASE WdbAnnounceFails \/ WdbDies \/ WdbStarts
        BY <1>1, <1>5 DEF WdbAnnounceFails, WdbDies, WdbStarts, WdbStart
    <1> QED
        BY <1>2, <1>3, <1>4, <1>5 DEF WriteStep

\* Clearing a partition takes nothing: nothing has come into it yet.
LEMMA NothingCleared ==
    ASSUME SealInv, PlanInv, PlacesInv, NEW t \in Tables, Cleared(t)
    PROVE  sealed' = sealed
    <1>1. PICK h, n : h = Handled /\ n = StepsLeft
        OBVIOUS
    <1>2. h \in Int /\ n = Turn(t) /\ Held(h, n)
        BY <1>1, PlanNow DEF Cleared, PlacesInv
    <1>3. ~Past(h, n, h, t)
        BY <1>2 DEF Past, Turn, Tables
    <1>4. \A r \in sealed : ~(DateOf(r.time) = h /\ r.tbl = t)
        BY <1>2, <1>3 DEF Held
    <1> QED
        BY <1>1, <1>4, RowsOfDay DEF Cleared

\* The moves leave no file behind.
LEMMA NoneBehind ==
    ASSUME SealInv, PlanInv, NoFileBehind, DayMove
    PROVE  NoFileBehind'
    <1>1. PICK h, n, g, m : h = Handled /\ n = StepsLeft /\ g = Handled' /\ m = StepsLeft'
        OBVIOUS
    <1>2. /\ h \in Int /\ n \in 0 .. 10
          /\ \A r \in scratch : ~(DateOf(r.time) = h /\ 0 < n /\ n <= Turn(r.tbl) - 3)
        BY <1>1, PlanNow DEF NoFileBehind
    <1>3. \A r \in scratch' : ~(DateOf(r.time) = g /\ 0 < m /\ m <= Turn(r.tbl) - 3)
        <2>1. CASE RowsStay
            <3>1. g = h /\ scratch' = scratch /\ (m = n \/ (n \in 1 .. 4 /\ m = n - 1))
                BY <1>1, <2>1 DEF RowsStay
            <3>2. \A r : 0 < m /\ m <= Turn(r.tbl) - 3 => 0 < n /\ n <= Turn(r.tbl) - 3
                BY <1>2, <3>1 DEF Turn
            <3> QED
                BY <1>2, <3>1, <3>2
        <2>2. CASE RowBuffered \/ RowsFlushed
            <3>1. m = 0
                BY <1>1, <2>2 DEF RowBuffered, RowsFlushed
            <3> QED
                BY <3>1
        <2>3. CASE DayBegun
            <3>1. \A r : ~(10 <= Turn(r.tbl) - 3)
                BY DEF Turn
            <3> QED
                BY <1>1, <2>3, <3>1 DEF DayBegun
        <2>4. ASSUME NEW t \in Tables, Cleared(t) \/ Splayed(t)
              PROVE  \A r \in scratch' : ~(DateOf(r.time) = g /\ 0 < m /\ m <= Turn(r.tbl) - 3)
            <3>1. g = h /\ scratch' = scratch /\ ((n = Turn(t) /\ m = n - 1) \/ (n = Turn(t) - 1 /\ m = n - 1))
                BY <1>1, <2>4 DEF Cleared, Splayed, Turn
            <3>2. \A r : 0 < m /\ m <= Turn(r.tbl) - 3 => 0 < n /\ n <= Turn(r.tbl) - 3
                BY <3>1 DEF Turn, Tables
            <3> QED
                BY <1>2, <3>1, <3>2
        <2>5. ASSUME NEW t \in Tables, Retired(t)
              PROVE  \A r \in scratch' : ~(DateOf(r.time) = g /\ 0 < m /\ m <= Turn(r.tbl) - 3)
            <3>1. g = h /\ n = Turn(t) - 2 /\ m = Turn(t) - 3
                BY <1>1, <2>5 DEF Retired
            <3>2. \A r \in scratch' : r \in scratch /\ ~(DateOf(r.time) = h /\ r.tbl = t)
                BY <1>1, <2>5, RowsOfDay DEF Retired
            <3>3. \A r \in scratch' : r.tbl \in Tables
                BY <3>2, RowDates
            <3>4. ASSUME NEW u \in Tables, u # t, m <= Turn(u) - 3 PROVE 0 < n /\ n <= Turn(u) - 3
                BY <3>1, <3>4 DEF Turn, Tables
            <3> QED
                BY <1>2, <3>1, <3>2, <3>3, <3>4
        <2> QED
            BY <2>1, <2>2, <2>3, <2>4, <2>5 DEF DayMove
    <1> QED
        BY <1>1, <1>3 DEF NoFileBehind

\* Nor do they take a row away that the intraday database still serves.
LEMMA StillServed ==
    ASSUME SealInv, PlanInv, PlacesInv, DayMove, StepsLeft \in {2, 3} => StepsLeft' = StepsLeft,
           NEW r, r \in scratch \/ (r \in sealed /\ DateOf(r.time) = Handled /\ StepsLeft \in 2 .. Turn(r.tbl) - 3)
    PROVE  (r \in scratch \/ (r \in sealed /\ DateOf(r.time) = Handled /\ StepsLeft \in 2 .. Turn(r.tbl) - 3))'
    <1>1. PICK h, n, g, m : h = Handled /\ n = StepsLeft /\ g = Handled' /\ m = StepsLeft'
        OBVIOUS
    <1>2. h \in Int /\ n \in 0 .. 10 /\ Held(h, n) /\ (n \in {2, 3} => m = n)
        BY <1>1, PlanNow DEF PlacesInv
    <1>3. r \in scratch \/ (r \in sealed /\ DateOf(r.time) = h /\ n \in 2 .. Turn(r.tbl) - 3)
        BY <1>1
    <1>4. r \in scratch' \/ (r \in sealed' /\ DateOf(r.time) = g /\ m \in 2 .. Turn(r.tbl) - 3)
        <2>1. CASE RowsStay
            <3>1. g = h /\ scratch' = scratch /\ sealed' = sealed /\ (m = n \/ (n \in 1 .. 4 /\ m = n - 1))
                BY <1>1, <2>1 DEF RowsStay
            <3>2. n \in 2 .. Turn(r.tbl) - 3 => m \in 2 .. Turn(r.tbl) - 3
                BY <1>2, <3>1 DEF Turn
            <3> QED
                BY <1>3, <3>1, <3>2
        <2>2. CASE RowBuffered \/ RowsFlushed \/ DayBegun
            <3>1. n = 0 /\ scratch \subseteq scratch'
                BY <1>1, <2>2 DEF RowBuffered, RowsFlushed, DayBegun, FlushTo
            <3> QED
                BY <1>3, <3>1 DEF Turn
        <2>3. ASSUME NEW t \in Tables, Cleared(t) \/ Splayed(t)
              PROVE  r \in scratch' \/ (r \in sealed' /\ DateOf(r.time) = g /\ m \in 2 .. Turn(r.tbl) - 3)
            <3>1. g = h /\ scratch' = scratch /\ ((n = Turn(t) /\ m = n - 1) \/ (n = Turn(t) - 1 /\ m = n - 1))
                BY <1>1, <2>3 DEF Cleared, Splayed, Turn
            <3>2. n \in 2 .. Turn(r.tbl) - 3 => m \in 2 .. Turn(r.tbl) - 3
                BY <3>1 DEF Turn, Tables
            <3>3. sealed \subseteq sealed'
                BY <2>3, NothingCleared DEF Splayed
            <3> QED
                BY <1>3, <3>1, <3>2, <3>3
        <2>4. ASSUME NEW t \in Tables, Retired(t)
              PROVE  r \in scratch' \/ (r \in sealed' /\ DateOf(r.time) = g /\ m \in 2 .. Turn(r.tbl) - 3)
            <3>1. g = h /\ n = Turn(t) - 2 /\ m = Turn(t) - 3 /\ sealed' = sealed
                BY <1>1, <2>4 DEF Retired
            <3>2. r \in scratch' <=> r \in scratch /\ ~(DateOf(r.time) = h /\ r.tbl = t)
                BY <1>1, <2>4, RowsOfDay DEF Retired
            <3>3. CASE r \in scratch /\ DateOf(r.time) = h /\ r.tbl = t
                <4>1. r \in sealed
                    BY <1>2, <3>1, <3>3 DEF Held, Retiring
                <4>2. m \in 2 .. Turn(r.tbl) - 3
                    BY <3>1, <3>3 DEF Turn, Tables
                <4> QED
                    BY <3>1, <3>3, <4>1, <4>2
            <3>4. CASE n \in 2 .. Turn(r.tbl) - 3
                <4>1. m \in 2 .. Turn(r.tbl) - 3
                    BY <3>1, <3>4 DEF Turn, Tables
                <4> QED
                    BY <1>3, <3>1, <3>2, <3>3, <4>1
            <3> QED
                BY <1>3, <3>2, <3>3, <3>4
        <2> QED
            BY <2>1, <2>2, <2>3, <2>4 DEF DayMove
    <1> QED
        BY <1>1, <1>4

\* The readers keep what is said of the days.
LEMMA ShardDays ==
    ASSUME HdbRetention = 0, ShardInv, ShardInv', DayInv, [Next]_vars, [Unhurried]_vars
    PROVE  DayInv'
    <1> USE DEF ShardInv
    <1>1. CASE UNCHANGED vars
        BY <1>1, StepDayInv DEF vars
    <1>2. CASE (Write \/ Reload \/ Drop) /\ Unhurried
        <2>1. PathNext
            BY <1>2 DEF Write, Alone, Reload, WdbReload, NoReaderFault, Drop, PathNext
        <2> QED
            BY <1>2, <2>1, StepDayInv DEF Unhurried
    <1>3. CASE ReaderStep /\ Unhurried
        <2>1. UNCHANGED <<wdbVars, scratch, splays, sealed>>
            BY <1>3, ReaderEnv, ReaderDisk
        <2>2. UNCHANGED W!tpVars
            BY <1>3, OtherConnection DEF SealInv
        <2>3. UNCHANGED <<Inbox, today, logged>>
            <3>1. [h \in {"wdb"} |-> chan'[h]] = [h \in {"wdb"} |-> chan[h]] /\ UNCHANGED <<today, logged>>
                BY <2>2 DEF W!tpVars
            <3>2. [h \in {"wdb"} |-> chan'[h]]["wdb"] = [h \in {"wdb"} |-> chan[h]]["wdb"]
                BY <3>1
            <3> QED
                BY <3>1, <3>2 DEF Inbox
        <2>4. Connected'
            BY <1>3, <2>1 DEF DayInv, Connected, Unhurried, Undisturbed, wdbVars
        <2> QED
            BY <2>1, <2>3, <2>4, DayStays DEF wdbVars
    <1> QED
        BY <1>1, <1>2, <1>3 DEF Next, ReaderStep

\* A step of the write path that no reader takes part in.
LEMMA WriteHands ==
    ASSUME SealInv, SealInv', DayInv, HandInv, WriteStep, Undisturbed, UNCHANGED <<idbVars, hdbVars>>
    PROVE  HandInv'
    <1>1. DayMove /\ PlanInv /\ PlacesInv
        BY PlanMoves DEF DayInv, PathNext
    <1>2. StepsLeft \in {2, 3} => UNCHANGED <<Handled, StepsLeft>>
        <2> SUFFICES ASSUME StepsLeft \in {2, 3} PROVE UNCHANGED <<Handled, StepsLeft>>
            OBVIOUS
        <2>1. todo # <<>>
            BY <1>1, PlanNow DEF Sealing
        <2>2. Head(todo).op \in {"reload", "drop"}
            BY <1>1, <2>1, ReaderSteps
        <2>3. UNCHANGED <<todo, lastSealed>>
            BY <1>1, <2>1, <2>2, NotificationWaits DEF DayInv
        <2> QED
            BY <2>3 DEF Handled, StepsLeft, Sealing
    <1>3. NoFileBehind'
        BY <1>1, NoneBehind DEF HandInv
    <1>4. ASSUME NEW r \in idbRows'
          PROVE  (r \in scratch \/ (r \in sealed /\ DateOf(r.time) = Handled /\ StepsLeft \in 2 .. Turn(r.tbl) - 3))'
        <2>1. r \in scratch \/ (r \in sealed /\ DateOf(r.time) = Handled /\ StepsLeft \in 2 .. Turn(r.tbl) - 3)
            BY <1>4 DEF HandInv, idbVars
        <2>2. StepsLeft \in {2, 3} => StepsLeft' = StepsLeft
            BY <1>2
        <2> QED
            BY <1>1, <2>1, <2>2, StillServed
    <1>5. StepsLeft' = 2 => StepsLeft = 2 /\ Handled' = Handled
        <2>1. CASE RowsStay
            BY <1>2, <2>1 DEF RowsStay
        <2>2. CASE ~RowsStay
            <3>1. StepsLeft' # 2
                BY <1>1, <2>2 DEF DayMove, RowBuffered, RowsFlushed, DayBegun, Cleared, Splayed, Retired, Turn
            <3> QED
                BY <3>1
        <2> QED
            BY <2>1, <2>2
    <1> QED
        BY <1>3, <1>4, <1>5 DEF HandInv, idbVars, hdbVars

\* The historical database is told before the intraday database.
LEMMA ReloadHands ==
    ASSUME SealInv, DayInv, HandInv, Reload
    PROVE  HandInv' /\ UNCHANGED idbVars
    <1>1. PlanInv /\ PartitionsInv /\ todo # <<>> /\ Head(todo).op = "reload"
        BY DEF DayInv, Reload, WdbAt
    <1>2. StepsLeft = 3 /\ Sealing
        BY <1>1, ReaderSteps, StepDue
    <1>3. Handled' = Handled /\ StepsLeft' = 2
        BY <1>1, <1>2, SealGoesOn DEF Reload, WdbStepDone
    <1>4. UNCHANGED <<scratch, sealed, splays, idbVars>>
        BY DEF Reload, WdbStepDone, diskVars, IdbSame
    <1>5. NoFileBehind'
        <2>1. \A r : 0 < 3 /\ 3 <= Turn(r.tbl) - 3
            BY DEF Turn
        <2> QED
            BY <1>2, <1>3, <1>4, <2>1 DEF HandInv, NoFileBehind
    <1>6. \A r : 2 \in 2 .. Turn(r.tbl) - 3
        BY DEF Turn
    <1>7. hdbUp' => Handled \in hdbDates'
        <2> SUFFICES ASSUME hdbUp' PROVE Handled \in hdbDates'
            OBVIOUS
        <2>1. hdbUp
            BY DEF Reload, HdbSame, hdbVars
        <2>2. hdbDates' = DatesOf(splays)
            BY <2>1 DEF Reload, HdbReload
        <2>3. [date |-> Handled, tbl |-> "trade"] \in splays
            <3>1. "trade" \in Tables /\ 3 <= Turn("trade") - 2
                BY DEF Tables, Turn
            <3> QED
                BY <1>1, <1>2, <3>1 DEF PartitionsInv, Parts
        <2>4. [date |-> Handled, tbl |-> "trade"].date \in DatesOf(splays)
            BY <2>3 DEF DatesOf
        <2> QED
            BY <2>2, <2>4
    <1> QED
        BY <1>2, <1>3, <1>4, <1>5, <1>6, <1>7 DEF HandInv, idbVars

\* Then the intraday database drops the date, which the other then serves.
LEMMA DropHands ==
    ASSUME SealInv, DayInv, HandInv, Drop
    PROVE  /\ HandInv' /\ UNCHANGED hdbVars /\ UNCHANGED <<sealed, idbUp>>
           /\ idbUp => \A r \in idbRows \ idbRows' : r \in sealed /\ (hdbUp => DateOf(r.time) \in hdbDates)
    <1>1. PlanInv /\ todo # <<>> /\ Head(todo).op = "drop"
        BY DEF DayInv, Drop, WdbDrop, WdbAt
    <1>2. StepsLeft = 2 /\ Sealing /\ Head(todo).date = Handled
        BY <1>1, ReaderSteps, StepDue
    <1>3. Handled' = Handled /\ StepsLeft' = 1
        BY <1>1, <1>2, SealGoesOn DEF Drop, WdbDrop, WdbStepDone
    <1>4. UNCHANGED <<scratch, sealed, splays, hdbVars, idbUp>>
        BY DEF Drop, WdbDrop, WdbStepDone, diskVars, HdbSame, IdbSame, idbVars, IdbDropDate
    <1>5. idbRows' = {r \in idbRows : DateOf(r.time) # Handled} \/ (~idbUp /\ idbRows' = idbRows)
        BY <1>2 DEF Drop, IdbDropDate, WithoutDates, IdbSame, idbVars
    <1>6. \A r \in scratch : DateOf(r.time) # Handled
        <2>1. \A r : 0 < 2 /\ 2 <= Turn(r.tbl) - 3
            BY DEF Turn
        <2> QED
            BY <1>2, <2>1 DEF HandInv, NoFileBehind
    <1>7. NoFileBehind'
        BY <1>3, <1>4, <1>6 DEF NoFileBehind
    <1>8. \A r \in idbRows' : r \in scratch
        BY <1>5 DEF HandInv
    <1>9. \A r \in idbRows : DateOf(r.time) = Handled => r \in sealed
        BY <1>6 DEF HandInv
    <1>10. hdbUp => Handled \in hdbDates
        BY <1>2 DEF HandInv
    <1>11. HandInv'
        BY <1>3, <1>4, <1>5, <1>7, <1>8 DEF HandInv, hdbVars
    <1> QED
        BY <1>4, <1>5, <1>9, <1>10, <1>11

\* The intraday database looks at the scratch directory: what it has and what it finds it serves.
LEMMA PollHands ==
    ASSUME SealInv, DayInv, HandInv, IdbTimer(now), Expired(idbLoaded \cup ToLoad(now), now) = {}
    PROVE  /\ \A r \in idbRows' : r \in idbRows \/ r \in scratch
           /\ idbRows \subseteq idbRows'
    <1> DEFINE read == {r \in scratch : FileOf(r) \in ToLoad(now)}
               kept == {r \in idbRows : ~(FileOf(r) \in ToLoad(now) /\ DateOf(r.time) = DateOf(now))}
    <1>1. idbRows' = kept \cup read
        BY DEF IdbTimer, RowsAfter, WithoutDates
    <1>2. ASSUME NEW r \in idbRows, r \notin kept PROVE r \in read
        <2>1. FileOf(r) \in ToLoad(now) /\ FileOf(r) \in ScratchFiles
            BY <1>2 DEF ToLoad
        <2>2. r \in scratch
            <3> SUFFICES ASSUME r \notin scratch PROVE FALSE
                OBVIOUS
            <3>1. r \in sealed /\ DateOf(r.time) = Handled /\ StepsLeft \in 2 .. Turn(r.tbl) - 3
                BY DEF HandInv
            <3>2. PICK o \in scratch : FileOf(o) = FileOf(r)
                BY <2>1 DEF ScratchFiles
            <3>3. DateOf(o.time) = DateOf(r.time) /\ o.tbl = r.tbl
                BY <3>2 DEF FileOf
            <3> QED
                BY <3>1, <3>2, <3>3 DEF HandInv, NoFileBehind, Turn
        <2> QED
            BY <2>1, <2>2
    <1> QED
        BY <1>1, <1>2

\* A step of a reader: the partition the intraday database's rows are in stays where it is.
LEMMA ReaderHands ==
    ASSUME HdbRetention = 0, SealInv, DayInv, HandInv, ReaderStep, Unhurried
    PROVE  /\ HandInv'
           /\ idbUp /\ idbUp' => idbRows \subseteq idbRows'
    <1>1. UNCHANGED <<todo, lastSealed, scratch, sealed, splays, now>>
        BY ReaderEnv, ReaderDisk DEF wdbVars
    <1>2. UNCHANGED <<Handled, StepsLeft>>
        BY <1>1 DEF Handled, StepsLeft, Sealing
    <1>3. NoFileBehind'
        BY <1>1, <1>2 DEF HandInv, NoFileBehind
    <1>4. /\ \A r \in idbRows' : r \in idbRows \/ r \in scratch
          /\ idbUp /\ idbUp' => idbRows \subseteq idbRows'
          /\ ~idbUp' => idbRows' = {}
        <2>1. CASE IdbTick
            <3>1. IdbTimer(now) /\ Expired(idbLoaded \cup ToLoad(now), now) = {}
                BY <2>1 DEF IdbTick, Unhurried
            <3>2. idbUp'
                BY <3>1 DEF IdbTimer
            <3> QED
                BY <3>1, <3>2, PollHands
        <2>2. CASE IdbDies
            BY <2>2 DEF IdbDies, IdbCrash
        <2>3. CASE ~IdbTick /\ ~IdbDies
            <3>1. idbRows' = idbRows /\ (idbUp' = idbUp \/ idbUp')
                BY <2>3 DEF ReaderStep, IdbStarts, IdbStart, RdbReceive, RdbTick, RdbSubscribe, RdbCut, RdbDies,
                            RdbStarts, HdbTick, HdbDies, RdbOnly, HdbOnly, IdbSame, idbVars
            <3> QED
                BY <3>1 DEF HandInv
        <2> QED
            BY <2>1, <2>2, <2>3
    <1>5. StepsLeft' = 2 /\ hdbUp' => Handled' \in hdbDates'
        <2> SUFFICES ASSUME StepsLeft = 2, hdbUp' PROVE Handled \in hdbDates'
            BY <1>2
        <2>1. CASE HdbTick
            <3>1. hdbDates' = DatesOf(splays)
                BY <1>1, <2>1 DEF HdbTick, HdbTimer
            <3>2. [date |-> Handled, tbl |-> "trade"] \in splays
                <4>1. "trade" \in Tables /\ 2 <= Turn("trade") - 2
                    BY DEF Tables, Turn
                <4> QED
                    BY <4>1 DEF DayInv, PartitionsInv, Parts
            <3>3. [date |-> Handled, tbl |-> "trade"].date \in DatesOf(splays)
                BY <3>2 DEF DatesOf
            <3> QED
                BY <3>1, <3>3
        <2>2. CASE ~HdbTick
            <3>1. hdbUp /\ hdbDates' = hdbDates
                BY <2>2 DEF ReaderStep, IdbStarts, IdbTick, IdbDies, RdbReceive, RdbTick, RdbSubscribe, RdbCut, RdbDies,
                            RdbStarts, HdbDies, HdbCrash, RdbOnly, IdbOnly, HdbSame, hdbVars
            <3> QED
                BY <3>1 DEF HandInv
        <2> QED
            BY <2>1, <2>2
    <1>6. ASSUME NEW r \in idbRows'
          PROVE  (r \in scratch \/ (r \in sealed /\ DateOf(r.time) = Handled /\ StepsLeft \in 2 .. Turn(r.tbl) - 3))'
        <2>1. r \in scratch \/ (r \in sealed /\ DateOf(r.time) = Handled /\ StepsLeft \in 2 .. Turn(r.tbl) - 3)
            BY <1>4, <1>6 DEF HandInv
        <2> QED
            BY <1>1, <1>2, <2>1
    <1> QED
        BY <1>3, <1>4, <1>5, <1>6 DEF HandInv

\* Nothing is on the way from one to the other at first.
LEMMA InitHand == Init => DayInv /\ HandInv
    <1> SUFFICES ASSUME Init PROVE DayInv /\ HandInv
        OBVIOUS
    <1>1. DayInv
        BY InitDayInv DEF Init
    <1>2. scratch = {} /\ idbRows = {} /\ todo = <<>>
        BY DEF Init, PathInit, DiskInit, WdbInit, IdbInit
    <1>3. StepsLeft = 0
        BY <1>2 DEF StepsLeft, Sealing
    <1> QED
        BY <1>1, <1>2, <1>3 DEF HandInv, NoFileBehind

\* What a step of the shard does to the intraday database's rows.
LEMMA StepHand ==
    ASSUME HdbRetention = 0, ShardInv, ShardInv', DayInv, HandInv, [Next]_vars, [Unhurried]_vars
    PROVE  /\ HandInv'
           /\ idbUp /\ idbUp' => \A r \in idbRows \ idbRows' :
                 r \in sealed' /\ (hdbUp' => DateOf(r.time) \in hdbDates')
    <1> USE DEF ShardInv
    <1>1. CASE UNCHANGED vars
        <2>1. UNCHANGED <<todo, lastSealed, scratch, sealed, idbUp, idbRows, hdbUp, hdbDates>>
            BY <1>1 DEF vars, pathVars, wdbVars, diskVars, readerVars, idbVars, hdbVars
        <2>2. UNCHANGED <<Handled, StepsLeft>>
            BY <2>1 DEF Handled, StepsLeft, Sealing
        <2> QED
            BY <2>1, <2>2 DEF HandInv, NoFileBehind
    <1>2. CASE Write /\ Unhurried
        <2>1. WriteStep /\ UNCHANGED <<idbVars, hdbVars>> /\ Undisturbed
            BY <1>2 DEF Write, Alone, readerVars, Unhurried
        <2> QED
            BY <2>1, WriteHands DEF idbVars
    <1>3. CASE Reload
        BY <1>3, ReloadHands DEF idbVars
    <1>4. CASE Drop
        BY <1>4, DropHands DEF hdbVars
    <1>5. CASE ReaderStep /\ Unhurried
        BY <1>5, ReaderHands
    <1> QED
        BY <1>1, <1>2, <1>3, <1>4, <1>5 DEF Next, ReaderStep

\* .wdb.seal tells the historical database before it tells the intraday database to drop the date,
\* and idb.q drops nothing else: with the write path undisturbed, no date old enough to be evicted and no
\* purging, a row that it gives up is in a partition, which hdb.q, if it is running, serves.
THEOREM HandedOver ==
    ASSUME HdbRetention = 0
    PROVE  Spec /\ [][Unhurried]_vars => HandedOverToHdb
    <1>1. ShardInv /\ ShardInv' /\ DayInv /\ [Next]_vars /\ [Unhurried]_vars => DayInv'
        BY ShardDays
    <1>2. ShardInv /\ ShardInv' /\ DayInv /\ HandInv /\ [Next]_vars /\ [Unhurried]_vars
            => /\ HandInv'
               /\ [idbUp /\ idbUp' => \A r \in idbRows \ idbRows' :
                     /\ r \in sealed'
                     /\ hdbUp' => DateOf(r.time) \in hdbDates']_vars
        BY StepHand
    <1> QED
        BY <1>1, <1>2, InitShardInv, StepShardInv, InitHand, PTL DEF Spec, HandedOverToHdb

=============================================================================
