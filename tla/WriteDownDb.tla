---------------------------- MODULE WriteDownDb ----------------------------
(***************************************************************************)
(* The write-down database of one shard, data-plane/q/wdb.q.               *)
(*                                                                         *)
(* It buffers what the tickerplant sends, appends old rows to the scratch  *)
(* file of their date and table, and at the end of the day seals the       *)
(* scratch files of a date into partitions of the historical database.     *)
(*                                                                         *)
(* The process is single threaded, but a crash may fall between any two of *)
(* its effects on the disk, and the processes it talks to go on while it   *)
(* works.  A handler that has several such effects therefore leaves the    *)
(* rest of its work in todo: until todo is empty no other handler starts.  *)
(***************************************************************************)
EXTENDS ShardDisk, FiniteSetsExt

CONSTANTS
    FlushIntv,      \* -flushmin
    RetentionArg,   \* -retentionmin
    CatchUpIntv     \* the 0D00:10 between two catch-up checks

ASSUME WdbAssumption == FlushIntv \in Nat /\ RetentionArg \in Nat /\ CatchUpIntv \in Nat

\* A retention shorter than the flush interval is refused at startup.
RetentionIntv == IF RetentionArg < FlushIntv THEN FlushIntv ELSE RetentionArg

VARIABLES
    wdbUp,       \* is the process running
    buf,         \* the rows of the in-memory tables
    todo,        \* the steps left of the handler that is running
    lastFlush,   \* .wdb.lastFlushTime
    lastCatchUp, \* .wdb.lastCatchUpCheck
    lastSealed   \* .wdb.lastSealedDate

wdbVars == <<wdbUp, buf, todo, lastFlush, lastCatchUp, lastSealed>>

-----------------------------------------------------------------------------
(* The steps of the handlers *)

SubStep(t) == [op |-> "sub", tbl |-> t]
FlushStep == [op |-> "flush"]
WatermarkStep(wm) == [op |-> "watermark", wm |-> wm]
CatchUpStep == [op |-> "catchup"]
ReloadStep == [op |-> "reload"]
DropStep(d) == [op |-> "drop", date |-> d]
SealedStep(d) == [op |-> "sealed", date |-> d]

\* Variant: the scratch file is kept.
SealFileStepsKeeping(f) == <<[op |-> "clear", file |-> f], [op |-> "splay", file |-> f]>>

\* Variant: the scratch file is deleted before the partition is written.
SealFileStepsRetireFirst(f) == <<[op |-> "clear", file |-> f],
                                 [op |-> "retire", file |-> f],
                                 [op |-> "splay", file |-> f]>>

SealFileSteps(f) == <<[op |-> "clear", file |-> f],
                      [op |-> "splay", file |-> f],
                      [op |-> "retire", file |-> f]>>

\* Variant: a table without scratch rows gets no partition.
SealStepsSparse(d) ==
    LET trade == [date |-> d, tbl |-> "trade"]
        risk == [date |-> d, tbl |-> "risk"]
    IN  (IF RowsOf(scratch', trade) = {} THEN <<>> ELSE SealFileSteps(trade))
          \o (IF RowsOf(scratch', risk) = {} THEN <<>> ELSE SealFileSteps(risk))

\* .wdb.seal: each of trade and risk is cleared, splayed and retired in turn.
SealSteps(d) == SealFileSteps([date |-> d, tbl |-> "trade"])
                  \o SealFileSteps([date |-> d, tbl |-> "risk"])

\* .wdb.connectTp subscribes to trade, then to risk.
ConnectSteps == <<SubStep("trade"), SubStep("risk")>>

WdbIdle == wdbUp /\ todo = <<>>

\* The process is at step op of a handler.
WdbAt(op) == wdbUp /\ todo # <<>> /\ Head(todo).op = op

-----------------------------------------------------------------------------
(* Reading the scratch directory *)

\* .wdb.hasScratch, for every date directory at once.
ScratchDates == {f.date : f \in ScratchFiles}

\* Variant: the day in progress counts as left behind.
BacklogWithToday(today) == {d \in ScratchDates : d <= today}

\* Variant: yesterday is not looked at.
BacklogFromYesterday(today) == {d \in ScratchDates : d < today - 1}

\* The dates .wdb.catchUpSeals finds left behind.
Backlog(today) == {d \in ScratchDates : d < today}

-----------------------------------------------------------------------------
\* Started at time t and connected, with nothing on disk.
WdbInit(t) ==
    /\ wdbUp = TRUE
    /\ buf = {}
    /\ todo = <<>>
    /\ lastFlush = t
    /\ lastCatchUp = t
    /\ lastSealed = NoDate

\* The script is loaded: connect, then look for backlogged dates.
WdbStart(t) ==
    /\ ~wdbUp
    /\ wdbUp' = TRUE
    /\ todo' = ConnectSteps \o <<CatchUpStep>>
    /\ lastFlush' = t
    /\ lastCatchUp' = t
    /\ lastSealed' = NoDate
    /\ UNCHANGED <<buf, diskVars>>

\* The process dies, at any point of a handler; only the disk survives.
WdbCrash ==
    /\ wdbUp
    /\ wdbUp' = FALSE
    /\ buf' = {}
    /\ todo' = <<>>
    /\ lastFlush' = NoTime
    /\ lastCatchUp' = NoTime
    /\ lastSealed' = NoDate
    /\ UNCHANGED diskVars

\* .wdb.upd
WdbUpd(r) ==
    /\ buf' = buf \cup {r}
    /\ UNCHANGED <<wdbUp, todo, lastFlush, lastCatchUp, lastSealed, diskVars>>

\* Variant: a flush overwrites the scratch files it writes to.
FlushToOverwriting(cutoff) ==
    LET old == {r \in buf : r.time < cutoff}
    IN  /\ scratch' = old \cup {r \in scratch : FileOf(r) \notin {FileOf(o) : o \in old}}
        /\ buf' = buf \ old

\* .wdb.flushTo: move the rows before the cutoff to the scratch files of their dates.
FlushTo(cutoff) ==
    LET old == {r \in buf : r.time < cutoff}
    IN  /\ scratch' = scratch \cup old
        /\ buf' = buf \ old

\* Variant: nothing is flushed before the seal.
WdbEodUnflushed(d) ==
    /\ todo' = SealSteps(d)
                 \o <<WatermarkStep(Midnight(d + 1)), ReloadStep, DropStep(d), SealedStep(d)>>
    /\ UNCHANGED <<wdbUp, buf, lastFlush, lastCatchUp, lastSealed, diskVars>>

\* Variant: the intraday database is told before the historical one.
WdbEodDropFirst(d) ==
    /\ FlushTo(Midnight(d + 1))
    /\ todo' = SealSteps(d)
                 \o <<WatermarkStep(Midnight(d + 1)), DropStep(d), ReloadStep, SealedStep(d)>>
    /\ UNCHANGED <<wdbUp, lastFlush, lastCatchUp, lastSealed, splays, sealed>>

\* .wdb.eod: flush what is left of day d, seal it, push the watermark past it and
\* tell the historical and the intraday database.
WdbEod(d) ==
    /\ FlushTo(Midnight(d + 1))
    /\ todo' = SealSteps(d)
                 \o <<WatermarkStep(Midnight(d + 1)), ReloadStep, DropStep(d), SealedStep(d)>>
    /\ UNCHANGED <<wdbUp, lastFlush, lastCatchUp, lastSealed, splays, sealed>>

\* What a message from the tickerplant makes the process do; .wdb.shedTo is empty.
WdbHandle(m) ==
    /\ WdbIdle
    /\ \/ m.kind = "upd" /\ WdbUpd(m.row)
       \/ m.kind = "shed" /\ UNCHANGED <<wdbVars, diskVars>>
       \/ m.kind = "eod" /\ WdbEod(m.date)

FlushDue(t) == t - lastFlush > FlushIntv
CatchUpDue(t) == t - lastCatchUp > CatchUpIntv

\* .z.ts at time t: reconnect if the connection is lost and the backoff is over
\* (connect), then flush and look for backlogged dates if their time has come.
WdbTimer(t, connect) ==
    /\ WdbIdle
    /\ connect \/ FlushDue(t) \/ CatchUpDue(t)
    /\ todo' = (IF connect THEN ConnectSteps ELSE <<>>)
                 \o (IF FlushDue(t) THEN <<FlushStep>> ELSE <<>>)
                 \o (IF CatchUpDue(t) THEN <<CatchUpStep>> ELSE <<>>)
    /\ lastFlush' = IF FlushDue(t) THEN t ELSE lastFlush
    /\ lastCatchUp' = IF CatchUpDue(t) THEN t ELSE lastCatchUp
    /\ UNCHANGED <<wdbUp, buf, lastSealed, diskVars>>

-----------------------------------------------------------------------------
(* The steps, one by one *)

\* A step whose effects are all on other processes.
WdbStepDone ==
    /\ todo' = Tail(todo)
    /\ UNCHANGED <<wdbUp, buf, lastFlush, lastCatchUp, lastSealed, diskVars>>

\* .wdb.flush: the rows older than the flush interval go to disk; the chained RDB
\* will be told to shed the rows older than the retention interval.
WdbFlush(t) ==
    /\ WdbAt("flush")
    /\ FlushTo(t - FlushIntv)
    /\ todo' = <<WatermarkStep(t - RetentionIntv)>> \o Tail(todo)
    /\ UNCHANGED <<wdbUp, lastFlush, lastCatchUp, lastSealed, splays, sealed>>

\* .wdb.catchUpSeals: seal the oldest date left behind, if there is one.
WdbCatchUp(today) ==
    /\ WdbAt("catchup")
    /\ LET d == Min(Backlog(today))
       IN  todo' = (IF Backlog(today) = {} THEN <<>>
                    ELSE SealSteps(d) \o <<ReloadStep, DropStep(d)>>) \o Tail(todo)
    /\ UNCHANGED <<wdbUp, buf, lastFlush, lastCatchUp, lastSealed, diskVars>>

\* .wdb.seal reads the scratch file of one table into the table's own in-memory
\* name, and removes what is in the target directory.
WdbClear ==
    /\ WdbAt("clear")
    /\ LET f == Head(todo).file
       IN  /\ buf' = {r \in buf : r.tbl # f.tbl}
           /\ sealed' = sealed \ RowsOf(sealed, f)
           /\ splays' = splays \ {f}
    /\ todo' = Tail(todo)
    /\ UNCHANGED <<wdbUp, lastFlush, lastCatchUp, lastSealed, scratch>>

\* .Q.dpft writes the partition; if it signals, the error is only logged.
WdbSplay(ok) ==
    /\ WdbAt("splay")
    /\ LET f == Head(todo).file
       IN  IF ok THEN /\ sealed' = sealed \cup RowsOf(scratch, f)
                      /\ splays' = splays \cup {f}
                 ELSE UNCHANGED <<sealed, splays>>
    /\ todo' = Tail(todo)
    /\ UNCHANGED <<wdbUp, buf, lastFlush, lastCatchUp, lastSealed, scratch>>

\* The scratch file is deleted.
WdbRetire ==
    /\ WdbAt("retire")
    /\ scratch' = scratch \ RowsOf(scratch, Head(todo).file)
    /\ todo' = Tail(todo)
    /\ UNCHANGED <<wdbUp, buf, lastFlush, lastCatchUp, lastSealed, splays, sealed>>

\* The end-of-day handler ends.
WdbSealed ==
    /\ WdbAt("sealed")
    /\ lastSealed' = Head(todo).date
    /\ todo' = Tail(todo)
    /\ UNCHANGED <<wdbUp, buf, lastFlush, lastCatchUp, diskVars>>

=============================================================================
