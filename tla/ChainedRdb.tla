----------------------------- MODULE ChainedRdb -----------------------------
(***************************************************************************)
(* The chained real-time database of one shard, data-plane/q/rdb.q: a live *)
(* window over the day.  It starts from the write-down database's scratch  *)
(* files of today, then follows the tickerplant, and forgets rows when the *)
(* watermark passes them.                                                  *)
(***************************************************************************)
EXTENDS ShardDisk, FiniteSetsExt

VARIABLES
    rdbUp,    \* is the process running
    rdbRows,  \* the rows of trade and risk
    rdbWm,    \* .rdb.watermark
    rdbConn,  \* the tables .rdb.connectTp has still to subscribe to, in order
    rdbFirst  \* history: neither the process nor its connection is another than at first

rdbVars == <<rdbUp, rdbRows, rdbWm, rdbConn, rdbFirst>>

RdbIdle == rdbUp /\ rdbConn = <<>>

RdbInit(up) == rdbUp = up /\ rdbRows = {} /\ rdbWm = NoTime /\ rdbConn = <<>> /\ rdbFirst = TRUE

\* The script is loaded at time t: .rdb.loadWarm takes today's rows of the scratch
\* files and the latest of their times as watermark; then .rdb.connectTp starts.
RdbStart(t) ==
    /\ ~rdbUp
    /\ rdbUp' = TRUE
    /\ LET rows == {r \in scratch : DateOf(r.time) = DateOf(t)}
       IN  /\ rdbRows' = rows
           /\ rdbWm' = IF rows = {} THEN NoTime ELSE Max({r.time : r \in rows})
    /\ rdbConn' = <<"trade", "risk">>
    /\ UNCHANGED rdbFirst

RdbCrash ==
    /\ rdbUp
    /\ rdbUp' = FALSE /\ rdbRows' = {} /\ rdbWm' = NoTime /\ rdbConn' = <<>> /\ rdbFirst' = FALSE

\* .rdb.upd: once there is a watermark, only rows after it are kept.
RdbUpd(r) ==
    /\ rdbRows' = IF rdbWm = NoTime \/ r.time > rdbWm THEN rdbRows \cup {r} ELSE rdbRows
    /\ UNCHANGED <<rdbUp, rdbWm, rdbConn, rdbFirst>>

\* Variant: the watermark only keeps out what arrives later.
RdbShedToLater(wm) == rdbWm' = wm /\ UNCHANGED <<rdbUp, rdbRows, rdbConn, rdbFirst>>

\* .rdb.shedTo
RdbShedTo(wm) ==
    /\ rdbWm' = wm
    /\ rdbRows' = {r \in rdbRows : r.time >= wm}
    /\ UNCHANGED <<rdbUp, rdbConn, rdbFirst>>

\* Variant: the end of the day is left to the watermarks.
RdbEodIgnored(d) == UNCHANGED rdbVars

\* .rdb.eod
RdbEod(d) == RdbShedTo(Midnight(d + 1))

RdbHandle(m) ==
    /\ RdbIdle
    /\ \/ m.kind = "upd" /\ RdbUpd(m.row)
       \/ m.kind = "shed" /\ RdbShedTo(m.wm)
       \/ m.kind = "eod" /\ RdbEod(m.date)

\* .z.ts: the connection is lost and the backoff is over, connect again.  The rows
\* missed meanwhile are not asked for.
RdbReconnect ==
    /\ RdbIdle
    /\ rdbConn' = <<"trade", "risk">>
    /\ rdbFirst' = FALSE
    /\ UNCHANGED <<rdbUp, rdbRows, rdbWm>>

\* Variant: a subscription that fails is not tried again.
RdbSubDoneStuck(ok) ==
    /\ rdbUp /\ rdbConn # <<>> /\ ok
    /\ rdbConn' = Tail(rdbConn)
    /\ UNCHANGED <<rdbUp, rdbRows, rdbWm, rdbFirst>>

\* Variant: the scratch files are read when the subscriptions have been made.
RdbSubDoneLoading(ok) ==
    /\ rdbUp /\ rdbConn # <<>>
    /\ rdbConn' = IF ok THEN Tail(rdbConn) ELSE <<>>
    /\ rdbRows' = IF ok /\ Len(rdbConn) = 1 THEN rdbRows \cup scratch ELSE rdbRows
    /\ UNCHANGED <<rdbUp, rdbWm, rdbFirst>>

\* One subscription of .rdb.connectTp has been made or has failed.
RdbSubDone(ok) ==
    /\ rdbUp /\ rdbConn # <<>>
    /\ rdbConn' = IF ok THEN Tail(rdbConn) ELSE <<>>
    /\ UNCHANGED <<rdbUp, rdbRows, rdbWm, rdbFirst>>

=============================================================================
