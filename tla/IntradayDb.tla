----------------------------- MODULE IntradayDb -----------------------------
(***************************************************************************)
(* The intraday database of one shard, data-plane/q/idb.q: it polls the    *)
(* write-down database's scratch directory and serves the rows that have   *)
(* left the chained RDB and are not yet sealed.                            *)
(***************************************************************************)
EXTENDS ShardDisk

CONSTANT IdbRetention   \* -retentiondays

ASSUME IdbAssumption == IdbRetention \in Nat

VARIABLES
    idbUp,     \* is the process running
    idbRows,   \* the rows of trade and risk
    idbLoaded  \* .idb.loaded: the [date, tbl] files loaded

idbVars == <<idbUp, idbRows, idbLoaded>>

IdbInit(up) == idbUp = up /\ idbRows = {} /\ idbLoaded = {}

IdbStart == /\ ~idbUp
            /\ idbUp' = TRUE
            /\ UNCHANGED <<idbRows, idbLoaded>>

IdbCrash == idbUp /\ idbUp' = FALSE /\ idbRows' = {} /\ idbLoaded' = {}

\* The files .idb.scan reads at time t: those of the open date always, the others
\* only if they have not been loaded.
ToLoad(t) ==
    {f \in ScratchFiles : f.date = DateOf(t) \/ f \notin idbLoaded}

\* The loaded dates .idb.evictOld gives up at time t.
Expired(loaded, t) == {f.date : f \in {g \in loaded : g.date < DateOf(t) - IdbRetention}}

WithoutDates(rows, D) == {r \in rows : DateOf(r.time) \notin D}

\* What a scan and the eviction after it leave loaded, and in memory.  The rows of
\* the open date are replaced, those of the other dates added to.
LoadedAfter(t) ==
    LET all == idbLoaded \cup ToLoad(t)
    IN  {f \in all : f.date \notin Expired(all, t)}

RowsAfter(t) ==
    LET read == {r \in scratch : FileOf(r) \in ToLoad(t)}
        kept == {r \in idbRows : ~(FileOf(r) \in ToLoad(t) /\ DateOf(r.time) = DateOf(t))}
    IN  WithoutDates(kept \cup read, Expired(idbLoaded \cup ToLoad(t), t))

\* .z.ts: .idb.scan, then .idb.evictOld.
IdbTimer(t) ==
    /\ idbUp
    /\ idbRows' = RowsAfter(t)
    /\ idbLoaded' = LoadedAfter(t)
    /\ UNCHANGED idbUp

\* .idb.dropDate
IdbDropDate(d) ==
    /\ idbUp
    /\ idbRows' = WithoutDates(idbRows, {d})
    /\ idbLoaded' = {f \in idbLoaded : f.date # d}
    /\ UNCHANGED idbUp

=============================================================================
