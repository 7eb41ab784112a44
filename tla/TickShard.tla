----------------------------- MODULE TickShard -----------------------------
(***************************************************************************)
(* One shard of the data plane (data-plane/q): the write path, the three   *)
(* databases that serve queries (the chained RDB, the intraday and the     *)
(* historical database), and the union of them that the gateway serves.    *)
(***************************************************************************)
EXTENDS WritePath, ChainedRdb, IntradayDb, HistoricalDb

CONSTANTS
    Readers,      \* the readers this instance has, of "rdb", "idb" and "hdb"
    ReaderBudget  \* bound: the number of faults of each kind

\* The crash of a reader, the loss of the chained RDB's connection.
ReaderFaultKinds == {"rdb", "idb", "hdb", "cut"}

ASSUME ShardAssumption ==
    /\ Readers \subseteq {"rdb", "idb", "hdb"}
    /\ Handles = {"wdb"} \cup (Readers \cap {"rdb"})
    /\ ReaderBudget \in [ReaderFaultKinds -> Nat]

VARIABLE readersLeft   \* the faults of the readers still to come

ReaderFault(k) ==
    /\ readersLeft[k] > 0
    /\ readersLeft' = [readersLeft EXCEPT ![k] = @ - 1]
    /\ NoFault
NoReaderFault == NoFault /\ UNCHANGED readersLeft

readerVars == <<rdbVars, idbVars, hdbVars, readersLeft>>
vars == <<pathVars, readerVars>>

RdbSame == UNCHANGED rdbVars
IdbSame == UNCHANGED idbVars
HdbSame == UNCHANGED hdbVars

-----------------------------------------------------------------------------
Init ==
    /\ PathInit
    /\ RdbInit("rdb" \in Readers)
    /\ IdbInit("idb" \in Readers)
    /\ HdbInit("hdb" \in Readers)
    /\ readersLeft = ReaderBudget

(* The write path among its readers *)

\* A step of the write path that no reader takes part in.
Alone(A) == A /\ UNCHANGED readerVars

Write == Alone(WriteStep)

\* .wdb.notify to the historical database, which may be down.
Reload ==
    /\ WdbAt("reload") /\ WdbStepDone
    /\ IF hdbUp THEN HdbReload ELSE HdbSame
    /\ TpSame /\ RdbSame /\ IdbSame /\ NoReaderFault

\* .wdb.notify to the intraday database, which may be down.
Drop ==
    /\ WdbDrop
    /\ IF idbUp THEN IdbDropDate(Head(todo).date) ELSE IdbSame
    /\ RdbSame /\ HdbSame /\ UNCHANGED readersLeft

(* The chained RDB *)

RdbOnly == WdbSame /\ IdbSame /\ HdbSame

RdbReceive == rdbUp /\ Consume("rdb") /\ RdbHandle(Head(chan["rdb"])) /\ RdbOnly /\ NoReaderFault

RdbTick == rdbUp /\ "rdb" \notin SubHandles /\ RdbReconnect /\ TpSame /\ RdbOnly /\ NoReaderFault

RdbSubscribe ==
    /\ rdbConn # <<>>
    /\ TrySub("rdb", Head(rdbConn))
    /\ RdbSubDone(SubWorks("rdb", Head(rdbConn)))
    /\ RdbOnly /\ NoReaderFault

RdbCut == PortClosed("rdb") /\ UNCHANGED now /\ ReaderFault("cut") /\ RdbSame /\ RdbOnly

RdbDies == RdbCrash /\ Vanish("rdb") /\ ReaderFault("rdb") /\ RdbOnly
RdbStarts == "rdb" \in Readers /\ RdbStart(now) /\ TpSame /\ RdbOnly /\ NoReaderFault

(* The intraday and the historical database *)

IdbOnly == TpSame /\ WdbSame /\ RdbSame /\ HdbSame

IdbTick == IdbTimer(now) /\ IdbOnly /\ NoReaderFault
IdbDies == IdbCrash /\ ReaderFault("idb") /\ IdbOnly
IdbStarts == "idb" \in Readers /\ IdbStart /\ IdbOnly /\ NoReaderFault

HdbOnly == TpSame /\ UNCHANGED <<wdbVars, scratch>> /\ RdbSame /\ IdbSame

\* The timer, or a fresh start.
HdbTick == "hdb" \in Readers /\ HdbTimer(now) /\ HdbOnly /\ NoReaderFault
HdbDies == HdbCrash /\ ReaderFault("hdb") /\ HdbOnly /\ UNCHANGED <<splays, sealed>>

-----------------------------------------------------------------------------
Next ==
    \/ Write \/ Reload \/ Drop
    \/ RdbReceive \/ RdbTick \/ RdbSubscribe \/ RdbCut \/ RdbDies \/ RdbStarts
    \/ IdbTick \/ IdbDies \/ IdbStarts
    \/ HdbTick \/ HdbDies

Spec == Init /\ [][Next]_vars

\* As for the write path: time passes, timers run, connections are read, the dead
\* are restarted.
Fairness ==
    /\ WF_vars(Alone(Tick)) /\ WF_vars(Alone(Linger))
    /\ WF_vars(Alone(TpTimer))
    /\ WF_vars(Alone(WdbReceive)) /\ WF_vars(Alone(WdbTick))
    /\ SF_vars(Alone(WdbTickWith(TRUE)))
    /\ WF_vars(Alone(WdbOwnStep)) /\ WF_vars(Reload) /\ WF_vars(Drop)
    /\ WF_vars(Alone(WdbStarts))
    /\ WF_vars(RdbReceive) /\ WF_vars(RdbTick) /\ WF_vars(RdbSubscribe) /\ WF_vars(RdbStarts)
    /\ WF_vars(IdbTick) /\ WF_vars(IdbStarts)
    /\ WF_vars(HdbTick)

FairSpec == Spec /\ Fairness

\* What the gateway serves: .gw.all concatenates the three tiers.
Visible == rdbRows \cup idbRows \cup {r \in sealed : DateOf(r.time) \in hdbDates}

-----------------------------------------------------------------------------
(* Properties *)

\* Every variable keeps its type.
TypeOK ==
    /\ PathTypeOK
    /\ rdbUp \in BOOLEAN /\ rdbRows \in SUBSET Row
    /\ rdbWm \in Int /\ rdbConn \in Seq(Tables) /\ rdbFirst \in BOOLEAN
    /\ idbUp \in BOOLEAN /\ idbRows \in SUBSET Row /\ idbLoaded \in SUBSET File
    /\ hdbUp \in BOOLEAN /\ hdbDates \in SUBSET Int
    /\ readersLeft \in [ReaderFaultKinds -> Nat]

\* The readers do not disturb the write path: seen through the write-down database's
\* connection and the directories, the shard is the write path alone.
W == INSTANCE WritePath
         WITH Handles <- {"wdb"},
              subs <- [t \in Tables |-> subs[t] \cap {"wdb"}],
              chan <- [h \in {"wdb"} |-> chan[h]],
              strikes <- [h \in {"wdb"} |-> strikes[h]],
              breaches <- [h \in {"wdb"} |-> breaches[h]]
ImplementsWritePath == W!PathSpec

\* The chained RDB is never sent a row that it already holds.
NoRowTwiceInRdb == RdbIdle => RowsIn(chan["rdb"]) \cap rdbRows = {}

\* Once the chained RDB has handled the end of a day (.rdb.eod) it holds no row
\* that the tickerplant logged during its day, whatever watermarks follow: with no
\* end-of-day message on its way, it has nothing older than the day in progress.
\* (A restart or a lost connection may cost it the message.)
RdbClearOfClosedDays ==
    /\ RdbIdle /\ rdbFirst /\ "rdb" \in SubHandles
    /\ \A i \in 1 .. Len(chan["rdb"]) : chan["rdb"][i].kind # "eod"
    => \A e \in logged :
          e.row \in rdbRows /\ DateOf(e.row.time) = e.date => e.date >= today

\* What the chained RDB holds: no row twice, and none of a closed day.
RdbHoldsTheDay == NoRowTwiceInRdb /\ RdbClearOfClosedDays

\* The chained RDB's memory is a window: whatever watermarks and end-of-day
\* messages it misses, it sheds the rows older than the retention interval.
RdbWindowMoves == []<>(\A r \in rdbRows : r.time >= now - RetentionIntv)

\* The chained RDB keeps up, whatever it misses: it is subscribed again, and its window
\* moves on.
RdbKeepsUp == SubscribedAgain /\ RdbWindowMoves

\* The intraday database gives a row up only when the historical database, if it is
\* running, already serves it.
HandedOverToHdb ==
    [][idbUp /\ idbUp' => \A r \in idbRows \ idbRows' :
          /\ r \in sealed'
          /\ hdbUp' => DateOf(r.time) \in hdbDates']_vars

\* Everything on disk is served to queries again and again, whatever
\* notifications, polls and restarts of the readers come between.
DurableBecomesVisible == []<>(Durable \subseteq Visible)

=============================================================================
