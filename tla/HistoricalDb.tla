---------------------------- MODULE HistoricalDb ----------------------------
(***************************************************************************)
(* The historical database of one shard, data-plane/q/hdb.q: it maps the   *)
(* date partitions that the write-down database seals, again on demand and *)
(* by timer, and may purge old ones.  The partitions on disk are shared    *)
(* with the write-down database.                                           *)
(***************************************************************************)
EXTENDS ShardDisk

CONSTANT HdbRetention   \* -retentiondays; 0 keeps everything

ASSUME HdbAssumption == HdbRetention \in Nat

VARIABLES
    hdbUp,    \* is the process running
    hdbDates  \* .Q.pv: the dates mapped by the last reload

hdbVars == <<hdbUp, hdbDates>>

HdbInit(up) == hdbUp = up /\ hdbDates = {}

HdbCrash == hdbUp /\ hdbUp' = FALSE /\ hdbDates' = {}

\* The dates that have a directory, of those in P.
DatesOf(P) == {f.date : f \in P}

\* .hdb.reload
HdbReload ==
    /\ hdbUp
    /\ hdbDates' = DatesOf(splays)
    /\ UNCHANGED <<hdbUp, splays, sealed>>

\* Variant: a retention of 0 keeps nothing.
PurgedUnguarded(t) == {d \in DatesOf(splays) : d < DateOf(t) - HdbRetention}

\* The dates that .hdb.purgeOld deletes at time t.
Purged(t) ==
    IF HdbRetention = 0 THEN {} ELSE {d \in DatesOf(splays) : d < DateOf(t) - HdbRetention}

\* Variant: the timer does not map the partitions again.
HdbTimerUnmapped(t) ==
    /\ splays' = {f \in splays : f.date \notin Purged(t)}
    /\ sealed' = {r \in sealed : DateOf(r.time) \notin Purged(t)}
    /\ hdbDates' = hdbDates \ Purged(t)
    /\ hdbUp' = TRUE

\* .hdb.purgeOld, then .hdb.reload: by the timer and when the script is loaded.
HdbTimer(t) ==
    /\ splays' = {f \in splays : f.date \notin Purged(t)}
    /\ sealed' = {r \in sealed : DateOf(r.time) \notin Purged(t)}
    /\ hdbDates' = DatesOf(splays')
    /\ hdbUp' = TRUE

=============================================================================
