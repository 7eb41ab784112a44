----------------------------- MODULE ShardDisk -----------------------------
(***************************************************************************)
(* The directories of one shard that its write-down, real-time, intraday   *)
(* and historical databases share: the scratch files <dbDir>/<date>/<tbl>  *)
(* and the partitions <hdbDir>/<date>/<tbl>.                               *)
(***************************************************************************)
EXTENDS ShardTypes

VARIABLES
    scratch,  \* the rows of the scratch files; a file exists iff it has a row
    splays,   \* the partitions, empty ones too
    sealed    \* the rows of the partitions

diskVars == <<scratch, splays, sealed>>

\* The files and partitions are named by a date and a table.
File == [date : Int, tbl : Tables]

\* The file, or the partition, that a row is stored in.
FileOf(r) == [date |-> DateOf(r.time), tbl |-> r.tbl]

ScratchFiles == {FileOf(r) : r \in scratch}

\* The rows among R that belong in file f.
RowsOf(R, f) == {r \in R : FileOf(r) = f}

DiskInit == scratch = {} /\ splays = {} /\ sealed = {}

=============================================================================
