---------------------------- MODULE MCTickShard ----------------------------
(* Instances of TickShard for TLC: the fault budgets of the runs. *)
EXTENDS TickShard

OneOf(kinds, K) == [k \in kinds |-> IF k \in K THEN 1 ELSE 0]

NoFaults == OneOf(FaultKinds, {})

IdbHdbCrash == OneOf(ReaderFaultKinds, {"idb", "hdb"})
RdbFaults == OneOf(ReaderFaultKinds, {"rdb", "cut"})

=============================================================================
