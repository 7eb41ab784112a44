---------------------------- MODULE MCWritePath ----------------------------
(* Instances of WritePath for TLC: the fault budgets of the runs. *)
EXTENDS WritePath

OneOf(K) == [k \in FaultKinds |-> IF k \in K THEN 1 ELSE 0]

NoFaults == OneOf({})
Failures == OneOf({"wdb", "tp", "cut", "dpft"})
EarlyEnd == OneOf({"end"})

=============================================================================
