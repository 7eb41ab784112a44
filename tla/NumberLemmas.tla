--------------------------- MODULE NumberLemmas ---------------------------
(* Facts about numbers that the proofs about topology, write path, feed    *)
(* handler and trading cite.                                               *)
EXTENDS Integers, WellFoundedInduction, TLAPS

\* Division with remainder.
LEMMA Division ==
    ASSUME NEW a \in Nat, NEW d \in Nat \ {0}
    PROVE  /\ a \div d \in Nat /\ a % d \in 0 .. d - 1
           /\ a = d * (a \div d) + (a % d)
    BY Z3

\* Multiplication by a natural number keeps the order.
LEMMA Monotone ==
    ASSUME NEW i \in Nat, NEW j \in Nat, NEW b \in Nat, i <= j
    PROVE  i * b <= j * b
    BY Z3

\* A nonempty set of natural numbers has a least member.
LEMMA LeastNat ==
    ASSUME NEW S \in SUBSET Nat, S # {}
    PROVE  \E x \in S : \A y \in S : x <= y
    <1> DEFINE R == OpToRel(<, Nat)
    <1>1. IsWellFoundedOn(R, Nat)
        BY NatLessThanWellFounded
    <1> HIDE DEF R
    <1>2. PICK x \in S : \A y \in S : ~(<<y, x>> \in R)
        BY <1>1, WFMin
    <1>3. \A y \in Nat : y < x => <<y, x>> \in R
        BY DEF R, OpToRel
    <1>4. ASSUME NEW y \in S PROVE x <= y
        <2>1. x \in Nat /\ y \in Nat /\ ~(y < x)
            BY <1>2, <1>3
        <2> QED
            BY <2>1
    <1> QED
        BY <1>4

=============================================================================
