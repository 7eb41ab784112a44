--------------------------- MODULE ServicesProofs ---------------------------
(***************************************************************************)
(* What TLAPS proves about the facilities around the tick shard.  The      *)
(* topology: for every number of letters and every shard count that is     *)
(* accepted, the ranges of the chart give each letter to exactly one shard *)
(* and leave no shard without one, and every runtime sends a symbol to the *)
(* same shard.  The query budget: a tenant whose requests are checked      *)
(* before they run, and accounted when they end, exceeds its budget by no  *)
(* more than what the threads can hold at once.  The rows that requests    *)
(* read and write in threads of their own: tenants are kept apart and keep *)
(* an administrator, a feed handler can run what its row says, and a       *)
(* connector's row says what its container does.  And exports, cloud runs  *)
(* and the provisioning of tick houses: what is told of them was done.     *)
(* And the gateway: what it shows is what is there.                        *)
(***************************************************************************)
EXTENDS QueryWorkspace, Identity, FeedHandlerRows, Connectors, Exports, CloudRuns, Provisioning,
        Gateway, NumberLemmas, FiniteSetTheorems, SequenceTheorems

-----------------------------------------------------------------------------
(* The topology *)

\* A shard's letters end where the next one's offset is, and there is one at least.
LEMMA RangesAdjoin ==
    ASSUME NEW n \in 1 .. Letters, NEW i \in ShardIds(n)
    PROVE  /\ Offset(n, i) \in Nat /\ Size(n, i) \in Nat \ {0}
           /\ Offset(n, i) + Size(n, i) = Offset(n, i + 1)
    <1> DEFINE b == Letters \div n
               e == Letters % n
    <1>1. Letters \in Nat /\ n \in Nat \ {0} /\ i \in Nat /\ n <= Letters
        BY LettersAssumption DEF ShardIds
    <1>2. b \in Nat /\ e \in 0 .. n - 1 /\ Letters = n * b + e
        BY <1>1, Division
    <1>3. b # 0
        <2>1. SUFFICES ASSUME b = 0 PROVE FALSE
            OBVIOUS
        <2>2. n * b = 0
            BY <1>1, <2>1, Z3
        <2> QED
            BY <1>1, <1>2, <2>2
    <1> HIDE DEF b, e
    <1>4. i * b \in Nat /\ (i + 1) * b = i * b + b
        BY <1>1, <1>2, Z3
    <1>5. Size(n, i) = b + (IF i < e THEN 1 ELSE 0)
        BY DEF Size, b, e
    <1>6. Offset(n, i) = i * b + (IF i < e THEN i ELSE e)
        BY DEF Offset, b, e
    <1>7. Offset(n, i + 1) = (i + 1) * b + (IF i + 1 < e THEN i + 1 ELSE e)
        BY DEF Offset, b, e
    <1> QED
        BY <1>1, <1>2, <1>3, <1>4, <1>5, <1>6, <1>7

\* Later shards have later letters.
LEMMA RangesAscend ==
    ASSUME NEW n \in 1 .. Letters, NEW i \in ShardIds(n), NEW j \in ShardIds(n), i < j
    PROVE  Offset(n, i + 1) <= Offset(n, j)
    <1> DEFINE b == Letters \div n
               e == Letters % n
    <1>1. n \in Nat \ {0} /\ Letters \in Nat /\ i \in Nat /\ j \in Nat /\ i + 1 <= j
        BY LettersAssumption DEF ShardIds
    <1>2. b \in Nat /\ e \in Nat
        <2>1. b \in Nat /\ e \in 0 .. n - 1
            BY <1>1, Division
        <2> QED
            BY <1>1, <2>1
    <1> HIDE DEF b, e
    <1>3. (i + 1) * b <= j * b /\ (i + 1) * b \in Int /\ j * b \in Int
        BY <1>1, <1>2, Monotone
    <1>4. Offset(n, i + 1) = (i + 1) * b + (IF i + 1 < e THEN i + 1 ELSE e)
        BY DEF Offset, b, e
    <1>5. Offset(n, j) = j * b + (IF j < e THEN j ELSE e)
        BY DEF Offset, b, e
    <1> QED
        BY <1>1, <1>2, <1>3, <1>4, <1>5

\* No letter belongs to two shards.
LEMMA RangesDisjoint ==
    ASSUME NEW n \in 1 .. Letters, NEW i \in ShardIds(n), NEW j \in ShardIds(n), i # j
    PROVE  HelmRange(n, i) \cap HelmRange(n, j) = {}
    <1>1. ASSUME NEW k \in ShardIds(n), NEW m \in ShardIds(n), k < m
          PROVE  HelmRange(n, k) \cap HelmRange(n, m) = {}
        <2>1. /\ Offset(n, k) \in Nat /\ Offset(n, m) \in Nat
              /\ Size(n, k) \in Nat /\ Size(n, m) \in Nat
              /\ Offset(n, k) + Size(n, k) <= Offset(n, m)
            BY <1>1, RangesAdjoin, RangesAscend
        <2> QED
            BY <2>1 DEF HelmRange
    <1>2. i < j \/ j < i
        BY DEF ShardIds
    <1> QED
        BY <1>1, <1>2

\* Every letter belongs to some shard: among the first `e` shards, which have one more
\* letter, or among the others.
LEMMA RangesCover ==
    ASSUME NEW n \in 1 .. Letters, NEW letter \in 1 .. Letters
    PROVE  \E i \in ShardIds(n) : letter \in HelmRange(n, i)
    <1> DEFINE b == Letters \div n
               e == Letters % n
               k == letter - 1
    <1>1. n \in Nat \ {0} /\ Letters \in Nat /\ k \in Nat /\ k < Letters /\ letter = k + 1
        BY LettersAssumption
    <1>2. b \in Nat /\ e \in 0 .. n - 1 /\ Letters = n * b + e
        BY <1>1, Division
    <1>3. \A i \in ShardIds(n) :
            /\ Size(n, i) = b + (IF i < e THEN 1 ELSE 0)
            /\ Offset(n, i) = i * b + (IF i < e THEN i ELSE e)
        BY DEF Size, Offset
    <1> HIDE DEF b, e, k
    <1>4. CASE k < e * (b + 1)
        <2> DEFINE i == k \div (b + 1)
        <2>1. i \in Nat /\ k % (b + 1) \in 0 .. b /\ k = (b + 1) * i + (k % (b + 1))
            <3>1. b + 1 \in Nat \ {0} /\ 0 .. (b + 1) - 1 = 0 .. b
                BY <1>2
            <3> QED
                BY <1>1, <3>1, Division
        <2> HIDE DEF i
        <2>2. i < e
            <3>1. SUFFICES ASSUME e <= i PROVE FALSE
                BY <1>2, <2>1
            <3>2. e * (b + 1) <= i * (b + 1)
                BY <1>2, <2>1, <3>1, Monotone
            <3>3. i * (b + 1) = (b + 1) * i
                BY <1>2, <2>1, Z3
            <3> QED
                BY <1>1, <1>2, <1>4, <2>1, <3>2, <3>3
        <2>3. i \in ShardIds(n)
            BY <1>1, <1>2, <2>1, <2>2 DEF ShardIds
        <2>4. (b + 1) * i = i * b + i
            BY <1>2, <2>1, Z3
        <2>5. letter \in HelmRange(n, i)
            BY <1>1, <1>2, <1>3, <2>1, <2>2, <2>3, <2>4 DEF HelmRange
        <2> QED
            BY <2>3, <2>5
    <1>5. CASE e * (b + 1) <= k
        <2> DEFINE r == k - e * (b + 1)
        <2>1. e * (b + 1) \in Nat /\ e * (b + 1) = e * b + e /\ r \in Nat /\ k = e * (b + 1) + r
            BY <1>1, <1>2, <1>5, Z3
        <2>2. b # 0
            <3>1. SUFFICES ASSUME b = 0 PROVE FALSE
                OBVIOUS
            <3>2. n * b = 0 /\ e * b = 0
                BY <1>1, <1>2, <3>1, Z3
            <3> QED
                BY <1>1, <1>2, <2>1, <3>2
        <2> DEFINE q == r \div b
        <2>3. q \in Nat /\ r % b \in 0 .. b - 1 /\ r = b * q + (r % b)
            BY <1>2, <2>1, <2>2, Division
        <2> HIDE DEF r, q
        <2>4. e + q < n
            <3>1. SUFFICES ASSUME n <= e + q PROVE FALSE
                BY <1>1, <1>2, <2>3
            <3>2. n * b <= (e + q) * b
                BY <1>1, <1>2, <2>3, <3>1, Monotone
            <3>3. (e + q) * b = e * b + b * q
                BY <1>2, <2>3, Z3
            <3> QED
                BY <1>1, <1>2, <2>1, <2>3, <3>2, <3>3
        <2>5. e + q \in ShardIds(n)
            BY <1>1, <1>2, <2>3, <2>4 DEF ShardIds
        <2>6. (e + q) * b = e * b + b * q
            BY <1>2, <2>3, Z3
        <2>7. letter \in HelmRange(n, e + q)
            <3>1. Size(n, e + q) = b /\ Offset(n, e + q) = (e + q) * b + e
                BY <1>2, <1>3, <2>3, <2>5
            <3> QED
                BY <1>1, <1>2, <2>1, <2>3, <2>6, <3>1 DEF HelmRange
        <2> QED
            BY <2>5, <2>7
    <1> QED
        BY <1>1, <1>2, <1>4, <1>5

\* helm/.../_helpers.tpl, shardsJson: the alphabet is partitioned, for every alphabet and
\* every shard count.
THEOREM HelmRangesPartition ==
    ASSUME NEW n \in 1 .. Letters
    PROVE  /\ \A i \in ShardIds(n) : HelmRange(n, i) # {}
           /\ \A letter \in 1 .. Letters :
                 \E i \in ShardIds(n) :
                    /\ letter \in HelmRange(n, i)
                    /\ \A j \in ShardIds(n) : letter \in HelmRange(n, j) => j = i
    <1>1. ASSUME NEW i \in ShardIds(n) PROVE HelmRange(n, i) # {}
        <2>1. Offset(n, i) \in Nat /\ Size(n, i) \in Nat \ {0}
            BY RangesAdjoin
        <2>2. Offset(n, i) + 1 \in HelmRange(n, i)
            BY <2>1 DEF HelmRange
        <2> QED
            BY <2>2
    <1>2. ASSUME NEW letter \in 1 .. Letters
          PROVE  \E i \in ShardIds(n) :
                    /\ letter \in HelmRange(n, i)
                    /\ \A j \in ShardIds(n) : letter \in HelmRange(n, j) => j = i
        <2>1. PICK i \in ShardIds(n) : letter \in HelmRange(n, i)
            BY RangesCover
        <2>2. \A j \in ShardIds(n) : letter \in HelmRange(n, j) => j = i
            BY <2>1, RangesDisjoint
        <2> QED
            BY <2>1, <2>2
    <1> QED
        BY <1>1, <1>2

\* The offset of the chart satisfies the recurrence of letter_ranges at every index.
LEMMA OffsetRecurs ==
    ASSUME NEW n \in 1 .. Letters, NEW i \in Nat
    PROVE  /\ Offset(n, i) \in Nat /\ Offset(n, 0) = 0
           /\ Offset(n, i + 1) = Offset(n, i) + Size(n, i)
    <1> DEFINE b == Letters \div n
               e == Letters % n
    <1>1. Letters \in Nat /\ n \in Nat \ {0}
        BY LettersAssumption
    <1>2. b \in Nat /\ e \in Nat
        <2>1. b \in Nat /\ e \in 0 .. n - 1
            BY <1>1, Division
        <2> QED
            BY <1>1, <2>1
    <1>3. Size(n, i) = b + (IF i < e THEN 1 ELSE 0)
        BY DEF Size
    <1>4. \A k : Offset(n, k) = k * b + (IF k < e THEN k ELSE e)
        BY DEF Offset
    <1> HIDE DEF b, e
    <1>5. i * b \in Nat /\ (i + 1) * b = i * b + b /\ 0 * b = 0
        BY <1>2, Z3
    <1>6. Offset(n, i) = i * b + (IF i < e THEN i ELSE e)
        BY <1>4
    <1>7. Offset(n, i + 1) = (i + 1) * b + (IF i + 1 < e THEN i + 1 ELSE e)
        BY <1>4
    <1>8. Offset(n, 0) = 0 * b + (IF 0 < e THEN 0 ELSE e)
        BY <1>4
    <1> QED
        BY <1>2, <1>3, <1>5, <1>6, <1>7, <1>8

\* The function of Before's recurrence exists: the offsets are one.
LEMMA BeforeRecurs ==
    ASSUME NEW n \in 1 .. Letters, NEW i \in 0 .. Letters
    PROVE  Before(n)[i] = IF i = 0 THEN 0 ELSE Before(n)[i - 1] + Size(n, i - 1)
    <1> DEFINE Rec(f) == [k \in 0 .. Letters |->
                            IF k = 0 THEN 0 ELSE f[k - 1] + Size(n, k - 1)]
               G == [k \in 0 .. Letters |-> Offset(n, k)]
    <1>1. G = Rec(G)
        <2>1. ASSUME NEW k \in 0 .. Letters
              PROVE  Offset(n, k) = IF k = 0 THEN 0 ELSE G[k - 1] + Size(n, k - 1)
            <3>1. CASE k = 0
                BY <3>1, OffsetRecurs
            <3>2. CASE k # 0
                <4>1. k - 1 \in Nat /\ k - 1 \in 0 .. Letters /\ (k - 1) + 1 = k
                    BY <3>2, LettersAssumption
                <4>2. G[k - 1] = Offset(n, k - 1)
                    BY <4>1
                <4>3. Offset(n, (k - 1) + 1) = Offset(n, k - 1) + Size(n, k - 1)
                    BY <4>1, OffsetRecurs
                <4> QED
                    BY <3>2, <4>1, <4>2, <4>3
            <3> QED
                BY <3>1, <3>2
        <2> QED
            BY <2>1
    <1>2. Before(n) = Rec(Before(n))
        <2>1. Before(n) = CHOOSE f : f = Rec(f)
            BY DEF Before
        <2> HIDE DEF G, Rec
        <2> QED
            BY <1>1, <2>1
    <1> HIDE DEF G
    <1>3. Rec(Before(n))[i] = IF i = 0 THEN 0 ELSE Before(n)[i - 1] + Size(n, i - 1)
        OBVIOUS
    <1> HIDE DEF Rec
    <1> QED
        BY <1>2, <1>3

\* letter_ranges, which adds sizes up, and the chart, which multiplies, give the same offset.
LEMMA BeforeIsOffset ==
    ASSUME NEW n \in 1 .. Letters, NEW i \in 0 .. Letters
    PROVE  Before(n)[i] = Offset(n, i)
    <1> DEFINE S == {k \in 0 .. Letters : Before(n)[k] # Offset(n, k)}
    <1>1. SUFFICES ASSUME S # {} PROVE FALSE
        OBVIOUS
    <1>2. S \in SUBSET Nat
        BY LettersAssumption
    <1>3. PICK k \in S : \A y \in S : k <= y
        BY <1>1, <1>2, LeastNat
    <1>4. k \in 0 .. Letters /\ Before(n)[k] # Offset(n, k)
        OBVIOUS
    <1>5. CASE k = 0
        <2>1. Before(n)[k] = 0
            BY <1>4, <1>5, BeforeRecurs
        <2>2. Offset(n, 0) = 0
            BY OffsetRecurs
        <2> QED
            BY <1>4, <1>5, <2>1, <2>2
    <1>6. CASE k # 0
        <2>1. k - 1 \in Nat /\ k - 1 \in 0 .. Letters /\ (k - 1) + 1 = k
            BY <1>4, <1>6, LettersAssumption
        <2>2. Before(n)[k - 1] = Offset(n, k - 1)
            <3>1. k - 1 \notin S
                BY <1>3, <1>4, <2>1
            <3> QED
                BY <2>1, <3>1
        <2>3. Before(n)[k] = Before(n)[k - 1] + Size(n, k - 1)
            BY <1>4, <1>6, BeforeRecurs
        <2>4. Offset(n, k) = Offset(n, k - 1) + Size(n, k - 1)
            BY <2>1, OffsetRecurs
        <2> QED
            BY <1>4, <2>2, <2>3, <2>4
    <1> QED
        BY <1>5, <1>6

\* gen_topology.py (letter_ranges, shard_of), gateway.q (the routing table) and the chart
\* (shardsJson): the feeds, the gateway and the chart send every symbol, one without a
\* letter included, to the same shard.
THEOREM FourRoutersAgree ==
    \A n \in 1 .. Letters : RoutersAgree(n)
    <1> SUFFICES ASSUME NEW n \in 1 .. Letters PROVE RoutersAgree(n)
        OBVIOUS
    <1>1. ASSUME NEW i \in ShardIds(n) PROVE HelmRange(n, i) = LetterRange(n, i)
        <2>1. i \in 0 .. Letters
            BY LettersAssumption DEF ShardIds
        <2> QED
            BY <2>1, BeforeIsOffset DEF HelmRange, LetterRange
    <1>2. ASSUME NEW letter \in NoLetter .. Letters
          PROVE  GatewayShardOf(ShardsJson(n), letter) = ShardOf(n, letter)
        <2> DEFINE table == ShardsJson(n)
                   owners == {i \in DOMAIN table : letter \in table[i]}
        <2>1. owners = {i \in ShardIds(n) : letter \in HelmRange(n, i)}
            BY <1>1 DEF ShardsJson
        <2>2. GatewayShardOf(table, letter) =
                IF owners = {} THEN 0 ELSE CHOOSE i \in owners : \A j \in owners : i <= j
            BY DEF GatewayShardOf
        <2> HIDE DEF table, owners
        <2>3. CASE letter = NoLetter
            <3>1. \A i \in ShardIds(n) : Offset(n, i) \in Nat
                BY RangesAdjoin
            <3>2. owners = {}
                BY <2>1, <2>3, <3>1 DEF HelmRange, NoLetter
            <3> QED
                BY <2>2, <2>3, <3>2 DEF ShardOf, table
        <2>4. CASE letter # NoLetter
            <3>1. letter \in 1 .. Letters
                BY <2>4 DEF NoLetter
            <3>2. PICK i \in ShardIds(n) : letter \in HelmRange(n, i)
                BY <3>1, RangesCover
            <3>3. \A j \in ShardIds(n) : letter \in HelmRange(n, j) => j = i
                BY <3>2, RangesDisjoint
            <3>4. owners = {i}
                BY <2>1, <3>2, <3>3
            <3>5. i <= i
                BY DEF ShardIds
            <3>6. GatewayShardOf(table, letter) = i
                BY <2>2, <3>4, <3>5
            <3>7. ShardOf(n, letter) = i
                BY <1>1, <2>4, <3>2, <3>3 DEF ShardOf
            <3> QED
                BY <3>6, <3>7 DEF table
        <2> QED
            BY <2>3, <2>4
    <1> QED
        BY <1>1, <1>2 DEF RoutersAgree

-----------------------------------------------------------------------------
(* The query budget *)

\* What a thread is at, and for whom: as much of it as the budget depends on.
Request(r) ==
    /\ r.at \in {"free", "running", "answered"}
    /\ r.at = "running" =>
          /\ {"at", "tenant", "checked"} \subseteq DOMAIN r
          /\ r.tenant \in QwTenants \cup {"admin"} /\ r.checked \in BOOLEAN
          /\ r.checked => r.tenant \in QwTenants

QwTypes ==
    /\ DOMAIN qwReq = QwThreads
    /\ \A th \in QwThreads : Request(qwReq[th])
    /\ qwUsed \in [QwTenants -> [checked : Nat, open : Nat]]

\* The invariant is inductive: what the running requests may still cost is in its sum.
BudgetInv == QwTypes /\ BudgetHolds

-----------------------------------------------------------------------------

\* The requests of a tenant are threads, and finitely many.
LEMMA BusyCounts ==
    ASSUME NEW t PROVE IsFiniteSet(Busy(t)) /\ Cardinality(Busy(t)) \in Nat
                       /\ Cardinality(Busy(t)) <= Cardinality(QwThreads)
                       /\ Cardinality(QwThreads) \in Nat
<1>1. Busy(t) \subseteq QwThreads
  BY DEF Busy
<1>2. IsFiniteSet(QwThreads)
  BY QwAssumption
<1>3. IsFiniteSet(Busy(t)) /\ Cardinality(Busy(t)) <= Cardinality(QwThreads)
  BY <1>1, <1>2, FS_Subset
<1> QED
  BY <1>2, <1>3, FS_CardinalityType

\* One that is left alone by a step is left alone in the sum.
LEMMA SameBusy ==
    ASSUME BudgetInv, NEW t \in QwTenants,
           Busy(t)' = Busy(t), qwUsed'[t].checked \in Nat, qwUsed'[t].checked <= qwUsed[t].checked
    PROVE QwBudget = 0 \/
          qwUsed'[t].checked + QwMaxCost * Cardinality(Busy(t)')
             <= QwBudget - 1 + QwMaxCost * Cardinality(QwThreads)
<1> DEFINE k == QwMaxCost * Cardinality(Busy(t))
<1> DEFINE m == QwMaxCost * Cardinality(QwThreads)
<1>1. k \in Int /\ m \in Int
  BY BusyCounts, QwAssumption
<1>2. qwUsed[t].checked \in Nat
  BY DEF BudgetInv, QwTypes
<1>3. QwBudget = 0 \/ qwUsed[t].checked + k <= QwBudget - 1 + m
  BY DEF BudgetInv, BudgetHolds
<1> HIDE DEF k, m
<1>4. QwBudget = 0 \/ qwUsed'[t].checked + k <= QwBudget - 1 + m
  BY <1>1, <1>2, <1>3, QwAssumption
<1> QED
  BY <1>4 DEF k, m

\* A multiple grows with its factor.
LEMMA Multiples ==
    ASSUME NEW c \in Nat, NEW a \in Nat, NEW b \in Nat, a <= b PROVE c * a <= c * b
<1>1. PICK d \in Nat : b = a + d
  <2>1. b - a \in Nat /\ b = a + (b - a)
    OBVIOUS
  <2> QED
    BY <2>1
<1>2. c * b = c * a + c * d
  BY <1>1
<1>3. c * d \in Nat /\ c * a \in Nat
  OBVIOUS
<1> QED
  BY <1>1, <1>2, <1>3

-----------------------------------------------------------------------------

\* A target's rows come and go without the budget.
LEMMA OthersKeep ==
    ASSUME BudgetInv, UNCHANGED <<qwReq, qwUsed>> PROVE BudgetInv'
BY DEF BudgetInv, QwTypes, Request, BudgetHolds, Busy

\* run: who is held against the budget had some left, and now counts as one that may
\* cost; the others do not count.
LEMMA AskKeeps ==
    ASSUME BudgetInv, NEW th \in QwThreads, NEW tenant \in QwTenants \cup {"admin"}, NEW body \in QwBodies,
           Ask(th, tenant, body)
    PROVE BudgetInv'
<1> DEFINE request == [at |-> "running", tenant |-> tenant, checked |-> TRUE, body |-> body,
                       got |-> <<>>, since |-> qwHeld.rows]
<1>1. qwUsed' = qwUsed /\ qwReq[th].at = "free"
  BY DEF Ask
<1>2. CASE tenant \in QwTenants /\ WithinBudget(tenant) /\ qwReq' = [qwReq EXCEPT ![th] = request]
  <2>1. QwTypes'
    BY <1>1, <1>2 DEF BudgetInv, QwTypes, Request
  <2>2. ASSUME NEW t \in QwTenants, t # tenant PROVE Busy(t)' = Busy(t)
    BY <1>1, <1>2, <2>2 DEF BudgetInv, QwTypes, Busy
  <2>3. QwBudget = 0 \/ qwUsed'[tenant].checked + QwMaxCost * Cardinality(Busy(tenant)')
                           <= QwBudget - 1 + QwMaxCost * Cardinality(QwThreads)
    <3>1. qwUsed[tenant].checked \in Nat /\ qwUsed[tenant].open \in Nat
      BY <1>2 DEF BudgetInv, QwTypes
    <3>2. QwBudget = 0 \/ qwUsed[tenant].checked <= QwBudget - 1
      BY <1>2, <3>1, QwAssumption DEF WithinBudget, Used
    <3>3. /\ Cardinality(Busy(tenant)') \in Nat /\ Cardinality(QwThreads) \in Nat
          /\ Cardinality(Busy(tenant)') <= Cardinality(QwThreads)
      <4>1. Busy(tenant)' \subseteq QwThreads
        BY DEF Busy
      <4> QED
        BY <4>1, FS_Subset, FS_CardinalityType, QwAssumption
    <3> DEFINE k == QwMaxCost * Cardinality(Busy(tenant)')
    <3> DEFINE m == QwMaxCost * Cardinality(QwThreads)
    <3>4. k \in Int /\ m \in Int /\ k <= m
      BY <3>3, Multiples, QwAssumption
    <3> HIDE DEF k, m
    <3>5. QwBudget = 0 \/ qwUsed[tenant].checked + k <= QwBudget - 1 + m
      BY <3>1, <3>2, <3>4, QwAssumption
    <3> QED
      BY <1>1, <3>5 DEF k, m
  <2>4. ASSUME NEW t \in QwTenants, t # tenant
        PROVE QwBudget = 0 \/ qwUsed'[t].checked + QwMaxCost * Cardinality(Busy(t)')
                                 <= QwBudget - 1 + QwMaxCost * Cardinality(QwThreads)
    <3>1. qwUsed'[t].checked \in Nat /\ qwUsed'[t].checked <= qwUsed[t].checked
      BY <1>1, <2>4 DEF BudgetInv, QwTypes
    <3> QED
      BY <2>2, <2>4, <3>1, SameBusy
  <2> QED
    BY <2>1, <2>3, <2>4 DEF BudgetInv, BudgetHolds
<1>3. CASE qwReq' = [qwReq EXCEPT ![th] = [request EXCEPT !.checked = FALSE]]
  <2>1. QwTypes'
    BY <1>1, <1>3 DEF BudgetInv, QwTypes, Request
  <2>2. ASSUME NEW t \in QwTenants
        PROVE /\ Busy(t)' = Busy(t)
              /\ qwUsed'[t].checked \in Nat /\ qwUsed'[t].checked <= qwUsed[t].checked
    BY <1>1, <1>3 DEF BudgetInv, QwTypes, Busy
  <2> QED
    BY <2>1, <2>2, SameBusy DEF BudgetInv, BudgetHolds
<1> QED
  BY <1>2, <1>3 DEF Ask

\* _run_one: the request stays one that runs.
LEMMA ProbeKeeps ==
    ASSUME BudgetInv, NEW th \in QwThreads, NEW asked, Probe(th, asked)
    PROVE BudgetInv'
<1>1. PICK got : qwReq' = [qwReq EXCEPT ![th].got = got]
  BY DEF Probe
<1>2. qwUsed' = qwUsed /\ qwReq[th].at = "running"
  BY DEF Probe
<1>3. Request(qwReq[th]) /\ DOMAIN qwReq = QwThreads
  BY DEF BudgetInv, QwTypes
<1>4. \A f \in {"at", "tenant", "checked"} : qwReq'[th][f] = qwReq[th][f] /\ f \in DOMAIN qwReq'[th]
  BY <1>1, <1>2, <1>3 DEF Request
<1>5. \A u \in QwThreads : u # th => qwReq'[u] = qwReq[u]
  BY <1>1, <1>3
<1>6. QwTypes'
  BY <1>1, <1>2, <1>3, <1>4, <1>5 DEF BudgetInv, QwTypes, Request
<1>7. ASSUME NEW t \in QwTenants
      PROVE /\ Busy(t)' = Busy(t)
            /\ qwUsed'[t].checked \in Nat /\ qwUsed'[t].checked <= qwUsed[t].checked
  BY <1>2, <1>4, <1>5 DEF BudgetInv, QwTypes, Busy
<1> QED
  BY <1>6, <1>7, SameBusy DEF BudgetInv, BudgetHolds

\* query_cost.record: what the request cost takes the place of what it could have cost.
LEMMA FinishKeeps ==
    ASSUME BudgetInv, NEW th \in QwThreads, NEW cost \in 0 .. QwMaxCost, QwFinish(th, cost)
    PROVE BudgetInv'
<1> DEFINE r == qwReq[th]
<1>1. r.at = "running" /\ Request(r) /\ DOMAIN qwReq = QwThreads
  BY DEF QwFinish, BudgetInv, QwTypes
<1>2. /\ cost \in Nat /\ cost <= QwMaxCost
      /\ \A t \in QwTenants : qwUsed[t].checked \in Nat /\ qwUsed[t].open \in Nat
  BY QwAssumption DEF BudgetInv, QwTypes
<1>3. qwReq'[th].at = "answered" /\ \A u \in QwThreads : u # th => qwReq'[u] = qwReq[u]
  BY <1>1 DEF QwFinish
<1>4. DOMAIN qwReq' = QwThreads /\ \A u \in QwThreads : Request(qwReq'[u])
  <2>1. DOMAIN qwReq' = QwThreads
    BY <1>1 DEF QwFinish
  <2> QED
    BY <2>1, <1>3 DEF BudgetInv, QwTypes, Request
<1>5. Account(th, cost)
  BY DEF QwFinish
<1>6. CASE r.tenant # "admin" /\ r.checked
  <2> PICK who \in QwTenants : who = r.tenant
    BY <1>1, <1>6 DEF Request
  <2>2. qwUsed' = [qwUsed EXCEPT ![who].checked = @ + cost]
    BY <1>5, <1>6 DEF Account
  <2>3. QwTypes'
    BY <1>2, <1>4, <2>2 DEF BudgetInv, QwTypes
  <2>4. ASSUME NEW t \in QwTenants, t # who
        PROVE /\ Busy(t)' = Busy(t)
              /\ qwUsed'[t].checked \in Nat /\ qwUsed'[t].checked <= qwUsed[t].checked
    <3>1. Busy(t)' = Busy(t)
      BY <1>1, <1>3, <2>4 DEF Busy
    <3>2. qwUsed'[t] = qwUsed[t]
      BY <2>2, <2>4 DEF BudgetInv, QwTypes
    <3> QED
      BY <1>2, <3>1, <3>2
  <2>5. QwBudget = 0 \/ qwUsed'[who].checked + QwMaxCost * Cardinality(Busy(who)')
                           <= QwBudget - 1 + QwMaxCost * Cardinality(QwThreads)
    <3>1. Busy(who)' = Busy(who) \ {th} /\ th \in Busy(who)
      BY <1>1, <1>3, <1>6 DEF Busy
    <3>2. Cardinality(Busy(who)') = Cardinality(Busy(who)) - 1
      BY <3>1, BusyCounts, FS_RemoveElement
    <3>3. Cardinality(Busy(who)) \in Nat /\ Cardinality(QwThreads) \in Nat
      BY BusyCounts
    <3> DEFINE k == QwMaxCost * Cardinality(Busy(who))
    <3> DEFINE m == QwMaxCost * Cardinality(QwThreads)
    <3>4. k \in Int /\ m \in Int
      BY <3>3, QwAssumption
    <3>5. QwMaxCost * Cardinality(Busy(who)') = k - QwMaxCost
      BY <3>2, <3>3, QwAssumption
    <3>6. QwBudget = 0 \/ qwUsed[who].checked + k <= QwBudget - 1 + m
      BY DEF BudgetInv, BudgetHolds
    <3>7. qwUsed'[who].checked = qwUsed[who].checked + cost
      BY <2>2 DEF BudgetInv, QwTypes
    <3> HIDE DEF k, m
    <3>8. QwBudget = 0 \/ qwUsed'[who].checked + (k - QwMaxCost) <= QwBudget - 1 + m
      BY <1>2, <3>4, <3>6, <3>7, QwAssumption
    <3> QED
      BY <3>5, <3>8 DEF m
  <2>6. \A t \in QwTenants :
           QwBudget = 0 \/ qwUsed'[t].checked + QwMaxCost * Cardinality(Busy(t)')
                              <= QwBudget - 1 + QwMaxCost * Cardinality(QwThreads)
    BY <2>4, <2>5, SameBusy
  <2> QED
    BY <2>3, <2>6 DEF BudgetInv, BudgetHolds
<1>7. CASE r.tenant = "admin" \/ ~r.checked
  <2>1. ~r.checked
    BY <1>1, <1>7, QwAssumption DEF Request
  <2>2. \/ qwUsed' = qwUsed
        \/ r.tenant \in QwTenants /\ qwUsed' = [qwUsed EXCEPT ![r.tenant].open = @ + cost]
    BY <1>1, <1>5, <2>1 DEF Account, Request
  <2>3. QwTypes'
    BY <1>2, <1>4, <2>2 DEF BudgetInv, QwTypes
  <2>4. ASSUME NEW t \in QwTenants
        PROVE /\ Busy(t)' = Busy(t)
              /\ qwUsed'[t].checked \in Nat /\ qwUsed'[t].checked <= qwUsed[t].checked
    <3>1. Busy(t)' = Busy(t)
      BY <1>1, <1>3, <2>1 DEF Busy
    <3>2. qwUsed'[t].checked = qwUsed[t].checked
      BY <2>2 DEF BudgetInv, QwTypes
    <3> QED
      BY <1>2, <3>1, <3>2
  <2> QED
    BY <2>3, <2>4, SameBusy DEF BudgetInv, BudgetHolds
<1> QED
  BY <1>6, <1>7

\* The answer is sent.
LEMMA LeaveKeeps ==
    ASSUME BudgetInv, NEW th \in QwThreads, Leave(th) PROVE BudgetInv'
<1>1. qwUsed' = qwUsed /\ QwTypes'
  BY DEF Leave, BudgetInv, QwTypes, Request, QwFree
<1>2. ASSUME NEW t \in QwTenants
      PROVE /\ Busy(t)' = Busy(t)
            /\ qwUsed'[t].checked \in Nat /\ qwUsed'[t].checked <= qwUsed[t].checked
  BY <1>1 DEF Leave, BudgetInv, QwTypes, QwFree, Busy
<1> QED
  BY <1>1, <1>2, SameBusy DEF BudgetInv, BudgetHolds

\* consumed_ms: the window forgets.
LEMMA WindowKeeps ==
    ASSUME BudgetInv, NEW t \in QwTenants,
           NEW checked \in 0 .. qwUsed[t].checked, NEW open \in 0 .. qwUsed[t].open,
           WindowRolls(t, checked, open)
    PROVE BudgetInv'
<1>1. qwReq' = qwReq /\ qwUsed' = [qwUsed EXCEPT ![t] = [checked |-> checked, open |-> open]]
  BY DEF WindowRolls
<1>2. /\ checked \in Nat /\ open \in Nat /\ checked <= qwUsed[t].checked
      /\ \A u \in QwTenants : qwUsed[u].checked \in Nat
  BY DEF BudgetInv, QwTypes
<1>3. QwTypes'
  BY <1>1, <1>2 DEF BudgetInv, QwTypes
<1>4. ASSUME NEW u \in QwTenants
      PROVE /\ Busy(u)' = Busy(u)
            /\ qwUsed'[u].checked \in Nat /\ qwUsed'[u].checked <= qwUsed[u].checked
  BY <1>1, <1>2 DEF BudgetInv, QwTypes, Busy
<1> QED
  BY <1>3, <1>4, SameBusy DEF BudgetInv, BudgetHolds

-----------------------------------------------------------------------------

LEMMA BudgetStarts == ASSUME NEW rows, QwStart(rows) PROVE BudgetInv
<1>1. QwTypes
  BY DEF QwStart, QwFree, QwTypes, Request
<1>2. \A t \in QwTenants : Busy(t) = {} /\ qwUsed[t].checked = 0
  BY DEF QwStart, QwFree, Busy
<1>3. QwMaxCost * Cardinality(QwThreads) \in Nat
  BY FS_CardinalityType, QwAssumption
<1> DEFINE m == QwMaxCost * Cardinality(QwThreads)
<1> HIDE DEF m
<1>4. QwMaxCost * 0 = 0
  BY QwAssumption
<1>5. QwBudget = 0 \/ 0 + 0 <= QwBudget - 1 + m
  BY <1>3, QwAssumption DEF m
<1>6. BudgetHolds
  BY <1>2, <1>4, <1>5, FS_EmptySet DEF BudgetHolds, m
<1> QED
  BY <1>1, <1>6 DEF BudgetInv

LEMMA BudgetSteps == ASSUME BudgetInv, [QwNext]_qwVars PROVE BudgetInv'
<1>1. CASE UNCHANGED qwVars
  BY <1>1, OthersKeep DEF qwVars
<1>2. ASSUME NEW th \in QwThreads, NEW tenant \in QwTenants \cup {"admin"}, NEW body \in QwBodies,
             Ask(th, tenant, body)
      PROVE BudgetInv'
  BY <1>2, AskKeeps
<1>3. ASSUME NEW th \in QwThreads, NEW asked, Probe(th, asked) PROVE BudgetInv'
  BY <1>3, ProbeKeeps
<1>4. ASSUME NEW th \in QwThreads, NEW cost \in 0 .. QwMaxCost, QwFinish(th, cost) PROVE BudgetInv'
  BY <1>4, FinishKeeps
<1>5. ASSUME NEW th \in QwThreads, Leave(th) PROVE BudgetInv'
  BY <1>5, LeaveKeeps
<1>6. ASSUME NEW leaf, NEW sym, TargetGoesDown(leaf) \/ TargetComesUp(leaf) \/ RowArrives(leaf, sym)
      PROVE BudgetInv'
  BY <1>6, OthersKeep DEF TargetGoesDown, TargetComesUp, RowArrives
<1>7. ASSUME NEW t \in QwTenants, NEW checked \in 0 .. qwUsed[t].checked,
             NEW open \in 0 .. qwUsed[t].open, WindowRolls(t, checked, open)
      PROVE BudgetInv'
  BY <1>7, WindowKeeps
<1> QED
  BY <1>1, <1>2, <1>3, <1>4, <1>5, <1>6, <1>7 DEF QwNext

\* However many requests of a tenant pass the check at the same time, they go over its
\* budget by what they cost and no more: query_cost.check_budget reads what record has
\* not yet written.
THEOREM BudgetIsHeld == ASSUME NEW rows PROVE QwSpec(rows) => []BudgetHolds
<1>1. QwStart(rows) => BudgetInv
  BY BudgetStarts
<1>2. BudgetInv /\ [QwNext]_qwVars => BudgetInv'
  BY BudgetSteps
<1>3. BudgetInv => BudgetHolds
  BY DEF BudgetInv
<1> QED
  BY <1>1, <1>2, <1>3, PTL DEF QwSpec

-----------------------------------------------------------------------------
(* Users, tenants and directories *)

UpdateFields == {"at", "email", "change", "read", "tenant", "holds", "alone"}

\* An update that has been alone still finds what its request was allowed on.
Unchanged(r) ==
    /\ r.read = idUser[r.email]
    /\ \E token \in idToken :
          /\ RequireAdmin(token) /\ token.tenant = r.tenant
          /\ Holds(token) /\ ~Refuses(token, r.email, r.change)

\* What a request is about to write keeps the tenants apart.
AskedOk(r) ==
    /\ r.at \in {"free", "insert", "update", "updated", "away", "provision"}
    /\ "alone" \in DOMAIN r <=> r.at = "update"
    /\ r.at = "insert" =>
          /\ DOMAIN r.row = UserColumns /\ r.row.role \in AssignableRoles
          /\ r.row.tenant \in idTenant \cup r.new /\ NoTenant \notin r.new
    /\ r.at = "update" =>
          /\ DOMAIN r = UpdateFields /\ r.email \in DOMAIN idUser
          /\ r.tenant = idUser[r.email].tenant /\ r.tenant # NoTenant
          /\ "tenant" \notin DOMAIN r.change
          /\ "role" \in DOMAIN r.change => r.change.role \in AssignableRoles
          /\ r.holds /\ r.alone => Unchanged(r)
    /\ r.at = "updated" => (r.sure => r.admins # {})
    /\ r.at = "away" => r.slug \in idTenant
    /\ r.at = "provision" =>
          /\ r.role # "platform_admin" /\ r.slug \in idTenant
          /\ r.found # {} => r.email \in DOMAIN idUser /\ idUser[r.email].tenant = r.slug

RowsOk ==
    /\ DOMAIN IdSeed \subseteq DOMAIN idUser
    /\ \A e \in DOMAIN idUser : DOMAIN idUser[e] = UserColumns
    /\ NoTenant \notin idTenant
    /\ \A e \in DOMAIN IdSeed : IdSeed[e].tenant \in idTenant \cup {NoTenant}
    /\ idReq = [t \in IdThreads |-> idReq[t]]

IdInv == TenantsAreKept /\ RowsOk /\ \A t \in IdThreads : AskedOk(idReq[t])

LEMMA InvIdentity == IdInv => IdentityHolds
  BY DEF IdInv, IdentityHolds, AdminsRemain, AskedOk

\* What a directory says never makes an operator.
LEMMA NeverAnOperator == ASSUME NEW config, NEW memberships PROVE ResolveRole(config, memberships) # "platform_admin"
<1> DEFINE mapped == {config.map[g] : g \in memberships \cap DOMAIN config.map} \cup {config.default}
           best == CHOOSE r \in mapped : \A other \in mapped : Rank(other) <= Rank(r)
<1>1. ResolveRole(config, memberships) = IF best = "platform_admin" THEN "tenant_admin" ELSE best
  BY DEF ResolveRole
<1> HIDE DEF best
<1> QED
  BY <1>1

\* A user's tenant is one that exists, or the platform.
LEMMA UserIsOfATenant ==
    ASSUME IdInv, NEW e \in DOMAIN idUser
    PROVE  idUser[e].tenant \in idTenant \cup {NoTenant}
  BY DEF IdInv, TenantsAreKept, RowsOk

\* A step that writes no row: a request goes on, a token is given.
LEMMA AskKeepsIdentity ==
    ASSUME IdInv, NEW t \in IdThreads, NEW x, idReq' = [idReq EXCEPT ![t] = x],
           UNCHANGED <<idUser, idTenant>>, idToken \subseteq idToken', AskedOk(x),
           \A token \in idToken' \ idToken :
              \E e \in DOMAIN idUser : token = Token(e, idUser[e])
    PROVE  IdInv'
<1>1. idReq'[t] = x /\ (\A u \in IdThreads : u # t => idReq'[u] = idReq[u]) /\ idReq' = [u \in IdThreads |-> idReq'[u]]
  BY DEF IdInv, RowsOk
<1>2. RowsOk'
  BY <1>1 DEF IdInv, RowsOk
<1>3. TenantsAreKept'
  <2>1. ASSUME NEW token \in idToken'
        PROVE  /\ token.email \in DOMAIN idUser /\ token.tenant = idUser[token.email].tenant
               /\ (token.role = "platform_admin") <=> (token.tenant = NoTenant)
    <3>1. CASE token \in idToken
      BY <3>1 DEF IdInv, TenantsAreKept
    <3>2. CASE token \notin idToken
      <4>1. PICK e \in DOMAIN idUser : token = Token(e, idUser[e])
        BY <3>2
      <4>2. token.email = e /\ token.tenant = idUser[e].tenant /\ token.role = idUser[e].role
        BY <4>1 DEF Token
      <4> QED
        BY <4>2 DEF IdInv, TenantsAreKept
    <3> QED
      BY <3>1, <3>2
  <2> QED
    BY <2>1 DEF IdInv, TenantsAreKept
<1>4. ASSUME NEW u \in IdThreads PROVE AskedOk(idReq[u])'
  <2>1. PICK r : r = idReq'[u]
    OBVIOUS
  <2>2. AskedOk(r)
    BY <1>1, <2>1 DEF IdInv
  <2>3. Unchanged(r) => Unchanged(r)'
    BY DEF Unchanged, RequireAdmin, Holds, Refuses, Remaining, Admins
  <2>4. AskedOk(r)'
    BY <2>2, <2>3 DEF AskedOk
  <2> QED
    BY <2>1, <2>4
<1> QED
  BY <1>2, <1>3, <1>4 DEF IdInv

\* A step that writes the row of a user, new or not.
LEMMA WriteKeepsIdentity ==
    ASSUME IdInv, NEW t \in IdThreads, NEW x, Wrote(t, x), NEW email, NEW row,
           idUser' = Upsert(idUser, email, row), DOMAIN row = UserColumns,
           idTenant \subseteq idTenant', NoTenant \notin idTenant',
           \/ email \in DOMAIN idUser /\ row.tenant = idUser[email].tenant
           \/ email \notin DOMAIN idUser /\ row.tenant \in idTenant',
           (row.role = "platform_admin") <=> (row.tenant = NoTenant),
           idToken' \in {idToken, idToken \cup {Token(email, row)}},
           x.at \in {"free", "updated"}, "alone" \notin DOMAIN x,
           x.at = "updated" => (x.sure => x.admins # {})
    PROVE  IdInv'
<1>1. /\ email \in DOMAIN idUser' /\ idUser'[email] = row /\ DOMAIN idUser' = DOMAIN idUser \cup {email}
      /\ \A e \in DOMAIN idUser : idUser'[e].tenant = idUser[e].tenant
      /\ \A e \in DOMAIN idUser : e # email => idUser'[e] = idUser[e]
  BY DEF Upsert
<1>2. /\ idReq'[t] = x /\ idReq' = [u \in IdThreads |-> idReq'[u]]
      /\ \A u \in IdThreads : u # t =>
            idReq'[u] = IF "alone" \in DOMAIN idReq[u] THEN [idReq[u] EXCEPT !.alone = FALSE] ELSE idReq[u]
  BY DEF Wrote
<1>3. RowsOk'
  <2>1. \A e \in DOMAIN idUser' : DOMAIN idUser'[e] = UserColumns
    BY <1>1 DEF IdInv, RowsOk
  <2> QED
    BY <1>1, <1>2, <2>1 DEF IdInv, RowsOk
<1>4. TenantsAreKept'
  <2>1. ASSUME NEW e \in DOMAIN idUser'
        PROVE  /\ (idUser'[e].role = "platform_admin") <=> (idUser'[e].tenant = NoTenant)
               /\ IF e \in DOMAIN IdSeed THEN idUser'[e].tenant = IdSeed[e].tenant
                  ELSE idUser'[e].tenant \in idTenant'
    <3>1. CASE e = email
      BY <1>1, <3>1 DEF IdInv, TenantsAreKept, RowsOk
    <3>2. CASE e # email
      BY <1>1, <3>2 DEF IdInv, TenantsAreKept
    <3> QED
      BY <3>1, <3>2
  <2>2. ASSUME NEW token \in idToken'
        PROVE  /\ token.email \in DOMAIN idUser' /\ token.tenant = idUser'[token.email].tenant
               /\ (token.role = "platform_admin") <=> (token.tenant = NoTenant)
    <3>1. CASE token \in idToken
      BY <1>1, <3>1 DEF IdInv, TenantsAreKept
    <3>2. CASE token = Token(email, row)
      BY <1>1, <3>2 DEF Token
    <3> QED
      BY <3>1, <3>2
  <2> QED
    BY <2>1, <2>2 DEF TenantsAreKept
<1>5. AskedOk(idReq[t])'
  BY <1>2 DEF AskedOk
<1>6. ASSUME NEW u \in IdThreads, u # t PROVE AskedOk(idReq[u])'
  <2>1. PICK r : r = idReq[u]
    OBVIOUS
  <2>2. AskedOk(r)
    BY <2>1 DEF IdInv
  <2>3. CASE r.at = "update"
    <3>1. PICK s : s = [r EXCEPT !.alone = FALSE]
      OBVIOUS
    <3>2. idReq'[u] = s
      BY <1>2, <1>6, <2>1, <2>2, <2>3, <3>1 DEF AskedOk
    <3>3. /\ DOMAIN s = UpdateFields /\ s.at = r.at /\ s.email = r.email /\ s.change = r.change
          /\ s.tenant = r.tenant /\ s.alone = FALSE
      BY <2>2, <2>3, <3>1 DEF AskedOk, UpdateFields
    <3>4. AskedOk(s)'
      BY <1>1, <2>2, <2>3, <3>3 DEF AskedOk, UpdateFields
    <3> QED
      BY <3>2, <3>4
  <2>4. CASE r.at # "update"
    <3>1. idReq'[u] = r
      BY <1>2, <1>6, <2>1, <2>2, <2>4 DEF AskedOk
    <3>2. AskedOk(r)'
      BY <1>1, <2>2, <2>4 DEF AskedOk
    <3> QED
      BY <3>1, <3>2
  <2> QED
    BY <2>3, <2>4
<1> QED
  BY <1>3, <1>4, <1>5, <1>6 DEF IdInv

\* A thread that serves nothing asks for nothing.
LEMMA FreeOk == AskedOk(IdFree)
  BY DEF AskedOk, IdFree

LEMMA EndsKeeps ==
    ASSUME IdInv, NEW t \in IdThreads, IdEnds(t), UNCHANGED <<idUser, idTenant, idToken>>
    PROVE  IdInv'
  BY FreeOk, AskKeepsIdentity DEF IdEnds

LEMMA LoginKeeps == ASSUME IdInv, NEW t \in IdThreads, NEW email, Login(t, email) PROVE IdInv'
<1>1. idReq' = [idReq EXCEPT ![t] = idReq[t]] /\ AskedOk(idReq[t])
  BY DEF Login, IdInv, RowsOk
<1>2. email \in DOMAIN idUser /\ idToken' = idToken \cup {Token(email, idUser[email])} /\ UNCHANGED <<idUser, idTenant>>
  BY DEF Login, TokenGiven
<1>3. PICK x : x = idReq[t]
  OBVIOUS
<1> QED
  BY <1>1, <1>2, <1>3, AskKeepsIdentity

LEMMA PutDirectoryKeeps ==
    ASSUME IdInv, NEW t \in IdThreads, NEW token, NEW slug, NEW config, PutDirectory(t, token, slug, config)
    PROVE  IdInv'
<1>1. PICK x : x = idReq[t]
  OBVIOUS
<1>2. idReq' = [idReq EXCEPT ![t] = x] /\ AskedOk(x) /\ UNCHANGED <<idUser, idTenant, idToken>>
  BY <1>1 DEF PutDirectory, IdInv, RowsOk
<1> QED
  BY <1>2, AskKeepsIdentity

LEMMA CreateUserKeeps ==
    ASSUME IdInv, NEW t \in IdThreads, NEW token \in idToken, NEW email, NEW role,
           CreateUser(t, token, email, role)
    PROVE  IdInv'
<1>1. PICK x : x = [at |-> "insert", email |-> email, new |-> {}, row |-> NewUser(token.tenant, role)]
  OBVIOUS
<1>2. token.tenant \in idTenant /\ role \in AssignableRoles
  BY UserIsOfATenant DEF CreateUser, RequireAdmin, IdInv, TenantsAreKept
<1>3. AskedOk(x)
  BY <1>1, <1>2 DEF AskedOk, NewUser, UserColumns
<1>4. idReq' = [idReq EXCEPT ![t] = x] /\ UNCHANGED <<idUser, idTenant, idToken>>
  BY <1>1 DEF CreateUser, SameRows
<1> QED
  BY <1>3, <1>4, AskKeepsIdentity

LEMMA CreateTenantKeeps ==
    ASSUME IdInv, NEW t \in IdThreads, NEW token \in idToken, NEW slug \in IdTenants, NEW email,
           CreateTenant(t, token, slug, email)
    PROVE  IdInv'
<1>1. PICK x : x = [at |-> "insert", email |-> email, new |-> {slug}, row |-> NewUser(slug, "tenant_admin")]
  OBVIOUS
<1>2. AskedOk(x)
  BY <1>1, IdentityAssumption DEF AskedOk, NewUser, UserColumns, AssignableRoles, Roles
<1>3. idReq' = [idReq EXCEPT ![t] = x] /\ UNCHANGED <<idUser, idTenant, idToken>>
  BY <1>1 DEF CreateTenant, SameRows
<1> QED
  BY <1>2, <1>3, AskKeepsIdentity

LEMMA InsertKeeps == ASSUME IdInv, NEW t \in IdThreads, Insert(t) PROVE IdInv'
<1>1. PICK r : r = idReq[t]
  OBVIOUS
<1>2. r.at = "insert" /\ AskedOk(r) /\ UNCHANGED idToken
  BY <1>1 DEF Insert, IdInv
<1>3. CASE r.email \in DOMAIN idUser \/ r.new \cap idTenant # {}
  BY <1>1, <1>2, <1>3, EndsKeeps DEF Insert
<1>4. CASE ~(r.email \in DOMAIN idUser \/ r.new \cap idTenant # {})
  <2>1. /\ idUser' = Upsert(idUser, r.email, r.row) /\ idTenant' = idTenant \cup r.new /\ Wrote(t, IdFree)
    BY <1>1, <1>4 DEF Insert
  <2>2. /\ DOMAIN r.row = UserColumns /\ r.row.role # "platform_admin"
        /\ r.row.tenant \in idTenant' /\ NoTenant \notin idTenant'
    BY <1>2, <2>1 DEF AskedOk, AssignableRoles, IdInv, RowsOk
  <2>3. IdFree.at = "free" /\ "alone" \notin DOMAIN IdFree
    BY DEF IdFree
  <2>4. idTenant \subseteq idTenant' /\ r.row.tenant # NoTenant
    BY <2>1, <2>2
  <2> QED
    BY <1>2, <1>4, <2>1, <2>2, <2>3, <2>4, WriteKeepsIdentity
<1> QED
  BY <1>3, <1>4

LEMMA UpdateUserKeeps ==
    ASSUME IdInv, NEW t \in IdThreads, NEW token \in idToken, NEW email, NEW change \in IdChanges,
           UpdateUser(t, token, email, change)
    PROVE  IdInv'
<1>1. PICK h : h = Holds(token)
  OBVIOUS
<1>2. PICK x : x = [at |-> "update", email |-> email, change |-> change, read |-> idUser[email],
                    tenant |-> token.tenant, holds |-> h, alone |-> TRUE]
  OBVIOUS
<1>3. /\ email \in DOMAIN idUser /\ idUser[email].tenant = token.tenant /\ RequireAdmin(token)
      /\ ~Refuses(token, email, change) /\ token.tenant # NoTenant
  BY DEF UpdateUser, RequireAdmin
<1>4. "tenant" \notin DOMAIN change /\ ("role" \in DOMAIN change => change.role \in AssignableRoles)
  BY <1>3 DEF IdChanges, Refuses
<1>5. x.at = "update" /\ x.email = email /\ x.change = change /\ x.read = idUser[email] /\ x.tenant = token.tenant
  BY <1>2
<1>6. x.holds => Holds(token)
  BY <1>1, <1>2
<1>7. x.holds /\ x.alone => Unchanged(x)
  BY <1>3, <1>5, <1>6 DEF Unchanged
<1>8. DOMAIN x = UpdateFields
  BY <1>2 DEF UpdateFields
<1>9. AskedOk(x)
  BY <1>3, <1>4, <1>5, <1>7, <1>8 DEF AskedOk, UpdateFields
<1>10. idReq' = [idReq EXCEPT ![t] = x] /\ UNCHANGED <<idUser, idTenant, idToken>>
  BY <1>1, <1>2 DEF UpdateUser, SameRows
<1> QED
  BY <1>9, <1>10, AskKeepsIdentity

\* What an administrator who is one changes, with nothing beside it, leaves one.
LEMMA AnAdminRemains ==
    ASSUME IdInv, NEW r, AskedOk(r), r.at = "update", Unchanged(r),
           NEW row, row = Committed(idUser[r.email], r.read, r.change)
    PROVE  Admins(Upsert(idUser, r.email, row), r.tenant) # {}
<1> DEFINE users == Upsert(idUser, r.email, row)
<1>1. PICK token \in idToken :
         /\ RequireAdmin(token) /\ token.tenant = r.tenant
         /\ Holds(token) /\ ~Refuses(token, r.email, r.change)
  BY DEF Unchanged
<1>2. /\ token.email \in DOMAIN idUser /\ token.role = "tenant_admin"
      /\ idUser[token.email].active /\ idUser[token.email].role = "tenant_admin"
      /\ idUser[token.email].tenant = r.tenant
  <2>1. Token(token.email, idUser[token.email]).role = idUser[token.email].role
    BY DEF Token
  <2> QED
    BY <1>1, <2>1 DEF IdInv, TenantsAreKept, RequireAdmin, Holds
<1>3. /\ DOMAIN users = DOMAIN idUser \cup {r.email} /\ users[r.email] = row
      /\ \A e \in DOMAIN idUser : e # r.email => users[e] = idUser[e]
  BY DEF Upsert
<1> HIDE DEF users
<1>4. CASE token.email # r.email
  <2>1. token.email \in Admins(users, r.tenant)
    BY <1>2, <1>3, <1>4 DEF Admins
  <2> QED
    BY <2>1 DEF users
<1>5. CASE token.email = r.email /\ Remaining(r.tenant, r.email) # {}
  <2>1. PICK e : e \in Admins(idUser, r.tenant) /\ e # r.email
    BY <1>5 DEF Remaining
  <2>2. e \in Admins(users, r.tenant)
    BY <1>3, <2>1 DEF Admins
  <2> QED
    BY <2>2 DEF users
<1>6. CASE token.email = r.email /\ Remaining(r.tenant, r.email) = {}
  <2>1. /\ "role" \in DOMAIN r.change => r.change.role = "tenant_admin"
        /\ "active" \in DOMAIN r.change => r.change.active
    BY <1>1, <1>6 DEF Refuses
  <2>2. DOMAIN idUser[r.email] = UserColumns /\ r.read = idUser[r.email] /\ r.email \in DOMAIN idUser
    BY DEF IdInv, RowsOk, AskedOk, Unchanged
  <2>3. \A f \in UserColumns : row[f] = IF f \in DOMAIN r.change THEN r.change[f] ELSE r.read[f]
    BY <2>2 DEF Committed
  <2>4. row.role = "tenant_admin" /\ row.tenant = r.tenant
    BY <1>2, <1>6, <2>1, <2>2, <2>3 DEF AskedOk, UserColumns
  <2>5. row.active
    <3>1. CASE "active" \in DOMAIN r.change
      BY <2>1, <2>3, <3>1 DEF UserColumns
    <3>2. CASE "active" \notin DOMAIN r.change
      BY <1>2, <1>6, <2>2, <2>3, <3>2 DEF UserColumns
    <3> QED
      BY <3>1, <3>2
  <2>6. r.email \in Admins(users, r.tenant)
    BY <1>3, <2>4, <2>5 DEF Admins
  <2> QED
    BY <2>6 DEF users
<1> QED
  BY <1>4, <1>5, <1>6

LEMMA UpdateCommitsKeeps == ASSUME IdInv, NEW t \in IdThreads, UpdateCommits(t) PROVE IdInv'
<1>1. PICK r : r = idReq[t]
  OBVIOUS
<1>2. r.at = "update" /\ AskedOk(r) /\ r.email \in DOMAIN idUser /\ UNCHANGED <<idTenant, idToken>>
  BY <1>1 DEF UpdateCommits, IdInv, AskedOk
<1>3. PICK row : row = Committed(idUser[r.email], r.read, r.change)
  OBVIOUS
<1>4. [idUser EXCEPT ![r.email] = Committed(@, r.read, r.change)] = Upsert(idUser, r.email, row)
  <2>1. DOMAIN idUser \cup {r.email} = DOMAIN idUser
    BY <1>2
  <2> QED
    BY <1>3, <2>1 DEF Upsert
<1>5. PICK users : users = Upsert(idUser, r.email, row)
  OBVIOUS
<1>6. PICK x : x = [at |-> "updated", sure |-> r.holds /\ r.alone, admins |-> Admins(users, r.tenant)]
  OBVIOUS
<1>7. idUser' = users /\ Wrote(t, x)
  BY <1>1, <1>4, <1>5, <1>6 DEF UpdateCommits
<1>8. x.at = "updated" /\ "alone" \notin DOMAIN x /\ (x.sure => x.admins # {})
  <2>1. r.holds /\ r.alone => Admins(users, r.tenant) # {}
    BY <1>2, <1>3, <1>5, AnAdminRemains DEF AskedOk
  <2> QED
    BY <1>6, <2>1
<1>9. DOMAIN row = UserColumns /\ row.tenant = idUser[r.email].tenant
  BY <1>2, <1>3 DEF Committed, AskedOk, IdInv, RowsOk, UserColumns
<1>10. row.tenant # NoTenant /\ row.role # "platform_admin"
  <2>1. row.tenant # NoTenant /\ idUser[r.email].role # "platform_admin"
    BY <1>2, <1>9 DEF AskedOk, IdInv, TenantsAreKept
  <2>2. row.role = idUser[r.email].role \/ ("role" \in DOMAIN r.change /\ row.role = r.change.role)
    BY <1>2, <1>3 DEF Committed, IdInv, RowsOk, UserColumns
  <2> QED
    BY <1>2, <2>1, <2>2 DEF AskedOk, AssignableRoles
<1>11. NoTenant \notin idTenant'
  BY <1>2 DEF IdInv, RowsOk
<1> QED
  BY <1>2, <1>5, <1>7, <1>8, <1>9, <1>10, <1>11, WriteKeepsIdentity

LEMMA SsoLoginKeeps == ASSUME IdInv, NEW t \in IdThreads, NEW slug, SsoLogin(t, slug) PROVE IdInv'
<1>1. PICK x : x = [at |-> "away", slug |-> slug, authority |-> idDir[<<slug, "entra">>].authority]
  OBVIOUS
<1>2. AskedOk(x)
  BY <1>1 DEF AskedOk, SsoLogin, Configured
<1>3. idReq' = [idReq EXCEPT ![t] = x] /\ UNCHANGED <<idUser, idTenant, idToken>>
  BY <1>1 DEF SsoLogin, SameRows
<1> QED
  BY <1>2, <1>3, AskKeepsIdentity

\* An identity has one name at most, so that whom it is found as is whom it is provisioned as.
LEMMA OneName ==
    ASSUME NEW person \in IdPeople, NEW config
    PROVE  /\ \A a, b \in ExtractIdentity(person).emails : a = b
           /\ \A a, b \in LdapIdentity(config, person).emails : a = b
<1>1. person.names \in Seq(DOMAIN IdDomain) /\ \A a, b \in person.typed : a = b
  BY IdentityAssumption
<1>2. \A a, b \in FirstName(person.names) : a = b
  BY <1>1 DEF FirstName
<1> QED
  BY <1>1, <1>2 DEF ExtractIdentity, LdapIdentity

\* What a directory says of a user makes a row of its own tenant only.
LEMMA IdentifiedKeeps ==
    ASSUME IdInv, NEW t \in IdThreads, NEW slug \in idTenant, NEW config, NEW identity,
           \A a, b \in identity.emails : a = b, Identified(t, slug, config, identity), SameRows
    PROVE  IdInv'
<1> DEFINE found == identity.emails \cap DOMAIN idUser
<1>1. PICK email \in identity.emails :
         /\ \A e \in found : idUser[e].tenant = slug /\ idUser[e].active
         /\ idReq' = [idReq EXCEPT ![t] =
               [at |-> "provision", slug |-> slug, email |-> email, kind |-> config.kind,
                role |-> ResolveRole(config, identity.memberships), found |-> {idUser[e] : e \in found}]]
  BY DEF Identified
<1>2. PICK x : x = [at |-> "provision", slug |-> slug, email |-> email, kind |-> config.kind,
                    role |-> ResolveRole(config, identity.memberships), found |-> {idUser[e] : e \in found}]
  OBVIOUS
<1>3. x.found # {} => email \in found
  <2>1. x.found # {} => \E e : e \in found
    BY <1>2
  <2> QED
    BY <2>1
<1>4. x.role # "platform_admin"
  BY <1>2, NeverAnOperator
<1>5. x.at = "provision" /\ "alone" \notin DOMAIN x /\ x.slug = slug /\ x.email = email
  BY <1>2
<1>6. AskedOk(x)
  BY <1>1, <1>3, <1>4, <1>5 DEF AskedOk
<1>7. idReq' = [idReq EXCEPT ![t] = x] /\ UNCHANGED <<idUser, idTenant, idToken>>
  BY <1>1, <1>2 DEF SameRows
<1> QED
  BY <1>6, <1>7, AskKeepsIdentity

LEMMA SsoCallbackKeeps ==
    ASSUME IdInv, NEW t \in IdThreads, NEW slug \in idTenant, NEW person \in IdPeople,
           SsoCallback(t, slug, person)
    PROVE  IdInv'
<1>1. SameRows
  BY DEF SsoCallback
<1>2. CASE IdEnds(t)
  BY <1>1, <1>2, EndsKeeps DEF SameRows
<1>3. CASE Identified(t, slug, idDir[<<slug, "entra">>], ExtractIdentity(person))
  BY <1>1, <1>3, OneName, IdentifiedKeeps
<1> QED
  BY <1>2, <1>3 DEF SsoCallback

LEMMA LdapLoginKeeps ==
    ASSUME IdInv, NEW t \in IdThreads, NEW slug \in idTenant, NEW person \in IdPeople,
           LdapLogin(t, slug, person)
    PROVE  IdInv'
<1>1. PICK config : config = idDir[<<slug, "ldap">>]
  OBVIOUS
<1>2. SameRows /\ Identified(t, slug, config, LdapIdentity(config, person))
  BY <1>1 DEF LdapLogin
<1> QED
  BY <1>2, OneName, IdentifiedKeeps

LEMMA ProvisionKeeps == ASSUME IdInv, NEW t \in IdThreads, Provision(t) PROVE IdInv'
<1>1. PICK r : r = idReq[t]
  OBVIOUS
<1>2. r.at = "provision" /\ AskedOk(r) /\ UNCHANGED idTenant
  BY <1>1 DEF Provision, IdInv
<1> DEFINE login == [role |-> r.role, provider |-> r.kind]
           made == [NewUser(r.slug, r.role) EXCEPT !.password = FALSE, !.provider = r.kind]
           kept == Committed(idUser[r.email], CHOOSE read \in r.found : TRUE, login)
<1>3. PICK row : row = IF r.found = {} THEN made ELSE kept
  OBVIOUS
<1>4. CASE r.email \in DOMAIN idUser /\ r.found = {}
  BY <1>1, <1>2, <1>4, EndsKeeps DEF Provision
<1>5. CASE ~(r.email \in DOMAIN idUser /\ r.found = {})
  <2>1. idUser' = Upsert(idUser, r.email, row) /\ TokenGiven(r.email, row) /\ Wrote(t, IdFree)
    BY <1>1, <1>3, <1>5 DEF Provision
  <2>2. idToken' = idToken \cup {Token(r.email, row)}
    BY <2>1 DEF TokenGiven
  <2>3. IdFree.at = "free" /\ "alone" \notin DOMAIN IdFree
    BY DEF IdFree
  <2>4. idTenant \subseteq idTenant' /\ NoTenant \notin idTenant'
    BY <1>2 DEF IdInv, RowsOk
  <2>5. r.slug \in idTenant /\ r.slug # NoTenant /\ r.role # "platform_admin"
    BY <1>2, <2>4 DEF AskedOk
  <2>6. CASE r.found = {}
    <3>1. row = made
      BY <1>3, <2>6
    <3>2. DOMAIN row = UserColumns /\ row.tenant = r.slug /\ row.role = r.role
      BY <3>1 DEF NewUser, UserColumns
    <3> HIDE DEF made, kept, login
    <3> QED
      BY <1>2, <1>5, <2>1, <2>2, <2>3, <2>4, <2>5, <2>6, <3>2, WriteKeepsIdentity
  <2>7. CASE r.found # {}
    <3>1. row = kept
      BY <1>3, <2>7
    <3>2. r.email \in DOMAIN idUser /\ idUser[r.email].tenant = r.slug /\ DOMAIN idUser[r.email] = UserColumns
      BY <1>2, <2>7 DEF AskedOk, IdInv, RowsOk
    <3>3. PICK read : row = Committed(idUser[r.email], read, login)
      BY <3>1
    <3>4. DOMAIN row = UserColumns /\ row.tenant = r.slug
      BY <3>2, <3>3 DEF Committed, UserColumns
    <3>5. row.role # "platform_admin"
      <4>1. idUser[r.email].role # "platform_admin"
        BY <2>5, <3>2 DEF IdInv, TenantsAreKept
      <4>2. row.role = idUser[r.email].role \/ row.role = r.role
        BY <3>2, <3>3 DEF Committed, UserColumns
      <4> QED
        BY <2>5, <4>1, <4>2
    <3> HIDE DEF made, kept, login
    <3> QED
      BY <1>2, <2>1, <2>2, <2>3, <2>4, <2>5, <3>2, <3>4, <3>5, WriteKeepsIdentity
  <2> QED
    BY <2>6, <2>7
<1> QED
  BY <1>4, <1>5

LEMMA IdentityStutters == ASSUME IdInv, UNCHANGED idVars PROVE IdInv'
<1>1. UNCHANGED <<idUser, idTenant, idToken, idReq>>
  BY DEF idVars
<1>2. TenantsAreKept' /\ RowsOk'
  BY <1>1 DEF IdInv, TenantsAreKept, RowsOk
<1>3. ASSUME NEW u \in IdThreads PROVE AskedOk(idReq[u])'
  <2>1. PICK r : r = idReq[u]
    OBVIOUS
  <2>2. AskedOk(r) /\ (Unchanged(r) => Unchanged(r)')
    BY <1>1, <2>1 DEF IdInv, Unchanged, RequireAdmin, Holds, Refuses, Remaining, Admins
  <2>3. AskedOk(r)'
    BY <1>1, <2>2 DEF AskedOk
  <2> QED
    BY <1>1, <2>1, <2>3
<1> QED
  BY <1>2, <1>3 DEF IdInv

LEMMA IdInitInv == IdInit => IdInv
<1> SUFFICES ASSUME IdInit PROVE IdInv
  OBVIOUS
<1>1. /\ idUser = IdSeed /\ idTenant = {IdSeed[e].tenant : e \in DOMAIN IdSeed} \ {NoTenant}
      /\ idToken = {} /\ idReq = [t \in IdThreads |-> IdFree]
  BY DEF IdInit
<1>2. TenantsAreKept
  BY <1>1, IdentityAssumption DEF TenantsAreKept
<1>3. RowsOk
  BY <1>1, IdentityAssumption DEF RowsOk
<1> QED
  BY <1>1, <1>2, <1>3, FreeOk DEF IdInv

LEMMA IdStepInv == IdInv /\ [IdNext]_idVars => IdInv'
<1> SUFFICES ASSUME IdInv, [IdNext]_idVars PROVE IdInv'
  OBVIOUS
<1>1. CASE UNCHANGED idVars
  BY <1>1, IdentityStutters
<1>2. CASE IdNext
  <2>1. PICK t \in IdThreads :
          \/ \E email \in IdEmails :
                \/ Login(t, email)
                \/ \E token \in idToken :
                      \/ \E role \in AssignableRoles : CreateUser(t, token, email, role)
                      \/ \E slug \in IdTenants : CreateTenant(t, token, slug, email)
                      \/ \E change \in IdChanges : UpdateUser(t, token, email, change)
          \/ Insert(t) \/ UpdateCommits(t) \/ UpdateAnswers(t) \/ Provision(t)
          \/ \E token \in idToken, slug \in IdTenants, config \in IdConfigs :
                PutDirectory(t, token, slug, config)
          \/ \E slug \in IdTenants : SsoLogin(t, slug)
          \/ \E slug \in idTenant, person \in IdPeople : SsoCallback(t, slug, person) \/ LdapLogin(t, slug, person)
    BY <1>2, Zenon DEF IdNext
  <2>2. CASE UpdateAnswers(t)
    BY <2>2, EndsKeeps DEF UpdateAnswers, SameRows
  <2> QED
    BY <2>1, <2>2, LoginKeeps, CreateUserKeeps, CreateTenantKeeps, UpdateUserKeeps, InsertKeeps,
       UpdateCommitsKeeps, ProvisionKeeps, PutDirectoryKeeps, SsoLoginKeeps, SsoCallbackKeeps, LdapLoginKeeps
<1> QED
  BY <1>1, <1>2

\* Tenants are kept apart, and keep an administrator, whatever is asked by whom.
THEOREM IdentityIsKept == IdSpec => []IdentityHolds
  BY IdInitInv, IdStepInv, InvIdentity, PTL DEF IdSpec

-----------------------------------------------------------------------------
(* The rows of feed handlers *)

FrColumns == {"tenant", "provider", "enabled", "config", "secrets", "house"}

\* A house that is one of the tenant's, or was.
WasItsHouse(row) == row.house = NoHouse \/ row.house \in frOwned[row.tenant]

\* A row as create or the attach of a house makes it.
MadeOk(row) ==
    /\ DOMAIN row = FrColumns /\ WasItsHouse(row)
    /\ \E e \in Entry(row.provider) :
          (row.enabled => e.support = "decoder_implemented") /\ e.needs \subseteq row.secrets

\* A row in the table: an update may have given other credentials.
StoredOk(id, row) ==
    /\ DOMAIN row = FrColumns /\ WasItsHouse(row)
    /\ \E e \in Entry(row.provider) :
          /\ row.enabled => e.support = "decoder_implemented"
          /\ e.needs \subseteq row.secrets \/ <<id, row.secrets>> \in frGiven

\* An update that is about to commit was checked on the row of the number it has, unless
\* the number was given out again.
UpdateOk(r) ==
    /\ r.id \in frCount.ids
    /\ DOMAIN r.row = FrColumns /\ DOMAIN r.read = FrColumns
    /\ r.row.provider = r.read.provider /\ r.row.tenant = r.read.tenant
    /\ WasItsHouse(r.row)
    /\ Enableable(r.read.provider, r.row.enabled)
    /\ ~r.given => r.row.secrets = r.read.secrets
    /\ r.id \in DOMAIN frRows \ frReused =>
          frRows[r.id].provider = r.read.provider /\ frRows[r.id].tenant = r.read.tenant

\* A house that is about to get its feed handler was its tenant's.
AttachOk(r) == \A body \in r.body : body.house \in frOwned[r.tenant]

HandlerAsked(r) ==
    /\ r.at = "insert" => MadeOk(r.row)
    /\ r.at = "update" => UpdateOk(r)
    /\ r.at = "attach" => AttachOk(r)

FrInv ==
    /\ frReq = [t \in FrThreads |-> frReq[t]] /\ frOwned = [tenant \in FrTenants |-> frOwned[tenant]]
    /\ frCount = [requests |-> frCount.requests, ids |-> frCount.ids]
    /\ \A h \in DOMAIN frHouses : h \in frOwned[frHouses[h]]
    /\ DOMAIN frRows \subseteq frCount.ids
    /\ \A id \in DOMAIN frRows \ frReused : StoredOk(id, frRows[id])
    /\ \A id \in DOMAIN frRows : DOMAIN frRows[id] = FrColumns
    /\ \A t \in FrThreads : HandlerAsked(frReq[t])

LEMMA InvHandlerRows == FrInv => HandlerRowsAreSound
  BY DEF FrInv, HandlerRowsAreSound, StoredOk, WasItsHouse

\* What the catalogue can run is what it has a decoder for.
LEMMA EnableableHasDecoder ==
    ASSUME NEW provider, NEW enabled, Enableable(provider, enabled), enabled,
           NEW e \in Entry(provider)
    PROVE  e.support = "decoder_implemented"
  BY DEF Enableable, Entry, FrCatalog

\* A house that a tenant may name was its own all along.
LEMMA HousesWere ==
    ASSUME FrInv, NEW tenant, NEW house, HouseOf(tenant, house)
    PROVE  house = NoHouse \/ house \in frOwned[tenant]
  BY DEF FrInv, HouseOf

\* A row that a request builds has what the catalogue demands.
LEMMA BuiltIsMade ==
    ASSUME FrInv, NEW tenant, NEW body, Declarable(body),
           HouseOf(tenant, body.house) \/ body.house \in frOwned[tenant]
    PROVE  MadeOk(Row(tenant, body))
<1>1. PICK row : row = Row(tenant, body)
  OBVIOUS
<1>2. /\ DOMAIN row = FrColumns /\ row.tenant = tenant /\ row.provider = body.provider
      /\ row.enabled = body.enabled /\ row.secrets = body.secrets /\ row.house = body.house
  BY <1>1 DEF Row, FrColumns
<1>3. PICK e \in Entry(body.provider) : e.needs \subseteq body.secrets
  BY DEF Declarable, Credentials
<1>4. body.enabled => e.support = "decoder_implemented"
  BY EnableableHasDecoder DEF Declarable
<1>5. WasItsHouse(row)
  BY <1>2, HousesWere DEF WasItsHouse
<1> QED
  BY <1>1, <1>2, <1>3, <1>4, <1>5 DEF MadeOk

\* A request goes on; tables, and what is known of them, stay or grow.
LEMMA HandlerAskKeeps ==
    ASSUME FrInv, NEW t \in FrThreads, NEW x, frReq' = [frReq EXCEPT ![t] = x],
           UNCHANGED <<frRows, frGiven, frReused>>, frCount'.ids = frCount.ids,
           frCount' = [requests |-> frCount'.requests, ids |-> frCount'.ids],
           frOwned' = [tenant \in FrTenants |-> frOwned'[tenant]],
           \A tenant : frOwned[tenant] \subseteq frOwned'[tenant],
           \A h \in DOMAIN frHouses' : h \in frOwned'[frHouses'[h]],
           HandlerAsked(x) \/ HandlerAsked(x)'
    PROVE  FrInv'
<1>1. frReq'[t] = x /\ (\A u \in FrThreads : u # t => frReq'[u] = frReq[u]) /\ frReq' = [u \in FrThreads |-> frReq'[u]]
  BY DEF FrInv
<1>2. ASSUME NEW r, HandlerAsked(r) PROVE HandlerAsked(r)'
  BY <1>2 DEF HandlerAsked, MadeOk, UpdateOk, AttachOk, WasItsHouse
<1>3. \A u \in FrThreads : HandlerAsked(frReq[u])'
  <2>1. SUFFICES ASSUME NEW u \in FrThreads PROVE HandlerAsked(frReq[u])'
    OBVIOUS
  <2>2. PICK r : r = frReq'[u]
    OBVIOUS
  <2>3. HandlerAsked(r) \/ HandlerAsked(r)'
    BY <1>1, <2>2 DEF FrInv
  <2>4. HandlerAsked(r)'
    BY <1>2, <2>3
  <2> QED
    BY <2>2, <2>4
<1>4. \A id \in DOMAIN frRows' \ frReused' : StoredOk(id, frRows[id])'
  <2>1. SUFFICES ASSUME NEW id \in DOMAIN frRows \ frReused PROVE StoredOk(id, frRows[id])'
    OBVIOUS
  <2>2. StoredOk(id, frRows[id])
    BY DEF FrInv
  <2> QED
    BY <2>2 DEF StoredOk, WasItsHouse
<1> QED
  BY <1>1, <1>3, <1>4 DEF FrInv

LEMMA CreateHandlerKeeps ==
    ASSUME FrInv, NEW t \in FrThreads, NEW tenant, NEW body, CreateHandler(t, tenant, body)
    PROVE  FrInv'
<1>1. PICK x : x = IF Builds(tenant, body) THEN [at |-> "insert", row |-> Row(tenant, body)] ELSE frReq[t]
  OBVIOUS
<1>2. HandlerAsked(x)
  <2>1. CASE Builds(tenant, body)
    BY <1>1, <2>1, BuiltIsMade DEF HandlerAsked, Builds
  <2>2. CASE ~Builds(tenant, body)
    BY <1>1, <2>2 DEF FrInv
  <2> QED
    BY <2>1, <2>2
<1>3. frReq' = [frReq EXCEPT ![t] = x]
  BY <1>1 DEF CreateHandler, FrInv
<1> QED
  BY <1>2, <1>3, HandlerAskKeeps DEF CreateHandler, FrBegins, Known, FrInv

LEMMA UpdateHandlerKeeps ==
    ASSUME FrInv, NEW t \in FrThreads, NEW tenant, NEW id, NEW body, UpdateHandler(t, tenant, id, body)
    PROVE  FrInv'
<1>1. /\ UNCHANGED <<frRows, frGiven, frReused, frOwned, frHouses>> /\ frCount'.ids = frCount.ids
      /\ frCount' = [requests |-> frCount'.requests, ids |-> frCount'.ids]
  BY DEF UpdateHandler, FrBegins, Known, FrInv
<1>2. CASE Scoped(tenant, id) /\ MayUpdate(frRows[id], body)
  <2>1. PICK row : row = Updated(frRows[id], body)
    OBVIOUS
  <2>2. PICK x : x = [at |-> "update", id |-> id, read |-> frRows[id], row |-> row, given |-> body.secrets # {}]
    OBVIOUS
  <2>3. id \in DOMAIN frRows /\ DOMAIN frRows[id] = FrColumns /\ id \in frCount.ids
    BY <1>2 DEF Scoped, FrInv
  <2>4. /\ DOMAIN row = FrColumns /\ row.provider = frRows[id].provider /\ row.tenant = frRows[id].tenant
        /\ row.house = body.house /\ row.enabled = body.enabled
        /\ body.secrets = {} => row.secrets = frRows[id].secrets
    BY <2>1, <2>3 DEF Updated, FrColumns
  <2>5. WasItsHouse(row)
    BY <1>2, <2>4, HousesWere DEF MayUpdate, WasItsHouse
  <2>6. Enableable(frRows[id].provider, row.enabled)
    BY <1>2, <2>4 DEF MayUpdate
  <2>7. HandlerAsked(x)
    BY <2>2, <2>3, <2>4, <2>5, <2>6 DEF HandlerAsked, UpdateOk
  <2>8. frReq' = [frReq EXCEPT ![t] = x]
    BY <1>2, <2>1, <2>2 DEF UpdateHandler
  <2> QED
    BY <1>1, <2>7, <2>8, HandlerAskKeeps DEF FrInv
<1>3. CASE ~(Scoped(tenant, id) /\ MayUpdate(frRows[id], body))
  <2>1. PICK x : x = frReq[t]
    OBVIOUS
  <2>2. frReq' = [frReq EXCEPT ![t] = x] /\ HandlerAsked(x)
    BY <1>3, <2>1 DEF UpdateHandler, FrInv
  <2> QED
    BY <1>1, <2>2, HandlerAskKeeps DEF FrInv
<1> QED
  BY <1>2, <1>3

LEMMA DeleteHandlerKeeps ==
    ASSUME FrInv, NEW t \in FrThreads, NEW tenant, NEW id, DeleteHandler(t, tenant, id)
    PROVE  FrInv'
<1>1. PICK x : x = IF Scoped(tenant, id) THEN [at |-> "delete", id |-> id] ELSE frReq[t]
  OBVIOUS
<1>2. HandlerAsked(x)
  BY <1>1 DEF HandlerAsked, FrInv
<1>3. frReq' = [frReq EXCEPT ![t] = x]
  BY <1>1 DEF DeleteHandler, FrInv
<1> QED
  BY <1>2, <1>3, HandlerAskKeeps DEF DeleteHandler, FrBegins, Known, FrInv

LEMMA CreateHouseKeeps ==
    ASSUME FrInv, NEW t \in FrThreads, NEW tenant \in FrTenants, NEW bodies \in SUBSET FrBodies,
           FrCreateHouse(t, tenant, bodies)
    PROVE  FrInv'
<1>1. PICK id : id = Next1(frHouses)
  OBVIOUS
<1>2. PICK x : x = IF bodies = {} THEN FrFree
                   ELSE [at |-> "attach", tenant |-> tenant, body |-> {[b EXCEPT !.house = id] : b \in bodies}]
  OBVIOUS
<1>4. /\ frHouses' = FrWith(frHouses, id, tenant) /\ frOwned' = [frOwned EXCEPT ![tenant] = @ \cup {id}]
      /\ frReq' = [frReq EXCEPT ![t] = x] /\ UNCHANGED <<frRows, frGiven, frReused>>
      /\ frCount'.ids = frCount.ids /\ frCount' = [requests |-> frCount'.requests, ids |-> frCount'.ids]
  BY <1>1, <1>2 DEF FrCreateHouse, FrBegins, FrInv
<1>5. frOwned' = [o \in FrTenants |-> frOwned'[o]]
  BY <1>4 DEF FrInv
<1>6. \A o : frOwned[o] \subseteq frOwned'[o]
  BY <1>4 DEF FrInv
<1>7. id \in frOwned'[tenant]
  BY <1>4 DEF FrInv
<1>8. \A h \in DOMAIN frHouses' : h \in frOwned'[frHouses'[h]]
  BY <1>4, <1>6, <1>7 DEF FrInv, FrWith
<1>3. HandlerAsked(x)'
  <2>1. \A b \in bodies : [b EXCEPT !.house = id].house = id
    BY FeedHandlerRowsAssumption
  <2> QED
    BY <1>2, <1>7, <2>1 DEF HandlerAsked, AttachOk, FrFree
<1> QED
  BY <1>3, <1>4, <1>5, <1>6, <1>8, HandlerAskKeeps

LEMMA AttachKeeps == ASSUME FrInv, NEW t \in FrThreads, AttachHandler(t) PROVE FrInv'
<1>1. PICK tenant : tenant = frReq[t].tenant
  OBVIOUS
<1>2. PICK body \in frReq[t].body :
         \/ Declarable(body) /\ frReq' = [frReq EXCEPT ![t] = [at |-> "insert", row |-> Row(tenant, body)]]
         \/ FrEnds(t)
  BY <1>1 DEF AttachHandler
<1>3. PICK x : /\ frReq' = [frReq EXCEPT ![t] = x]
               /\ x = FrFree \/ (Declarable(body) /\ x = [at |-> "insert", row |-> Row(tenant, body)])
  BY <1>2 DEF FrEnds
<1>4. body.house \in frOwned[tenant]
  BY <1>1, <1>2 DEF AttachHandler, FrInv, HandlerAsked, AttachOk
<1>5. HandlerAsked(x)
  BY <1>3, <1>4, BuiltIsMade DEF HandlerAsked, FrFree
<1> QED
  BY <1>3, <1>5, HandlerAskKeeps DEF AttachHandler, Known, FrInv

LEMMA DeleteHouseKeeps == ASSUME FrInv, NEW tenant, NEW id, FrDeleteHouse(tenant, id) PROVE FrInv'
<1>1. /\ UNCHANGED <<frRows, frGiven, frReused, frOwned, frReq>> /\ frCount'.ids = frCount.ids
      /\ frCount' = [requests |-> frCount'.requests, ids |-> frCount'.ids]
      /\ frHouses' = FrWithout(frHouses, id)
  BY DEF FrDeleteHouse, Known, FrInv
<1>2. \A h \in DOMAIN frHouses' : h \in frOwned'[frHouses'[h]]
  BY <1>1 DEF FrInv, FrWithout
<1>3. ASSUME NEW t \in FrThreads PROVE HandlerAsked(frReq[t])'
  BY <1>1 DEF FrInv, HandlerAsked, MadeOk, UpdateOk, AttachOk, WasItsHouse
<1>4. \A k \in DOMAIN frRows' \ frReused' : StoredOk(k, frRows[k])'
  BY <1>1 DEF FrInv, StoredOk, WasItsHouse
<1> QED
  BY <1>1, <1>2, <1>3, <1>4 DEF FrInv

\* A number that had not been given out has no request that was checked on an earlier row.
LEMMA InsertRowKeeps == ASSUME FrInv, NEW t \in FrThreads, InsertRow(t) PROVE FrInv'
<1>1. PICK id : id = Next1(frRows)
  OBVIOUS
<1>2. PICK row : row = frReq[t].row
  OBVIOUS
<1>3. /\ frRows' = FrWith(frRows, id, row) /\ frReused' = frReused \cup ({id} \cap frCount.ids)
      /\ frCount'.ids = frCount.ids \cup {id} /\ frReq' = [frReq EXCEPT ![t] = FrFree]
      /\ frCount' = [requests |-> frCount'.requests, ids |-> frCount'.ids]
      /\ UNCHANGED <<frHouses, frOwned, frGiven>>
  BY <1>1, <1>2 DEF InsertRow, FrEnds, FrInv
<1>4. MadeOk(row)
  BY <1>2 DEF InsertRow, FrInv, HandlerAsked
<1>5. /\ DOMAIN frRows' = DOMAIN frRows \cup {id} /\ frRows'[id] = row
      /\ \A k \in DOMAIN frRows : k # id => frRows'[k] = frRows[k]
  BY <1>3 DEF FrWith
<1>6. /\ \A k \in DOMAIN frRows' : DOMAIN frRows'[k] = FrColumns
      /\ DOMAIN frRows' \subseteq frCount'.ids
  BY <1>3, <1>4, <1>5 DEF FrInv, MadeOk
<1>7. ASSUME NEW k \in DOMAIN frRows' \ frReused' PROVE StoredOk(k, frRows[k])'
  <2>1. CASE k = id
    <3>1. StoredOk(k, row)'
      BY <1>3, <1>4 DEF StoredOk, MadeOk, WasItsHouse
    <3> QED
      BY <1>5, <2>1, <3>1
  <2>2. CASE k # id
    <3>1. PICK other : other = frRows[k]
      OBVIOUS
    <3>2. StoredOk(k, other)
      BY <1>3, <1>5, <2>2, <3>1 DEF FrInv
    <3>3. StoredOk(k, other)'
      BY <1>3, <3>2 DEF StoredOk, WasItsHouse
    <3> QED
      BY <1>5, <2>2, <3>1, <3>3
  <2> QED
    BY <2>1, <2>2
<1>8. ASSUME NEW u \in FrThreads PROVE HandlerAsked(frReq[u])'
  <2>1. CASE u = t
    BY <1>3, <2>1 DEF HandlerAsked, FrFree, FrInv
  <2>2. CASE u # t
    <3>1. PICK r : r = frReq[u]
      OBVIOUS
    <3>2. HandlerAsked(r) /\ frReq'[u] = r
      BY <1>3, <2>2, <3>1 DEF FrInv
    <3>3. r.at = "update" => UpdateOk(r)'
      <4>1. SUFFICES ASSUME r.at = "update" PROVE UpdateOk(r)'
        OBVIOUS
      <4>2. UpdateOk(r)
        BY <3>2, <4>1 DEF HandlerAsked
      <4>3. r.id \in DOMAIN frRows' \ frReused' => r.id # id /\ r.id \in DOMAIN frRows \ frReused
        BY <1>3, <1>5, <4>2 DEF UpdateOk
      <4> QED
        BY <1>3, <1>5, <4>2, <4>3 DEF UpdateOk, WasItsHouse, Enableable
    <3>4. r.at = "insert" => MadeOk(r.row)'
      BY <1>3, <3>2 DEF HandlerAsked, MadeOk, WasItsHouse
    <3>5. r.at = "attach" => AttachOk(r)'
      BY <1>3, <3>2 DEF HandlerAsked, AttachOk
    <3> QED
      BY <3>2, <3>3, <3>4, <3>5 DEF HandlerAsked
  <2> QED
    BY <2>1, <2>2
<1>9. frReq' = [u \in FrThreads |-> frReq'[u]] /\ frOwned' = [tenant \in FrTenants |-> frOwned'[tenant]]
  BY <1>3 DEF FrInv
<1>10. \A h \in DOMAIN frHouses' : h \in frOwned'[frHouses'[h]]
  BY <1>3 DEF FrInv
<1> QED
  BY <1>3, <1>6, <1>7, <1>8, <1>9, <1>10 DEF FrInv

\* The table changes, but no row becomes another's.
LEMMA TableKeeps ==
    ASSUME FrInv, NEW t \in FrThreads, frReq' = [frReq EXCEPT ![t] = FrFree],
           UNCHANGED <<frHouses, frOwned, frReused, frCount>>, frGiven \subseteq frGiven',
           DOMAIN frRows' \subseteq DOMAIN frRows,
           \A k \in DOMAIN frRows' : /\ DOMAIN frRows'[k] = FrColumns
                                     /\ frRows'[k].provider = frRows[k].provider
                                     /\ frRows'[k].tenant = frRows[k].tenant,
           \A k \in DOMAIN frRows' \ frReused : StoredOk(k, frRows[k])'
    PROVE  FrInv'
<1>1. ASSUME NEW u \in FrThreads PROVE HandlerAsked(frReq[u])'
  <2>1. CASE u = t
    BY <2>1 DEF HandlerAsked, FrFree, FrInv
  <2>2. CASE u # t
    <3>1. PICK r : r = frReq[u]
      OBVIOUS
    <3>2. HandlerAsked(r) /\ frReq'[u] = r
      BY <2>2, <3>1 DEF FrInv
    <3>3. HandlerAsked(r)'
      BY <3>2 DEF HandlerAsked, MadeOk, UpdateOk, AttachOk, WasItsHouse
    <3> QED
      BY <3>2, <3>3
  <2> QED
    BY <2>1, <2>2
<1> QED
  BY <1>1 DEF FrInv

LEMMA CommitUpdateKeeps == ASSUME FrInv, NEW t \in FrThreads, CommitUpdate(t) PROVE FrInv'
<1>1. PICK r : r = frReq[t]
  OBVIOUS
<1>2. /\ UpdateOk(r) /\ frReq' = [frReq EXCEPT ![t] = FrFree] /\ UNCHANGED <<frHouses, frOwned, frReused, frCount>>
  BY <1>1 DEF CommitUpdate, FrEnds, FrInv, HandlerAsked
<1>3. CASE r.id \notin DOMAIN frRows
  <2>1. UNCHANGED <<frRows, frGiven>>
    BY <1>1, <1>3 DEF CommitUpdate
  <2>2. \A k \in DOMAIN frRows' \ frReused : StoredOk(k, frRows[k])'
    BY <1>2, <2>1 DEF FrInv, StoredOk, WasItsHouse
  <2> QED
    BY <1>2, <2>1, <2>2, TableKeeps DEF FrInv
<1>4. CASE r.id \in DOMAIN frRows
  <2>1. PICK old : old = frRows[r.id]
    OBVIOUS
  <2>2. PICK new : new = [f \in DOMAIN old |-> IF Writes(r, f) THEN r.row[f] ELSE old[f]]
    OBVIOUS
  <2>3. frRows' = [frRows EXCEPT ![r.id] = new] /\ frGiven' = frGiven \cup (IF r.given THEN {<<r.id, r.row.secrets>>} ELSE {})
    BY <1>1, <1>4, <2>1, <2>2 DEF CommitUpdate
  <2>4. DOMAIN old = FrColumns
    BY <1>4, <2>1 DEF FrInv
  <2>5. /\ DOMAIN new = FrColumns /\ new.provider = old.provider /\ new.tenant = old.tenant
        /\ new.enabled = old.enabled \/ new.enabled = r.row.enabled
        /\ new.house = old.house \/ new.house = r.row.house
        /\ new.secrets = old.secrets \/ (r.given /\ new.secrets = r.row.secrets)
    BY <1>2, <2>2, <2>4 DEF UpdateOk, Writes, FrColumns
  <2>6. ASSUME NEW k \in DOMAIN frRows' \ frReused PROVE StoredOk(k, frRows[k])'
    <3>1. CASE k = r.id
      <4>1. StoredOk(k, old) /\ r.row.tenant = old.tenant /\ r.read.provider = old.provider
        BY <1>2, <1>4, <2>1, <2>3, <3>1 DEF FrInv, UpdateOk
      <4>2. PICK e \in Entry(old.provider) :
               /\ old.enabled => e.support = "decoder_implemented"
               /\ e.needs \subseteq old.secrets \/ <<k, old.secrets>> \in frGiven
        BY <4>1 DEF StoredOk
      <4>3. new.enabled => e.support = "decoder_implemented"
        <5>1. CASE new.enabled = old.enabled
          BY <4>2, <5>1
        <5>2. CASE new.enabled = r.row.enabled
          BY <1>2, <4>1, <5>2, EnableableHasDecoder DEF UpdateOk
        <5> QED
          BY <2>5, <5>1, <5>2
      <4>4. e.needs \subseteq new.secrets \/ <<k, new.secrets>> \in frGiven'
        BY <2>3, <2>5, <3>1, <4>2
      <4>5. WasItsHouse(new)'
        BY <1>2, <2>5, <4>1 DEF UpdateOk, StoredOk, WasItsHouse
      <4>6. StoredOk(k, new)'
        BY <2>5, <4>3, <4>4, <4>5 DEF StoredOk
      <4> QED
        BY <1>4, <2>3, <3>1, <4>6
    <3>2. CASE k # r.id
      <4>1. PICK other : other = frRows[k]
        OBVIOUS
      <4>2. StoredOk(k, other) /\ frRows'[k] = other
        BY <2>3, <3>2, <4>1 DEF FrInv
      <4>3. StoredOk(k, other)'
        BY <1>2, <2>3, <4>2 DEF StoredOk, WasItsHouse
      <4> QED
        BY <4>2, <4>3
    <3> QED
      BY <3>1, <3>2
  <2>7. \A k \in DOMAIN frRows' : /\ DOMAIN frRows'[k] = FrColumns
                                  /\ frRows'[k].provider = frRows[k].provider
                                  /\ frRows'[k].tenant = frRows[k].tenant
    BY <2>1, <2>3, <2>5 DEF FrInv
  <2> QED
    BY <1>2, <2>3, <2>6, <2>7, TableKeeps
<1> QED
  BY <1>3, <1>4

LEMMA CommitDeleteKeeps == ASSUME FrInv, NEW t \in FrThreads, CommitDelete(t) PROVE FrInv'
<1>1. /\ frRows' = FrWithout(frRows, frReq[t].id) /\ frReq' = [frReq EXCEPT ![t] = FrFree]
      /\ UNCHANGED <<frHouses, frOwned, frReused, frCount, frGiven>>
  BY DEF CommitDelete, FrEnds, Known
<1>2. DOMAIN frRows' \subseteq DOMAIN frRows /\ \A k \in DOMAIN frRows' : frRows'[k] = frRows[k]
  BY <1>1 DEF FrWithout
<1>3. ASSUME NEW k \in DOMAIN frRows' \ frReused PROVE StoredOk(k, frRows[k])'
  <2>1. PICK row : row = frRows[k]
    OBVIOUS
  <2>2. StoredOk(k, row) /\ frRows'[k] = row
    BY <1>2, <2>1 DEF FrInv
  <2>3. StoredOk(k, row)'
    BY <1>1, <2>2 DEF StoredOk, WasItsHouse
  <2> QED
    BY <2>2, <2>3
<1> QED
  BY <1>1, <1>2, <1>3, TableKeeps DEF FrInv

LEMMA FrInitInv == FrInit => FrInv
  BY DEF FrInit, FrInv, HandlerAsked, FrFree

LEMMA FrStepInv == FrInv /\ [FrNext]_frVars => FrInv'
<1> SUFFICES ASSUME FrInv, [FrNext]_frVars PROVE FrInv'
  OBVIOUS
<1>1. CASE UNCHANGED frVars
  <2>1. UNCHANGED <<frHouses, frRows, frReq, frOwned, frGiven, frReused, frCount>>
    BY <1>1 DEF frVars
  <2>2. \A t \in FrThreads : HandlerAsked(frReq[t])'
    BY <2>1 DEF FrInv, HandlerAsked, MadeOk, UpdateOk, AttachOk, WasItsHouse
  <2>3. \A k \in DOMAIN frRows' \ frReused' : StoredOk(k, frRows[k])'
    BY <2>1 DEF FrInv, StoredOk, WasItsHouse
  <2> QED
    BY <2>1, <2>2, <2>3 DEF FrInv
<1>2. CASE FrNext
  <2>1. ASSUME NEW t \in FrThreads, NEW tenant \in FrTenants,
               \/ \E body \in FrBodies :
                     \/ CreateHandler(t, tenant, body) \/ FrCreateHouse(t, tenant, {body})
                     \/ \E id \in DOMAIN frRows : UpdateHandler(t, tenant, id, body)
               \/ FrCreateHouse(t, tenant, {})
               \/ \E id \in DOMAIN frRows : DeleteHandler(t, tenant, id)
        PROVE  FrInv'
    BY <2>1, CreateHandlerKeeps, CreateHouseKeeps, UpdateHandlerKeeps, DeleteHandlerKeeps
  <2>2. ASSUME NEW t \in FrThreads,
               InsertRow(t) \/ CommitUpdate(t) \/ CommitDelete(t) \/ AttachHandler(t)
        PROVE  FrInv'
    BY <2>2, InsertRowKeeps, CommitUpdateKeeps, CommitDeleteKeeps, AttachKeeps
  <2>3. ASSUME NEW tenant \in FrTenants, NEW id \in DOMAIN frHouses, FrDeleteHouse(tenant, id)
        PROVE  FrInv'
    BY <2>3, DeleteHouseKeeps
  <2> QED
    BY <1>2, <2>1, <2>2, <2>3 DEF FrNext
<1> QED
  BY <1>1, <1>2

\* A row in the table can run what it says, has what it needs and a house of its tenant's.
THEOREM HandlerRowsStaySound == FrSpec => []HandlerRowsAreSound
  BY FrInitInv, FrStepInv, InvHandlerRows, PTL DEF FrSpec

-----------------------------------------------------------------------------
(* The connectors *)

CnFields == {"at", "c", "op", "scope", "box", "clean"}

\* A request for the connector, what it wants of it, and where its switch or put is.
On(c, t) == cnReq[t].at # "idle" /\ cnReq[t].c = c
Wants(t) == <<cnReq[t].op, cnReq[t].scope>>
Stands(c, t, at) == On(c, t) /\ cnReq[t].at = at
Puts1(c) == \E t \in CnThreads : On(c, t) /\ cnReq[t].op = "put"

Agree(c) == cnRow[c].enabled <=> \E b \in cnBox[c] : b.up
BoxAs(c, op) == cnBox[c] # {} /\ \A b \in cnBox[c] : b.up <=> op = "start"

\* While a container is made anew it runs, or a request is about to go on with it.
BeingMade(c) ==
    /\ cnRow[c].enabled
    /\ \/ cnBox[c] # {} /\ \A b \in cnBox[c] : b.up
       \/ /\ cnBox[c] # {}
          /\ \E t \in CnThreads :
                Stands(c, t, "remove") /\ \A b \in cnBox[c] : b.n \in cnReq[t].box /\ ~b.up
       \/ cnBox[c] = {} /\ \E t \in CnThreads : Stands(c, t, "run")

CnReqOk(r) ==
    /\ r.at \in {"idle", "switch", "flip", "find", "halt", "remove", "run"}
    /\ r.at = "idle" <=> r = CnFree
    /\ r.at # "idle" =>
          /\ DOMAIN r = CnFields /\ r.c \in CnConnectors
          /\ r.op = "put" <=> r.at \in {"find", "halt", "remove", "run"}
          /\ r.op = "put" => r.c \in CnScoped

CnRowsOk ==
    /\ cnRow = [c \in CnConnectors |-> cnRow[c]]
    /\ \A c \in CnConnectors : DOMAIN cnRow[c] = {"enabled", "symbols"}

CnBoxesOk ==
    /\ cnBox = [c \in CnConnectors |-> cnBox[c]]
    /\ \A c \in CnConnectors :
          /\ \A b \in cnBox[c] : DOMAIN b = {"n", "up", "env"}
          /\ \A b, d \in cnBox[c] : b = d

CnReqsOk ==
    /\ cnReq = [t \in CnThreads |-> cnReq[t]]
    /\ \A t \in CnThreads : CnReqOk(cnReq[t])

CnType == CnRowsOk /\ CnBoxesOk /\ CnReqsOk

\* A connector whose requests were not crossed.
Steady(c) ==
    c \notin cnAstray =>
       /\ \A t, u \in CnThreads : On(c, t) /\ On(c, u) => Wants(t) = Wants(u)
       /\ \A t \in CnThreads : Stands(c, t, "flip") => BoxAs(c, cnReq[t].op)
       /\ IF Puts1(c) THEN BeingMade(c)
          ELSE (\E t \in CnThreads : Stands(c, t, "flip")) \/ Agree(c)
       /\ \A t, u \in CnThreads : Stands(c, t, "run") => cnBox[c] = {} /\ (Stands(c, u, "run") => u = t)

\* A request that was not crossed.
CleanOk(c, t) ==
    On(c, t) /\ cnReq[t].clean =>
       /\ \A u \in CnThreads : On(c, u) => Wants(u) = Wants(t)
       /\ cnReq[t].at = "flip" => BoxAs(c, cnReq[t].op)
       /\ cnReq[t].op = "put" => cnRow[c].enabled /\ cnRow[c].symbols = cnReq[t].scope

\* A connector whose symbols were last put with an answer that they are live.
Applied(c) ==
    c \in CnScoped \ cnUnapplied =>
       /\ \A b \in cnBox[c] : b.env = cnRow[c].symbols
       /\ \A t \in CnThreads : On(c, t) /\ cnReq[t].op = "put" => cnReq[t].scope = cnRow[c].symbols

ConnectorOk(c) == Steady(c) /\ Applied(c) /\ \A t \in CnThreads : CleanOk(c, t)

CnInv == CnType /\ \A c \in CnConnectors : ConnectorOk(c)

\* Where nothing is in flight no thread is at work.
LEMMA NobodyOn ==
    ASSUME CnType, NEW c, InFlight(c) = {}, NEW t \in CnThreads
    PROVE  ~On(c, t)
  BY DEF InFlight, On, CnType, CnReqsOk, CnReqOk

LEMMA InvConnectors == CnInv => ConnectorsTell
<1> SUFFICES ASSUME CnInv PROVE ConnectorsTell
  OBVIOUS
<1>1. ASSUME NEW c \in CnConnectors \ cnAstray, InFlight(c) = {}
      PROVE  cnRow[c].enabled <=> \E b \in cnBox[c] : b.up
  <2>1. \A t \in CnThreads : ~On(c, t)
    BY <1>1, NobodyOn DEF CnInv
  <2>2. Steady(c)
    BY DEF CnInv, ConnectorOk
  <2> QED
    BY <2>1, <2>2 DEF Steady, Puts1, Stands, Agree
<1>2. ASSUME NEW c \in CnScoped \ cnUnapplied, NEW b \in cnBox[c]
      PROVE  b.env = cnRow[c].symbols
  BY ConnectorsAssumption DEF CnInv, ConnectorOk, Applied
<1> QED
  BY <1>1, <1>2 DEF ConnectorsTell, SwitchTells, LiveAppliedTells

\* A step that leaves a connector, its container and its requests alone.
LEMMA OtherConnector ==
    ASSUME NEW d, ConnectorOk(d), cnRow'[d] = cnRow[d], cnBox'[d] = cnBox[d],
           d \in cnAstray' <=> d \in cnAstray, d \in cnUnapplied' <=> d \in cnUnapplied,
           \A u \in CnThreads : On(d, u)' <=> On(d, u),
           \A u \in CnThreads : On(d, u) => cnReq'[u] = cnReq[u]
    PROVE  ConnectorOk(d)'
<1>1. /\ \A u \in CnThreads : \A at : Stands(d, u, at)' <=> Stands(d, u, at)
      /\ \A u \in CnThreads : On(d, u) => Wants(u)' = Wants(u) /\ cnReq'[u] = cnReq[u]
      /\ \A op : BoxAs(d, op)' <=> BoxAs(d, op)
      /\ Agree(d)' <=> Agree(d)
  BY DEF Stands, Wants, BoxAs, Agree
<1>2. Puts1(d)' <=> Puts1(d)
  BY DEF Puts1
<1>3. BeingMade(d)' <=> BeingMade(d)
  <2>1. \A u \in CnThreads : Stands(d, u, "remove") => cnReq'[u] = cnReq[u]
    BY DEF Stands
  <2> QED
    BY <1>1, <2>1 DEF BeingMade
<1>4. Steady(d)'
  <2>1. \A u \in CnThreads : Stands(d, u, "flip") => cnReq'[u] = cnReq[u]
    BY DEF Stands
  <2> QED
    BY <1>1, <1>2, <1>3, <2>1 DEF Steady, ConnectorOk
<1>5. Applied(d)'
  BY <1>1 DEF Applied, ConnectorOk
<1>6. ASSUME NEW t \in CnThreads PROVE CleanOk(d, t)'
  BY <1>1 DEF CleanOk, ConnectorOk
<1> QED
  BY <1>4, <1>5, <1>6 DEF ConnectorOk

LEMMA FreeReqOk == CnReqOk(CnFree) /\ CnFree.at = "idle"
  BY DEF CnReqOk, CnFree

\* One request moves, the others stand:
LEMMA ReqChanged ==
    ASSUME CnReqsOk, NEW t \in CnThreads, NEW r, CnReqOk(r), cnReq' = [cnReq EXCEPT ![t] = r]
    PROVE  CnReqsOk' /\ cnReq'[t] = r /\ \A u \in CnThreads \ {t} : cnReq'[u] = cnReq[u]
<1>1. cnReq'[t] = r /\ \A u \in CnThreads \ {t} : cnReq'[u] = cnReq[u]
  BY Zenon DEF CnReqsOk
<1>2. cnReq' = [u \in CnThreads |-> cnReq'[u]]
  BY DEF CnReqsOk
<1>3. ASSUME NEW u \in CnThreads PROVE CnReqOk(cnReq'[u])
  BY <1>1, Zenon DEF CnReqsOk
<1> QED
  BY <1>1, <1>2, <1>3 DEF CnReqsOk, CnReqOk

\* to its next step,
LEMMA ReqMoves ==
    ASSUME CnReqsOk, NEW t \in CnThreads, NEW at, cnReq[t].at # "idle", MovesTo(t, at),
           at \in IF cnReq[t].op = "put" THEN {"find", "halt", "remove", "run"} ELSE {"switch", "flip"}
    PROVE  /\ CnReqsOk' /\ cnReq'[t] = [cnReq[t] EXCEPT !.at = at]
           /\ \A u \in CnThreads \ {t} : cnReq'[u] = cnReq[u]
           /\ cnReq'[t].at = at
           /\ \A f \in CnFields \ {"at"} : cnReq'[t][f] = cnReq[t][f]
<1>1. PICK r : r = [cnReq[t] EXCEPT !.at = at]
  OBVIOUS
<1>2. CnReqOk(cnReq[t]) /\ DOMAIN cnReq[t] = CnFields
  BY DEF CnReqsOk, CnReqOk
<1>3. r.at = at /\ (\A f \in CnFields \ {"at"} : r[f] = cnReq[t][f]) /\ DOMAIN r = CnFields
  BY <1>1, <1>2 DEF CnFields
<1>4. r.c = cnReq[t].c /\ r.op = cnReq[t].op
  BY <1>3 DEF CnFields
<1>5. CnReqOk(r)
  BY <1>2, <1>3, <1>4 DEF CnReqOk, CnFree
<1>6. cnReq' = [cnReq EXCEPT ![t] = r]
  BY <1>1, Zenon DEF MovesTo
<1> QED
  <2>1. CnReqsOk' /\ cnReq'[t] = r /\ \A u \in CnThreads \ {t} : cnReq'[u] = cnReq[u]
    BY <1>5, <1>6, ReqChanged
  <2> QED
    BY <1>1, <1>3, <2>1

\* or to its end.
LEMMA ReqEnds ==
    ASSUME CnReqsOk, NEW t \in CnThreads, CnEnds(t)
    PROVE  /\ CnReqsOk' /\ \A u \in CnThreads \ {t} : cnReq'[u] = cnReq[u]
           /\ cnReq'[t].at = "idle"
  BY FreeReqOk, ReqChanged, Zenon DEF CnEnds

\* Crossed turns the flag of a connector's requests, and nothing else.
LEMMA ReqsCrossed ==
    ASSUME NEW req, NEW c, NEW t \in CnThreads, CnReqOk(req[t])
    PROVE  LET r == Crossed(c, req)[t]
           IN /\ CnReqOk(r) /\ r.at = req[t].at
              /\ r.at # "idle" => \A f \in CnFields \ {"clean"} : r[f] = req[t][f]
              /\ r.at # "idle" /\ r.c = c => ~r.clean
              /\ r.at # "idle" /\ r.c # c => r = req[t]
<1>1. CASE req[t] # CnFree /\ req[t].c = c
  <2>1. PICK r : r = [req[t] EXCEPT !.clean = FALSE]
    OBVIOUS
  <2>2. Crossed(c, req)[t] = r
    BY <1>1, <2>1 DEF Crossed
  <2>3. req[t].at # "idle" /\ DOMAIN req[t] = CnFields
    BY <1>1 DEF CnReqOk
  <2>4. /\ DOMAIN r = CnFields /\ r.clean = FALSE /\ r.at = req[t].at /\ r.op = req[t].op
        /\ r.c = req[t].c /\ \A f \in CnFields \ {"clean"} : r[f] = req[t][f]
    BY <2>1, <2>3 DEF CnFields
  <2>5. CnReqOk(r)
    BY <2>3, <2>4 DEF CnReqOk, CnFree
  <2> QED
    BY <1>1, <2>2, <2>4, <2>5
<1>2. CASE ~(req[t] # CnFree /\ req[t].c = c)
  <2>1. Crossed(c, req)[t] = req[t]
    BY <1>2 DEF Crossed
  <2> QED
    BY <1>2, <2>1 DEF CnReqOk
<1> QED
  BY <1>1, <1>2

\* One connector's container is stopped or started,
LEMMA BoxSwitched ==
    ASSUME CnBoxesOk, NEW c \in CnConnectors, NEW up, Switched(c, up)
    PROVE  /\ CnBoxesOk' /\ \A d \in CnConnectors \ {c} : cnBox'[d] = cnBox[d]
           /\ cnBox'[c] = {} <=> cnBox[c] = {}
           /\ \A b \in cnBox'[c] : b.up = up /\ \E a \in cnBox[c] : b.n = a.n /\ b.env = a.env
<1>1. PICK boxes : boxes = {[box EXCEPT !.up = up] : box \in cnBox[c]}
  OBVIOUS
<1>2. cnBox' = [cnBox EXCEPT ![c] = boxes]
  BY <1>1, Zenon DEF Switched
<1>3. cnBox'[c] = boxes /\ \A d \in CnConnectors \ {c} : cnBox'[d] = cnBox[d]
  BY <1>2 DEF CnBoxesOk
<1>4. ASSUME NEW b \in boxes
      PROVE  \E a \in cnBox[c] :
                b = [a EXCEPT !.up = up] /\ b.up = up /\ b.n = a.n /\ b.env = a.env /\ DOMAIN b = {"n", "up", "env"}
  BY <1>1 DEF CnBoxesOk
<1>5. boxes = {} <=> cnBox[c] = {}
  BY <1>1
<1>6. \A b, d \in boxes : b = d
  BY <1>4 DEF CnBoxesOk
<1>7. CnBoxesOk'
  <2>1. cnBox' = [d \in CnConnectors |-> cnBox'[d]]
    BY <1>2 DEF CnBoxesOk
  <2>2. ASSUME NEW d \in CnConnectors
        PROVE  (\A b \in cnBox'[d] : DOMAIN b = {"n", "up", "env"}) /\ \A a, b \in cnBox'[d] : a = b
    BY <1>3, <1>4, <1>6 DEF CnBoxesOk
  <2> QED
    BY <2>1, <2>2 DEF CnBoxesOk
<1> QED
  BY <1>3, <1>4, <1>5, <1>7

\* replaced,
LEMMA BoxSet ==
    ASSUME CnBoxesOk, NEW c \in CnConnectors, NEW boxes, cnBox' = [cnBox EXCEPT ![c] = boxes],
           \A b \in boxes : DOMAIN b = {"n", "up", "env"}, \A b, d \in boxes : b = d
    PROVE  CnBoxesOk' /\ cnBox'[c] = boxes /\ \A d \in CnConnectors \ {c} : cnBox'[d] = cnBox[d]
<1>1. cnBox'[c] = boxes /\ \A d \in CnConnectors \ {c} : cnBox'[d] = cnBox[d]
  BY DEF CnBoxesOk
<1> QED
  BY <1>1 DEF CnBoxesOk

\* or made; the others' stay.
LEMMA BoxMade ==
    ASSUME CnBoxesOk, NEW c \in CnConnectors, NEW box, DOMAIN box = {"n", "up", "env"},
           cnBox' = [cnBox EXCEPT ![c] = {box}]
    PROVE  CnBoxesOk' /\ cnBox'[c] = {box} /\ \A d \in CnConnectors \ {c} : cnBox'[d] = cnBox[d]
<1>1. cnBox'[c] = {box} /\ \A d \in CnConnectors \ {c} : cnBox'[d] = cnBox[d]
  BY DEF CnBoxesOk
<1>2. cnBox' = [d \in CnConnectors |-> cnBox'[d]]
  BY DEF CnBoxesOk
<1>3. ASSUME NEW d \in CnConnectors
      PROVE  (\A b \in cnBox'[d] : DOMAIN b = {"n", "up", "env"}) /\ \A a, b \in cnBox'[d] : a = b
  BY <1>1 DEF CnBoxesOk
<1> QED
  BY <1>1, <1>2, <1>3 DEF CnBoxesOk

LEMMA BoxesKept == CnBoxesOk /\ UNCHANGED cnBox => CnBoxesOk'
  BY DEF CnBoxesOk

LEMMA RowsKept == CnRowsOk /\ UNCHANGED cnRow => CnRowsOk'
  BY DEF CnRowsOk

\* Whatever happens to a connector whose requests are crossed, it is astray.
LEMMA CrossedConnector ==
    ASSUME NEW c, c \in cnAstray', \A u \in CnThreads : On(c, u)' => ~cnReq'[u].clean, Applied(c)'
    PROVE  ConnectorOk(c)'
  BY DEF ConnectorOk, Steady, CleanOk

\* Everything of another connector stays as it is.
LEMMA OthersKept ==
    ASSUME CnInv, NEW c \in CnConnectors,
           \A d \in CnConnectors \ {c} :
              /\ cnRow'[d] = cnRow[d] /\ cnBox'[d] = cnBox[d]
              /\ (d \in cnAstray' <=> d \in cnAstray) /\ (d \in cnUnapplied' <=> d \in cnUnapplied)
              /\ \A u \in CnThreads : (On(d, u)' <=> On(d, u)) /\ (On(d, u) => cnReq'[u] = cnReq[u]),
           CnType', ConnectorOk(c)'
    PROVE  CnInv'
<1>1. ASSUME NEW d \in CnConnectors \ {c} PROVE ConnectorOk(d)'
  BY <1>1, OtherConnector, SMTT(30) DEF CnInv
<1> QED
  BY <1>1, Zenon DEF CnInv

\* A request that joins others in flight takes nothing from them but that they are alone.
LEMMA RequestJoins ==
    ASSUME CnReqsOk, NEW t \in CnThreads, cnReq[t] = CnFree, NEW c \in CnConnectors,
           NEW at, NEW op, NEW scope, Joins(t, c, at, op, scope),
           IF op = "put" THEN c \in CnScoped /\ at = "find" ELSE at = "switch"
    PROVE  /\ CnReqsOk'
           /\ cnReq'[t].at = at /\ cnReq'[t].c = c /\ cnReq'[t].op = op /\ cnReq'[t].scope = scope
           /\ \A u \in CnThreads \ {t} :
                 /\ cnReq'[u].at = cnReq[u].at
                 /\ cnReq[u].at # "idle" => \A f \in CnFields \ {"clean"} : cnReq'[u][f] = cnReq[u][f]
                 /\ ~On(c, u) => cnReq'[u] = cnReq[u]
           /\ \A d \in CnConnectors \ {c} :
                 /\ d \in cnAstray' <=> d \in cnAstray
                 /\ \A u \in CnThreads : (On(d, u)' <=> On(d, u)) /\ (On(d, u) => cnReq'[u] = cnReq[u])
           /\ \/ c \in cnAstray' /\ \A u \in CnThreads : On(c, u)' => ~cnReq'[u].clean
              \/ /\ cnAstray' = cnAstray /\ \A u \in CnThreads \ {t} : cnReq'[u] = cnReq[u]
                 /\ \A u \in CnThreads : On(c, u) => Wants(u) = <<op, scope>>
<1> DEFINE crosses == \E other \in InFlight(c) : <<cnReq[other].op, cnReq[other].scope>> # <<op, scope>>
           new == [at |-> at, c |-> c, op |-> op, scope |-> scope, box |-> {}, clean |-> ~crosses]
           req == [cnReq EXCEPT ![t] = new]
<1>1. /\ cnReq' = IF crosses THEN Crossed(c, req) ELSE req
      /\ cnAstray' = cnAstray \cup IF crosses THEN {c} ELSE {}
  BY DEF Joins
<1>2. /\ new.at = at /\ new.c = c /\ new.op = op /\ new.scope = scope /\ DOMAIN new = CnFields
  BY DEF CnFields
<1>3. CnReqOk(new) /\ at # "idle"
  BY <1>2 DEF CnReqOk, CnFree
<1>4. req[t] = new /\ (\A u \in CnThreads \ {t} : req[u] = cnReq[u]) /\ req = [u \in CnThreads |-> req[u]]
  BY DEF CnReqsOk
<1> HIDE DEF new, req
<1>5. \A u \in CnThreads : CnReqOk(req[u])
  BY <1>3, <1>4 DEF CnReqsOk
<1> HIDE DEF crosses
<1>0. \A d \in CnConnectors \ {c} : d \in cnAstray' <=> d \in cnAstray
  BY <1>1
<1>8. ASSUME \A u \in CnThreads \ {t} : ~On(c, u) => cnReq'[u] = cnReq[u],
             cnReq'[t].c = c,
             \A u \in CnThreads \ {t} : On(c, u) => cnReq'[u].c = c
      PROVE  \A d \in CnConnectors \ {c} :
                \A u \in CnThreads : (On(d, u)' <=> On(d, u)) /\ (On(d, u) => cnReq'[u] = cnReq[u])
  <2>1. cnReq[t].at = "idle"
    BY FreeReqOk
  <2> QED
    BY <1>8, <2>1 DEF On
<1>6. CASE crosses
  <2>1. cnReq' = Crossed(c, req) /\ cnAstray' = cnAstray \cup {c}
    BY <1>1, <1>6
  <2>2. ASSUME NEW u \in CnThreads
        PROVE  LET r == cnReq'[u]
               IN /\ CnReqOk(r) /\ r.at = req[u].at
                  /\ r.at # "idle" => \A f \in CnFields \ {"clean"} : r[f] = req[u][f]
                  /\ r.at # "idle" /\ r.c = c => ~r.clean
                  /\ r.at # "idle" /\ r.c # c => r = req[u]
    BY <1>5, <2>1, ReqsCrossed
  <2>3. CnReqsOk'
    BY <2>1, <2>2 DEF CnReqsOk, CnReqOk, Crossed
  <2>4. cnReq'[t].at = at /\ cnReq'[t].c = c /\ cnReq'[t].op = op /\ cnReq'[t].scope = scope
    BY <1>2, <1>3, <1>4, <2>2 DEF CnFields
  <2>5. ASSUME NEW u \in CnThreads \ {t}, ~On(c, u) PROVE cnReq'[u] = cnReq[u]
    <3>1. CASE cnReq[u].at = "idle"
      BY <1>4, <2>2, <2>5, <3>1 DEF CnReqOk, CnReqsOk
    <3>2. CASE cnReq[u].at # "idle"
      BY <1>4, <2>1, <2>5, <3>2 DEF On, Crossed
    <3> QED
      BY <3>1, <3>2
  <2>6. \A u \in CnThreads : On(c, u)' => ~cnReq'[u].clean
    BY <2>2 DEF On
  <2>7. \A u \in CnThreads \ {t} : On(c, u) => cnReq'[u].c = c
    BY <1>4, <2>2 DEF On, CnFields
  <2> QED
    BY <1>0, <1>4, <1>8, <2>1, <2>2, <2>3, <2>4, <2>5, <2>6, <2>7
<1>7. CASE ~crosses
  <2>1. cnReq' = req /\ cnAstray' = cnAstray
    BY <1>1, <1>7
  <2>2. CnReqsOk'
    BY <1>4, <1>5, <2>1 DEF CnReqsOk, CnReqOk
  <2>3. ASSUME NEW u \in CnThreads, On(c, u) PROVE Wants(u) = <<op, scope>>
    <3>1. u \in InFlight(c)
      BY <2>3, FreeReqOk DEF On, InFlight
    <3> QED
      BY <1>7, <3>1 DEF Wants, crosses
  <2> QED
    BY <1>0, <1>2, <1>4, <1>8, <2>1, <2>2, <2>3 DEF On
<1> QED
  BY <1>6, <1>7

LEMMA ToggleKeeps ==
    ASSUME CnInv, NEW t \in CnThreads, NEW c \in CnConnectors, Toggle(t, c)
    PROVE  CnInv'
<1> DEFINE op == IF cnRow[c].enabled THEN "stop" ELSE "start"
<1>1. /\ cnReq[t] = CnFree /\ Joins(t, c, "switch", op, {})
      /\ UNCHANGED <<cnRow, cnBox, cnUnapplied>>
  BY DEF Toggle, Begins
<1>2. op # "put"
  OBVIOUS
<1> HIDE DEF op
<1>3. /\ CnReqsOk'
      /\ cnReq'[t].at = "switch" /\ cnReq'[t].c = c /\ cnReq'[t].op = op /\ cnReq'[t].scope = {}
      /\ \A u \in CnThreads \ {t} :
            /\ cnReq'[u].at = cnReq[u].at
            /\ cnReq[u].at # "idle" => \A f \in CnFields \ {"clean"} : cnReq'[u][f] = cnReq[u][f]
            /\ ~On(c, u) => cnReq'[u] = cnReq[u]
      /\ \A d \in CnConnectors \ {c} :
            /\ d \in cnAstray' <=> d \in cnAstray
            /\ \A u \in CnThreads : (On(d, u)' <=> On(d, u)) /\ (On(d, u) => cnReq'[u] = cnReq[u])
      /\ \/ c \in cnAstray' /\ \A u \in CnThreads : On(c, u)' => ~cnReq'[u].clean
         \/ /\ cnAstray' = cnAstray /\ \A u \in CnThreads \ {t} : cnReq'[u] = cnReq[u]
            /\ \A u \in CnThreads : On(c, u) => Wants(u) = <<op, {}>>
  BY <1>1, <1>2, RequestJoins, SMTT(30) DEF CnInv, CnType
<1>4. CnType'
  BY <1>1, <1>3, RowsKept, BoxesKept DEF CnInv, CnType
<1>5. cnReq[t].at = "idle"
  BY <1>1, FreeReqOk
<1>6. \A d \in CnConnectors \ {c} :
         /\ cnRow'[d] = cnRow[d] /\ cnBox'[d] = cnBox[d]
         /\ (d \in cnAstray' <=> d \in cnAstray) /\ (d \in cnUnapplied' <=> d \in cnUnapplied)
         /\ \A u \in CnThreads : (On(d, u)' <=> On(d, u)) /\ (On(d, u) => cnReq'[u] = cnReq[u])
  BY <1>1, <1>3, <1>5 DEF On
<1>7. Applied(c)'
  <2>1. ASSUME NEW u \in CnThreads, On(c, u)', cnReq'[u].op = "put"
        PROVE  On(c, u) /\ cnReq[u].op = "put" /\ cnReq[u].scope = cnReq'[u].scope
    BY <1>2, <1>3, <2>1 DEF On, CnFields
  <2> QED
    BY <1>1, <2>1 DEF CnInv, ConnectorOk, Applied
<1>8. ConnectorOk(c)'
  <2>1. CASE c \in cnAstray' /\ \A u \in CnThreads : On(c, u)' => ~cnReq'[u].clean
    BY <1>7, <2>1, CrossedConnector
  <2>2. CASE /\ cnAstray' = cnAstray /\ \A u \in CnThreads \ {t} : cnReq'[u] = cnReq[u]
             /\ \A u \in CnThreads : On(c, u) => Wants(u) = <<op, {}>>
    <3>1. \A u \in CnThreads : On(c, u)' => Wants(u)' = <<op, {}>>
      BY <1>3, <2>2 DEF On, Wants
    <3>2. /\ \A u \in CnThreads, at \in {"flip", "remove", "run"} : Stands(c, u, at)' <=> Stands(c, u, at)
          /\ \A u \in CnThreads, at \in {"flip", "remove", "run"} : Stands(c, u, at) => cnReq'[u] = cnReq[u]
      BY <1>3, <1>5, <2>2 DEF Stands, On
    <3>3. Puts1(c)' <=> Puts1(c)
      BY <1>2, <1>3, <1>5, <2>2 DEF Puts1, On
    <3>4. BeingMade(c)' <=> BeingMade(c)
      BY <1>1, <3>2 DEF BeingMade
    <3>5. Steady(c)'
      BY <1>1, <2>2, <3>1, <3>2, <3>3, <3>4 DEF CnInv, ConnectorOk, Steady, Agree, BoxAs
    <3>6. ASSUME NEW u \in CnThreads PROVE CleanOk(c, u)'
      <4>1. CASE u = t
        BY <1>2, <1>3, <3>1, <4>1 DEF CleanOk
      <4>2. CASE u # t
        <5>1. On(c, u)' <=> On(c, u)
          BY <2>2, <4>2 DEF On
        <5> QED
          BY <1>1, <2>2, <3>1, <4>2, <5>1 DEF CnInv, ConnectorOk, CleanOk, BoxAs
      <4> QED
        BY <4>1, <4>2
    <3> QED
      BY <1>7, <3>5, <3>6 DEF ConnectorOk
  <2> QED
    BY <1>3, <2>1, <2>2
<1> QED
  BY <1>4, <1>6, <1>8, OthersKept

LEMMA PutSymbolsKeeps ==
    ASSUME CnInv, NEW t \in CnThreads, NEW c \in CnConnectors, NEW scope, PutSymbols(t, c, scope)
    PROVE  CnInv'
<1>1. /\ cnReq[t] = CnFree /\ UNCHANGED cnBox
      /\ cnUnapplied' = cnUnapplied \cup {c}
      /\ cnRow' = [cnRow EXCEPT ![c].symbols = scope]
  BY DEF PutSymbols, Begins
<1>2. CnRowsOk' /\ cnRow'[c].enabled = cnRow[c].enabled /\ cnRow'[c].symbols = scope
      /\ \A d \in CnConnectors \ {c} : cnRow'[d] = cnRow[d]
  <2>1. PICK row : row = [cnRow[c] EXCEPT !.symbols = scope]
    OBVIOUS
  <2>2. row.enabled = cnRow[c].enabled /\ row.symbols = scope /\ DOMAIN row = {"enabled", "symbols"}
    BY <2>1 DEF CnInv, CnType, CnRowsOk
  <2>3. cnRow' = [cnRow EXCEPT ![c] = row]
    BY <1>1, <2>1, Zenon
  <2> QED
    BY <2>2, <2>3 DEF CnInv, CnType, CnRowsOk
<1>3. Applied(c)'
  BY <1>1 DEF Applied
<1>4. cnReq[t].at = "idle"
  BY <1>1, FreeReqOk
<1>5. CASE Applies(c)
  <2>1. Joins(t, c, "find", "put", scope) /\ c \in CnScoped /\ cnRow[c].enabled
    BY <1>5 DEF PutSymbols, Applies
  <2>2. /\ CnReqsOk'
        /\ cnReq'[t].at = "find" /\ cnReq'[t].c = c /\ cnReq'[t].op = "put" /\ cnReq'[t].scope = scope
        /\ \A u \in CnThreads \ {t} :
              /\ cnReq'[u].at = cnReq[u].at
              /\ cnReq[u].at # "idle" => \A f \in CnFields \ {"clean"} : cnReq'[u][f] = cnReq[u][f]
              /\ ~On(c, u) => cnReq'[u] = cnReq[u]
        /\ \A d \in CnConnectors \ {c} :
              /\ d \in cnAstray' <=> d \in cnAstray
              /\ \A u \in CnThreads : (On(d, u)' <=> On(d, u)) /\ (On(d, u) => cnReq'[u] = cnReq[u])
        /\ \/ c \in cnAstray' /\ \A u \in CnThreads : On(c, u)' => ~cnReq'[u].clean
           \/ /\ cnAstray' = cnAstray /\ \A u \in CnThreads \ {t} : cnReq'[u] = cnReq[u]
              /\ \A u \in CnThreads : On(c, u) => Wants(u) = <<"put", scope>>
    BY <1>1, <2>1, RequestJoins, SMTT(30) DEF CnInv, CnType
  <2>3. CnType'
    BY <1>1, <1>2, <2>2, BoxesKept DEF CnInv, CnType
  <2>4. ASSUME c \in cnAstray' /\ \A u \in CnThreads : On(c, u)' => ~cnReq'[u].clean
        PROVE  ConnectorOk(c)'
    BY <1>3, <2>4, CrossedConnector
  <2>5. ASSUME /\ cnAstray' = cnAstray /\ \A u \in CnThreads \ {t} : cnReq'[u] = cnReq[u]
               /\ \A u \in CnThreads : On(c, u) => Wants(u) = <<"put", scope>>
        PROVE  ConnectorOk(c)'
    <3>1. \A u \in CnThreads : On(c, u)' => Wants(u)' = <<"put", scope>>
      BY <2>2, <2>5 DEF On, Wants
    <3>2. \A u \in CnThreads : On(c, u) => cnReq[u].op = "put"
      BY <2>5 DEF Wants
    <3>3. \A u \in CnThreads : ~Stands(c, u, "flip") /\ ~Stands(c, u, "flip")'
      <4>1. \A u \in CnThreads : CnReqOk(cnReq[u]) /\ CnReqOk(cnReq'[u])
        BY <2>2 DEF CnInv, CnType, CnReqsOk
      <4> QED
        BY <3>1, <3>2, <4>1 DEF Stands, On, CnReqOk, Wants
    <3>4. \A u \in CnThreads, at \in {"remove", "run"} :
             (Stands(c, u, at)' <=> Stands(c, u, at)) /\ (Stands(c, u, at) => cnReq'[u] = cnReq[u])
      BY <1>4, <2>2, <2>5 DEF Stands, On
    <3>5. ASSUME c \notin cnAstray PROVE BeingMade(c)'
      <4>1. CASE Puts1(c)
        <5>1. BeingMade(c)
          BY <3>5, <4>1 DEF CnInv, ConnectorOk, Steady
        <5> QED
          BY <1>1, <1>2, <3>4, <5>1 DEF BeingMade
      <4>2. CASE ~Puts1(c)
        <5>1. Agree(c)
          BY <3>3, <3>5, <4>2 DEF CnInv, ConnectorOk, Steady
        <5>2. cnBox[c] # {} /\ \A b \in cnBox[c] : b.up
          BY <2>1, <5>1 DEF Agree, CnInv, CnType, CnBoxesOk
        <5> QED
          BY <1>1, <1>2, <2>1, <5>2 DEF BeingMade
      <4> QED
        BY <4>1, <4>2
    <3>6. Steady(c)'
      <4>1. Puts1(c)'
        BY <2>2 DEF Puts1, On
      <4> QED
        BY <1>1, <2>5, <3>1, <3>3, <3>4, <3>5, <4>1 DEF CnInv, ConnectorOk, Steady
    <3>7. ASSUME NEW u \in CnThreads PROVE CleanOk(c, u)'
      <4>1. On(c, u)' => cnReq'[u].op = "put" /\ cnReq'[u].scope = scope
        BY <3>1 DEF Wants
      <4>2. ~(On(c, u)' /\ cnReq'[u].at = "flip")
        BY <3>3 DEF Stands
      <4> QED
        BY <1>2, <2>1, <3>1, <4>1, <4>2 DEF CleanOk
    <3> QED
      BY <1>3, <3>6, <3>7 DEF ConnectorOk
  <2>6. ConnectorOk(c)'
    BY <2>2, <2>4, <2>5
  <2> QED
    BY <1>1, <1>2, <2>2, <2>3, <2>6, OthersKept
<1>6. CASE ~Applies(c)
  <2>1. UNCHANGED <<cnReq, cnAstray>>
    BY <1>6 DEF PutSymbols
  <2>2. CnType'
    BY <1>1, <1>2, <2>1, BoxesKept DEF CnInv, CnType, CnReqsOk, CnReqOk
  <2>3. /\ \A u \in CnThreads : (On(c, u)' <=> On(c, u)) /\ Wants(u)' = Wants(u)
        /\ \A u \in CnThreads : \A at : Stands(c, u, at)' <=> Stands(c, u, at)
    BY <2>1 DEF On, Wants, Stands
  <2>4. (Puts1(c)' <=> Puts1(c)) /\ (Agree(c)' <=> Agree(c)) /\ \A op : BoxAs(c, op)' <=> BoxAs(c, op)
    BY <1>1, <1>2, <2>1, <2>3 DEF Puts1, Agree, BoxAs
  <2>5. BeingMade(c)' <=> BeingMade(c)
    BY <1>1, <1>2, <2>1, <2>3 DEF BeingMade
  <2>6. Steady(c)'
    BY <1>1, <2>1, <2>3, <2>4, <2>5 DEF CnInv, ConnectorOk, Steady
  <2>7. ASSUME NEW u \in CnThreads PROVE CleanOk(c, u)'
    <3>1. On(c, u) /\ cnReq[u].op = "put" => c \in CnScoped
      BY DEF CnInv, CnType, CnReqsOk, CnReqOk, On
    <3> QED
      BY <1>6, <2>1, <2>3, <2>4, <3>1 DEF CnInv, ConnectorOk, CleanOk, Applies
  <2>8. ConnectorOk(c)'
    BY <1>3, <2>6, <2>7 DEF ConnectorOk
  <2> QED
    BY <1>1, <1>2, <2>1, <2>2, <2>3, <2>8, OthersKept DEF On
<1> QED
  BY <1>5, <1>6

\* What a request may still do when it moves on, and what it leaves to the others when it ends.
LEMMA RequestsAt ==
    ASSUME CnInv, NEW t \in CnThreads, cnReq[t].at # "idle"
    PROVE  /\ cnReq[t].c \in CnConnectors /\ On(cnReq[t].c, t)
           /\ cnReq[t].op = "put" <=> cnReq[t].at \in {"find", "halt", "remove", "run"}
           /\ cnReq[t].op = "put" => cnReq[t].c \in CnScoped
  BY DEF CnInv, CnType, CnReqsOk, CnReqOk, On

\* A request on one connector is nothing to another.
LEMMA OwnRequest ==
    ASSUME NEW t \in CnThreads, NEW c \in CnConnectors, cnReq[t].c = c,
           \A u \in CnThreads \ {t} : cnReq'[u] = cnReq[u],
           cnReq'[t].at = "idle" \/ cnReq'[t].c = c
    PROVE  \A d \in CnConnectors \ {c} :
              \A u \in CnThreads : (On(d, u)' <=> On(d, u)) /\ (On(d, u) => cnReq'[u] = cnReq[u])
  BY DEF On

\* Who is at work on a connector when one has ended,
LEMMA EndedFacts ==
    ASSUME NEW t \in CnThreads, NEW c, On(c, t),
           \A u \in CnThreads \ {t} : cnReq'[u] = cnReq[u], cnReq'[t].at = "idle"
    PROVE  /\ \A u \in CnThreads : On(c, u)' => On(c, u) /\ u # t
           /\ \A u \in CnThreads \ {t} :
                 (On(c, u)' <=> On(c, u)) /\ Wants(u)' = Wants(u) /\ cnReq'[u] = cnReq[u]
           /\ \A u \in CnThreads : \A at : Stands(c, u, at)' <=> Stands(c, u, at) /\ u # t
  BY DEF On, Wants, Stands

\* and when one has moved on.
LEMMA MovedFacts ==
    ASSUME CnReqsOk, NEW t \in CnThreads, NEW at, NEW c, On(c, t), MovesTo(t, at),
           at \in IF cnReq[t].op = "put" THEN {"find", "halt", "remove", "run"} ELSE {"switch", "flip"}
    PROVE  /\ CnReqsOk'
           /\ \A u \in CnThreads \ {t} : cnReq'[u] = cnReq[u]
           /\ \A u \in CnThreads : (On(c, u)' <=> On(c, u)) /\ Wants(u)' = Wants(u)
           /\ \A u \in CnThreads : cnReq'[u].clean = cnReq[u].clean /\ cnReq'[u].box = cnReq[u].box
           /\ cnReq'[t].at = at /\ cnReq'[t].c = c /\ at # "idle"
<1>1. /\ CnReqsOk' /\ cnReq'[t].at = at /\ at # "idle"
      /\ \A u \in CnThreads \ {t} : cnReq'[u] = cnReq[u]
      /\ \A f \in CnFields \ {"at"} : cnReq'[t][f] = cnReq[t][f]
  BY ReqMoves DEF On
<1>2. /\ cnReq'[t].c = cnReq[t].c /\ cnReq'[t].op = cnReq[t].op /\ cnReq'[t].scope = cnReq[t].scope
      /\ cnReq'[t].clean = cnReq[t].clean /\ cnReq'[t].box = cnReq[t].box
  BY <1>1 DEF CnFields
<1> QED
  BY <1>1, <1>2 DEF On, Wants

\* The requests of a put, while they are not crossed, are all of it.
LEMMA PutsAlone ==
    ASSUME CnInv, NEW c \in CnConnectors, NEW t \in CnThreads, On(c, t), cnReq[t].op = "put",
           c \notin cnAstray \/ cnReq[t].clean
    PROVE  \A u \in CnThreads : On(c, u) => Wants(u) = Wants(t) /\ cnReq[u].op = "put" /\ cnReq[u].at # "flip"
<1>1. \A u \in CnThreads : On(c, u) => Wants(u) = Wants(t)
  BY DEF CnInv, ConnectorOk, Steady, CleanOk
<1>2. ASSUME NEW u \in CnThreads, On(c, u) PROVE cnReq[u].op = "put"
  BY <1>1, <1>2 DEF Wants
<1> QED
  BY <1>1, <1>2 DEF CnInv, CnType, CnReqsOk, CnReqOk, On

\* A request that only ends.
LEMMA EndKeeps ==
    ASSUME CnInv, NEW t \in CnThreads, NEW c \in CnConnectors, On(c, t), CnEnds(t),
           UNCHANGED <<cnRow, cnBox, cnAstray, cnUnapplied>>,
           cnReq[t].at # "flip",
           cnReq[t].at = "run" => cnBox[c] # {},
           cnReq[t].at = "remove" => ~\E b \in Found(t) : ~b.up
    PROVE  CnInv'
<1>1. CnReqsOk' /\ cnReq'[t].at = "idle" /\ \A u \in CnThreads \ {t} : cnReq'[u] = cnReq[u]
  BY ReqEnds DEF CnInv, CnType
<1>2. CnType'
  BY <1>1, RowsKept, BoxesKept DEF CnInv, CnType
<1>3. /\ \A u \in CnThreads : On(c, u)' => On(c, u) /\ u # t
      /\ \A u \in CnThreads \ {t} :
            (On(c, u)' <=> On(c, u)) /\ Wants(u)' = Wants(u) /\ cnReq'[u] = cnReq[u]
      /\ \A u \in CnThreads : \A at : Stands(c, u, at)' <=> Stands(c, u, at) /\ u # t
  BY <1>1, EndedFacts
<1>4. Applied(c)'
  BY <1>3 DEF CnInv, ConnectorOk, Applied
<1>5. ASSUME NEW u \in CnThreads PROVE CleanOk(c, u)'
  BY <1>3 DEF CnInv, ConnectorOk, CleanOk, BoxAs
<1>6. ASSUME c \notin cnAstray, Puts1(c)
      PROVE  /\ cnRow[c].enabled /\ (Puts1(c)' \/ Agree(c)) /\ (Puts1(c)' => BeingMade(c)')
             /\ \A u \in CnThreads : ~Stands(c, u, "flip")
  <2>1. BeingMade(c)
    BY <1>6 DEF CnInv, ConnectorOk, Steady
  <2>2. \A u \in CnThreads : ~Stands(c, u, "flip")
    BY <1>6, PutsAlone DEF Stands, Puts1
  <2>3. CASE cnBox[c] # {} /\ \A b \in cnBox[c] : b.up
    BY <2>1, <2>2, <2>3 DEF BeingMade, Agree
  <2>4. CASE /\ cnBox[c] # {}
             /\ \E u \in CnThreads :
                   Stands(c, u, "remove") /\ \A b \in cnBox[c] : b.n \in cnReq[u].box /\ ~b.up
    <3>1. PICK u \in CnThreads :
             Stands(c, u, "remove") /\ \A b \in cnBox[c] : b.n \in cnReq[u].box /\ ~b.up
      BY <2>4
    <3>2. u # t
      BY <2>4, <3>1 DEF Found, Stands, On
    <3>3. Stands(c, u, "remove")' /\ cnReq'[u] = cnReq[u]
      BY <1>3, <3>1, <3>2
    <3>4. BeingMade(c)'
      BY <2>1, <2>4, <3>1, <3>3 DEF BeingMade
    <3>5. Puts1(c)'
      BY <1>1, <3>3, RequestsAt DEF Puts1, Stands, On
    <3> QED
      BY <2>1, <2>2, <3>4, <3>5 DEF BeingMade
  <2>5. CASE cnBox[c] = {} /\ \E u \in CnThreads : Stands(c, u, "run")
    <3>1. PICK u \in CnThreads : Stands(c, u, "run")
      BY <2>5
    <3>2. u # t
      BY <2>5, <3>1 DEF Stands
    <3>3. Stands(c, u, "run")' /\ cnReq'[u] = cnReq[u]
      BY <1>3, <3>1, <3>2
    <3>4. BeingMade(c)'
      BY <2>1, <2>5, <3>3 DEF BeingMade
    <3>5. Puts1(c)'
      BY <3>1, <3>3, RequestsAt DEF Puts1, Stands, On
    <3> QED
      BY <2>1, <2>2, <3>4, <3>5 DEF BeingMade
  <2> QED
    BY <2>1, <2>3, <2>4, <2>5 DEF BeingMade
<1>7. Steady(c)'
  <2> SUFFICES ASSUME c \notin cnAstray PROVE Steady(c)'
    BY DEF Steady
  <2>1. /\ \A u, w \in CnThreads : On(c, u)' /\ On(c, w)' => Wants(u)' = Wants(w)'
        /\ \A u \in CnThreads : Stands(c, u, "flip")' => BoxAs(c, cnReq[u].op)'
        /\ \A u, w \in CnThreads :
              Stands(c, u, "run")' => cnBox'[c] = {} /\ (Stands(c, w, "run")' => w = u)
    BY <1>3 DEF CnInv, ConnectorOk, Steady, BoxAs
  <2>2. CASE Puts1(c)
    BY <1>3, <1>6, <2>1, <2>2 DEF Steady, Agree
  <2>3. CASE ~Puts1(c)
    <3>1. ~Puts1(c)'
      BY <1>3, <2>3 DEF Puts1
    <3>2. (\E u \in CnThreads : Stands(c, u, "flip")) \/ Agree(c)
      BY <2>3 DEF CnInv, ConnectorOk, Steady
    <3>3. (\E u \in CnThreads : Stands(c, u, "flip")') \/ Agree(c)'
      BY <1>3, <3>2 DEF Agree, Stands
    <3> QED
      BY <2>1, <3>1, <3>3 DEF Steady
  <2> QED
    BY <2>2, <2>3
<1>8. ConnectorOk(c)'
  BY <1>4, <1>5, <1>7 DEF ConnectorOk
<1>9. cnReq[t].c = c
  BY DEF On
<1>10. \A d \in CnConnectors \ {c} :
          \A u \in CnThreads : (On(d, u)' <=> On(d, u)) /\ (On(d, u) => cnReq'[u] = cnReq[u])
  BY <1>1, <1>9, OwnRequest
<1> QED
  BY <1>2, <1>8, <1>10, OthersKept

LEMMA SwitchKeeps ==
    ASSUME CnInv, NEW t \in CnThreads, Switch(t)
    PROVE  CnInv'
<1>0. PICK c : c = cnReq[t].c
  OBVIOUS
<1>1. /\ cnReq[t].at = "switch" /\ c \in CnConnectors /\ On(c, t) /\ cnReq[t].op # "put"
      /\ UNCHANGED <<cnRow, cnAstray, cnUnapplied>>
  BY <1>0, RequestsAt DEF Switch, HistoryKept
<1>2. CASE cnBox[c] = {}
  <2>1. CnEnds(t) /\ UNCHANGED cnBox
    BY <1>0, <1>2 DEF Switch
  <2> QED
    BY <1>1, <2>1, EndKeeps
<1>3. CASE cnBox[c] # {}
  <2>1. MovesTo(t, "flip") /\ Switched(c, cnReq[t].op = "start")
    BY <1>0, <1>3 DEF Switch
  <2>2. /\ CnReqsOk' /\ \A u \in CnThreads \ {t} : cnReq'[u] = cnReq[u]
        /\ \A u \in CnThreads : (On(c, u)' <=> On(c, u)) /\ Wants(u)' = Wants(u)
        /\ \A u \in CnThreads : cnReq'[u].clean = cnReq[u].clean
        /\ cnReq'[t].at = "flip" /\ cnReq'[t].c = c
    BY <1>1, <2>1, MovedFacts DEF CnInv, CnType
  <2>3. /\ CnBoxesOk' /\ \A d \in CnConnectors \ {c} : cnBox'[d] = cnBox[d]
        /\ cnBox'[c] # {}
        /\ \A b \in cnBox'[c] : b.up = (cnReq[t].op = "start") /\ \E a \in cnBox[c] : b.n = a.n /\ b.env = a.env
    BY <1>1, <1>3, <2>1, BoxSwitched DEF CnInv, CnType
  <2>4. CnType'
    BY <1>1, <2>2, <2>3, RowsKept DEF CnInv, CnType
  <2>5. \A u \in CnThreads : cnReq'[u].op = cnReq[u].op /\ cnReq'[u].scope = cnReq[u].scope
    BY <2>1, <2>2, ReqMoves, <1>1 DEF CnInv, CnType, CnFields
  <2>6. Applied(c)'
    BY <1>1, <2>2, <2>3, <2>5 DEF CnInv, ConnectorOk, Applied
  <2>7. ASSUME NEW u \in CnThreads, On(c, u), Wants(u) = Wants(t)
        PROVE  BoxAs(c, cnReq[u].op)' /\ cnReq[u].op # "put"
    BY <1>1, <2>3, <2>5, <2>7 DEF BoxAs, Wants
  <2>8. ASSUME NEW u \in CnThreads PROVE CleanOk(c, u)'
    BY <1>1, <2>2, <2>5, <2>7 DEF CnInv, ConnectorOk, CleanOk
  <2>9. Steady(c)'
    <3> SUFFICES ASSUME c \notin cnAstray PROVE Steady(c)'
      BY <1>1 DEF Steady
    <3>1. \A u \in CnThreads : On(c, u) => Wants(u) = Wants(t)
      BY <1>1 DEF CnInv, ConnectorOk, Steady
    <3>2. \A u \in CnThreads : On(c, u)' => BoxAs(c, cnReq[u].op)' /\ cnReq'[u].op # "put"
      BY <2>2, <2>5, <2>7, <3>1
    <3>3. \A u \in CnThreads : ~Stands(c, u, "run")'
      <4>1. \A u \in CnThreads : CnReqOk(cnReq'[u])
        BY <2>2 DEF CnReqsOk
      <4> QED
        BY <3>2, <4>1 DEF Stands, On, CnReqOk
    <3>4. Stands(c, t, "flip")'
      BY <1>1, <2>2 DEF Stands
    <3>5. ~Puts1(c)'
      BY <3>2 DEF Puts1
    <3> QED
      BY <2>2, <3>1, <3>2, <3>3, <3>4, <3>5 DEF Steady, Stands
  <2>10. ConnectorOk(c)'
    BY <2>6, <2>8, <2>9 DEF ConnectorOk
  <2>11. \A d \in CnConnectors \ {c} :
            \A u \in CnThreads : (On(d, u)' <=> On(d, u)) /\ (On(d, u) => cnReq'[u] = cnReq[u])
    BY <1>1, <2>2, <1>0, OwnRequest
  <2> QED
    BY <1>1, <2>3, <2>4, <2>10, <2>11, OthersKept
<1> QED
  BY <1>2, <1>3

LEMMA FlipKeeps ==
    ASSUME CnInv, NEW t \in CnThreads, Flip(t)
    PROVE  CnInv'
<1>0. PICK c, op : c = cnReq[t].c /\ op = cnReq[t].op
  OBVIOUS
<1>1. /\ cnReq[t].at = "flip" /\ c \in CnConnectors /\ On(c, t) /\ op # "put"
      /\ UNCHANGED <<cnBox, cnUnapplied>> /\ CnEnds(t)
      /\ cnAstray' = IF cnReq[t].clean THEN cnAstray \ {c} ELSE cnAstray
      /\ cnRow' = [cnRow EXCEPT ![c] = FlippedRow(@, op)]
  BY <1>0, RequestsAt DEF Flip
<1>2. CnReqsOk' /\ cnReq'[t].at = "idle" /\ \A u \in CnThreads \ {t} : cnReq'[u] = cnReq[u]
  BY <1>1, ReqEnds DEF CnInv, CnType
<1>3. \A d \in CnConnectors \ {c} :
         \A u \in CnThreads : (On(d, u)' <=> On(d, u)) /\ (On(d, u) => cnReq'[u] = cnReq[u])
  BY <1>0, <1>1, <1>2, OwnRequest
<1>4. CnRowsOk' /\ cnRow'[c].enabled = (op = "start") /\ cnRow'[c].symbols = cnRow[c].symbols
      /\ \A d \in CnConnectors \ {c} : cnRow'[d] = cnRow[d]
  <2>1. PICK row : row = FlippedRow(cnRow[c], op)
    OBVIOUS
  <2>2. row.enabled = (op = "start") /\ row.symbols = cnRow[c].symbols /\ DOMAIN row = {"enabled", "symbols"}
    BY <1>1, <2>1 DEF CnInv, CnType, CnRowsOk, FlippedRow
  <2>3. cnRow' = [cnRow EXCEPT ![c] = row]
    BY <1>1, <2>1, Zenon
  <2> QED
    BY <1>1, <2>2, <2>3 DEF CnInv, CnType, CnRowsOk
<1>5. CnType'
  BY <1>1, <1>2, <1>4, BoxesKept DEF CnInv, CnType
<1>6. /\ \A u \in CnThreads : On(c, u)' => On(c, u) /\ u # t
      /\ \A u \in CnThreads \ {t} :
            (On(c, u)' <=> On(c, u)) /\ Wants(u)' = Wants(u) /\ cnReq'[u] = cnReq[u]
      /\ \A u \in CnThreads : \A at : Stands(c, u, at)' <=> Stands(c, u, at) /\ u # t
  BY <1>1, <1>2, EndedFacts
<1>7. Applied(c)'
  BY <1>1, <1>4, <1>6 DEF CnInv, ConnectorOk, Applied
<1>8. ASSUME NEW u \in CnThreads, On(c, u), Wants(u) = Wants(t) PROVE cnReq[u].op = op
  BY <1>0, <1>8 DEF Wants
<1>9. ASSUME NEW u \in CnThreads PROVE CleanOk(c, u)'
  BY <1>1, <1>6, <1>8 DEF CnInv, ConnectorOk, CleanOk, BoxAs
<1>10. Steady(c)'
  <2> SUFFICES ASSUME c \notin cnAstray \/ cnReq[t].clean PROVE Steady(c)'
    BY <1>1 DEF Steady
  <2>1. (\A u \in CnThreads : On(c, u) => Wants(u) = Wants(t)) /\ BoxAs(c, op)
    BY <1>0, <1>1 DEF CnInv, ConnectorOk, Steady, CleanOk, Stands
  <2>2. \A u \in CnThreads : On(c, u) => cnReq[u].op = op
    BY <1>8, <2>1
  <2>3. \A u \in CnThreads : ~Stands(c, u, "run")
    BY <1>1, <2>2, RequestsAt DEF Stands, On
  <2>4. ~Puts1(c)' /\ Agree(c)' /\ BoxAs(c, op)'
    BY <1>1, <1>4, <1>6, <2>1, <2>2 DEF Puts1, Agree, BoxAs
  <2>5. \A u \in CnThreads : Stands(c, u, "flip")' => cnReq'[u].op = op
    BY <1>6, <2>2 DEF Stands
  <2>6. \A u \in CnThreads : Stands(c, u, "flip")' => BoxAs(c, cnReq[u].op)'
    BY <2>4, <2>5 DEF BoxAs
  <2> QED
    BY <1>6, <2>1, <2>3, <2>4, <2>6 DEF Steady
<1>11. ConnectorOk(c)'
  BY <1>7, <1>9, <1>10 DEF ConnectorOk
<1>12. \A d \in CnConnectors \ {c} : d \in cnAstray' <=> d \in cnAstray
  BY <1>1
<1> QED
  BY <1>1, <1>3, <1>4, <1>5, <1>11, <1>12, OthersKept

\* A step of a put that goes on: the container stays whose it was, down or gone.
LEMMA PutStepKeeps ==
    ASSUME CnInv, NEW t \in CnThreads, NEW c \in CnConnectors, On(c, t), cnReq[t].op = "put",
           UNCHANGED <<cnRow, cnAstray, cnUnapplied>>,
           CnReqsOk', CnBoxesOk',
           \A u \in CnThreads \ {t} : cnReq'[u] = cnReq[u],
           \A u \in CnThreads : (On(c, u)' <=> On(c, u)) /\ Wants(u)' = Wants(u) /\ cnReq'[u].clean = cnReq[u].clean,
           cnReq'[t].c = c,
           \A d \in CnConnectors \ {c} : cnBox'[d] = cnBox[d],
           \A b \in cnBox'[c] : \E a \in cnBox[c] : b.env = a.env,
           c \notin cnAstray /\ cnRow[c].enabled /\ BeingMade(c) => BeingMade(c)',
           c \notin cnAstray =>
              \A u, w \in CnThreads : Stands(c, u, "run")' => cnBox'[c] = {} /\ (Stands(c, w, "run")' => w = u)
    PROVE  CnInv'
<1>1. CnType'
  BY RowsKept DEF CnInv, CnType
<1>2. \A u \in CnThreads : cnReq'[u].op = cnReq[u].op /\ cnReq'[u].scope = cnReq[u].scope
  BY DEF Wants
<1>3. Applied(c)'
  BY <1>2 DEF CnInv, ConnectorOk, Applied
<1>4. ASSUME NEW u \in CnThreads PROVE CleanOk(c, u)'
  <2> SUFFICES ASSUME On(c, u), cnReq[u].clean PROVE CleanOk(c, u)'
    BY DEF CleanOk
  <2>1. /\ \A w \in CnThreads : On(c, w) => Wants(w) = Wants(u)
        /\ cnReq[u].op = "put" => cnRow[c].enabled /\ cnRow[c].symbols = cnReq[u].scope
    BY DEF CnInv, ConnectorOk, CleanOk
  <2>2. cnReq'[u].op = "put"
    BY <1>2, <2>1 DEF Wants
  <2>3. cnReq'[u].at # "flip"
    BY <2>2 DEF CnReqsOk, CnReqOk, On
  <2> QED
    BY <1>2, <2>1, <2>3 DEF CleanOk
<1>5. Steady(c)'
  <2> SUFFICES ASSUME c \notin cnAstray PROVE Steady(c)'
    BY DEF Steady
  <2>1. \A u \in CnThreads : On(c, u) => Wants(u) = Wants(t) /\ cnReq[u].op = "put"
    BY PutsAlone
  <2>2. \A u \in CnThreads : ~Stands(c, u, "flip")'
    <3>1. \A u \in CnThreads : CnReqOk(cnReq'[u])
      BY DEF CnReqsOk
    <3> QED
      BY <1>2, <2>1, <3>1 DEF Stands, On, CnReqOk
  <2>3. Puts1(c) /\ Puts1(c)'
    BY <1>2 DEF Puts1
  <2>4. BeingMade(c)'
    BY <2>3 DEF CnInv, ConnectorOk, Steady, BeingMade
  <2> QED
    BY <2>1, <2>2, <2>3, <2>4 DEF Steady
<1>6. ConnectorOk(c)'
  BY <1>3, <1>4, <1>5 DEF ConnectorOk
<1>7. cnReq[t].c = c
  BY DEF On
<1>8. \A d \in CnConnectors \ {c} :
         \A u \in CnThreads : (On(d, u)' <=> On(d, u)) /\ (On(d, u) => cnReq'[u] = cnReq[u])
  BY <1>7, OwnRequest
<1> QED
  BY <1>1, <1>6, <1>8, OthersKept

LEMMA FindBoxKeeps ==
    ASSUME CnInv, NEW t \in CnThreads, FindBox(t)
    PROVE  CnInv'
<1>0. PICK c, r : c = cnReq[t].c /\ r = [cnReq[t] EXCEPT !.at = "halt", !.box = {b.n : b \in cnBox[c]}]
  OBVIOUS
<1>1. /\ cnReq[t].at = "find" /\ c \in CnConnectors /\ On(c, t) /\ cnReq[t].op = "put" /\ c \in CnScoped
      /\ UNCHANGED <<cnRow, cnBox, cnAstray, cnUnapplied>>
  BY <1>0, RequestsAt DEF FindBox, HistoryKept
<1>2. CASE cnBox[c] = {}
  <2>1. CnEnds(t)
    BY <1>0, <1>2 DEF FindBox
  <2> QED
    BY <1>1, <2>1, EndKeeps
<1>3. CASE cnBox[c] # {}
  <2>1. cnReq' = [cnReq EXCEPT ![t] = r]
    BY <1>0, <1>3, Zenon DEF FindBox
  <2>2. DOMAIN cnReq[t] = CnFields
    BY <1>1 DEF CnInv, CnType, CnReqsOk, CnReqOk
  <2>3. /\ DOMAIN r = CnFields /\ r.at = "halt" /\ r.c = c /\ r.op = "put" /\ r.scope = cnReq[t].scope
        /\ r.clean = cnReq[t].clean
    BY <1>0, <1>1, <2>2 DEF CnFields
  <2>4. CnReqOk(r)
    BY <1>1, <2>3 DEF CnReqOk, CnFree
  <2>5. CnReqsOk' /\ cnReq'[t] = r /\ \A u \in CnThreads \ {t} : cnReq'[u] = cnReq[u]
    BY <2>1, <2>4, ReqChanged DEF CnInv, CnType
  <2>6. \A u \in CnThreads : (On(c, u)' <=> On(c, u)) /\ Wants(u)' = Wants(u) /\ cnReq'[u].clean = cnReq[u].clean
    BY <1>1, <2>3, <2>5 DEF On, Wants
  <2>7. \A u \in CnThreads, at \in {"remove", "run"} :
           (Stands(c, u, at)' <=> Stands(c, u, at)) /\ (Stands(c, u, at) => cnReq'[u] = cnReq[u])
    BY <1>1, <2>3, <2>5, <2>6 DEF Stands
  <2>8. BeingMade(c) => BeingMade(c)'
    BY <1>1, <2>7 DEF BeingMade
  <2>9. c \notin cnAstray =>
           \A u, w \in CnThreads : Stands(c, u, "run")' => cnBox'[c] = {} /\ (Stands(c, w, "run")' => w = u)
    BY <1>1, <2>7 DEF CnInv, ConnectorOk, Steady
  <2>10. CnBoxesOk'
    BY <1>1, BoxesKept DEF CnInv, CnType
  <2> QED
    BY <1>1, <2>3, <2>5, <2>6, <2>8, <2>9, <2>10, PutStepKeeps, SMTT(30)
<1> QED
  BY <1>2, <1>3

LEMMA HaltBoxKeeps ==
    ASSUME CnInv, NEW t \in CnThreads, HaltBox(t)
    PROVE  CnInv'
<1>0. PICK c : c = cnReq[t].c
  OBVIOUS
<1>1. /\ cnReq[t].at = "halt" /\ c \in CnConnectors /\ On(c, t) /\ cnReq[t].op = "put"
      /\ UNCHANGED <<cnRow, cnAstray, cnUnapplied>>
  BY <1>0, RequestsAt DEF HaltBox, HistoryKept
<1>2. CASE Found(t) = {}
  <2>1. CnEnds(t) /\ UNCHANGED cnBox
    BY <1>2 DEF HaltBox
  <2> QED
    BY <1>1, <2>1, EndKeeps
<1>3. CASE Found(t) # {}
  <2>1. MovesTo(t, "remove") /\ Switched(c, FALSE)
    BY <1>0, <1>3 DEF HaltBox
  <2>2. /\ CnReqsOk' /\ \A u \in CnThreads \ {t} : cnReq'[u] = cnReq[u]
        /\ \A u \in CnThreads : (On(c, u)' <=> On(c, u)) /\ Wants(u)' = Wants(u)
        /\ \A u \in CnThreads : cnReq'[u].clean = cnReq[u].clean /\ cnReq'[u].box = cnReq[u].box
        /\ cnReq'[t].at = "remove" /\ cnReq'[t].c = c
    BY <1>1, <2>1, MovedFacts DEF CnInv, CnType
  <2>3. /\ CnBoxesOk' /\ \A d \in CnConnectors \ {c} : cnBox'[d] = cnBox[d]
        /\ cnBox'[c] = {} <=> cnBox[c] = {}
        /\ \A b \in cnBox'[c] : b.up = FALSE /\ \E a \in cnBox[c] : b.n = a.n /\ b.env = a.env
    BY <1>1, <2>1, BoxSwitched DEF CnInv, CnType
  <2>4. cnBox[c] # {} /\ \A a \in cnBox[c] : a.n \in cnReq[t].box
    BY <1>0, <1>1, <1>3 DEF Found, CnInv, CnType, CnBoxesOk
  <2>5. /\ Stands(c, t, "remove")' /\ cnBox'[c] # {}
        /\ \A b \in cnBox'[c] : b.n \in cnReq'[t].box /\ ~b.up
    BY <1>1, <2>2, <2>3, <2>4 DEF Stands
  <2>6. cnRow[c].enabled => BeingMade(c)'
    BY <1>1, <2>5 DEF BeingMade
  <2>7. c \notin cnAstray =>
           \A u, w \in CnThreads : Stands(c, u, "run")' => cnBox'[c] = {} /\ (Stands(c, w, "run")' => w = u)
    <3>1. \A u \in CnThreads : Stands(c, u, "run")' => Stands(c, u, "run")
      BY <2>2 DEF Stands
    <3> QED
      BY <1>1, <2>4, <3>1 DEF CnInv, ConnectorOk, Steady
  <2> QED
    BY <1>1, <2>2, <2>3, <2>6, <2>7, PutStepKeeps, SMTT(30)
<1> QED
  BY <1>2, <1>3

LEMMA RemoveBoxKeeps ==
    ASSUME CnInv, NEW t \in CnThreads, RemoveBox(t)
    PROVE  CnInv'
<1>0. PICK c : c = cnReq[t].c
  OBVIOUS
<1>1. /\ cnReq[t].at = "remove" /\ c \in CnConnectors /\ On(c, t) /\ cnReq[t].op = "put"
      /\ UNCHANGED <<cnRow, cnAstray, cnUnapplied>>
  BY <1>0, RequestsAt DEF RemoveBox, HistoryKept
<1>2. CASE ~\E b \in Found(t) : ~b.up
  <2>1. CnEnds(t) /\ UNCHANGED cnBox
    BY <1>2 DEF RemoveBox
  <2> QED
    BY <1>1, <1>2, <2>1, EndKeeps
<1>3. CASE \E b \in Found(t) : ~b.up
  <2>1. MovesTo(t, "run") /\ cnBox' = [cnBox EXCEPT ![c] = {}]
    BY <1>0, <1>3 DEF RemoveBox
  <2>2. /\ CnReqsOk' /\ \A u \in CnThreads \ {t} : cnReq'[u] = cnReq[u]
        /\ \A u \in CnThreads : (On(c, u)' <=> On(c, u)) /\ Wants(u)' = Wants(u)
        /\ \A u \in CnThreads : cnReq'[u].clean = cnReq[u].clean /\ cnReq'[u].box = cnReq[u].box
        /\ cnReq'[t].at = "run" /\ cnReq'[t].c = c
    BY <1>1, <2>1, MovedFacts DEF CnInv, CnType
  <2>3. CnBoxesOk' /\ cnBox'[c] = {} /\ \A d \in CnConnectors \ {c} : cnBox'[d] = cnBox[d]
    BY <1>1, <2>1, BoxSet DEF CnInv, CnType
  <2>4. cnBox[c] # {}
    BY <1>0, <1>3 DEF Found
  <2>5. Stands(c, t, "run")'
    BY <1>1, <2>2 DEF Stands
  <2>6. cnRow[c].enabled => BeingMade(c)'
    BY <1>1, <2>3, <2>5 DEF BeingMade
  <2>7. c \notin cnAstray =>
           \A u, w \in CnThreads : Stands(c, u, "run")' => cnBox'[c] = {} /\ (Stands(c, w, "run")' => w = u)
    <3>1. \A u \in CnThreads \ {t} : Stands(c, u, "run")' => Stands(c, u, "run")
      BY <2>2 DEF Stands
    <3>2. c \notin cnAstray => \A u \in CnThreads : ~Stands(c, u, "run")
      BY <1>1, <2>4 DEF CnInv, ConnectorOk, Steady
    <3> QED
      BY <2>3, <3>1, <3>2
  <2> QED
    BY <1>1, <2>2, <2>3, <2>6, <2>7, PutStepKeeps, SMTT(30)
<1> QED
  BY <1>2, <1>3

LEMMA RunBoxKeeps ==
    ASSUME CnInv, NEW t \in CnThreads, RunBox(t)
    PROVE  CnInv'
<1>0. PICK c, box : c = cnReq[t].c /\ box = [n |-> Number, up |-> TRUE, env |-> cnReq[t].scope]
  OBVIOUS
<1>1. /\ cnReq[t].at = "run" /\ c \in CnConnectors /\ On(c, t) /\ cnReq[t].op = "put" /\ c \in CnScoped
      /\ UNCHANGED <<cnRow, cnAstray>> /\ CnEnds(t)
  BY <1>0, RequestsAt DEF RunBox
<1>2. CASE cnBox[c] # {}
  <2>1. UNCHANGED <<cnBox, cnUnapplied>>
    BY <1>0, <1>2 DEF RunBox
  <2> QED
    BY <1>1, <1>2, <2>1, EndKeeps
<1>3. CASE cnBox[c] = {}
  <2>1. /\ cnBox' = [cnBox EXCEPT ![c] = {box}]
        /\ cnUnapplied' = IF cnReq[t].clean THEN cnUnapplied \ {c} ELSE cnUnapplied
    BY <1>0, <1>3 DEF RunBox
  <2>2. CnReqsOk' /\ cnReq'[t].at = "idle" /\ \A u \in CnThreads \ {t} : cnReq'[u] = cnReq[u]
    BY <1>1, ReqEnds DEF CnInv, CnType
  <2>3. box.up = TRUE /\ box.env = cnReq[t].scope /\ DOMAIN box = {"n", "up", "env"}
    BY <1>0
  <2>4. CnBoxesOk' /\ cnBox'[c] = {box} /\ \A d \in CnConnectors \ {c} : cnBox'[d] = cnBox[d]
    BY <1>1, <2>1, <2>3, BoxMade DEF CnInv, CnType
  <2>5. CnType'
    BY <1>1, <2>2, <2>4, RowsKept DEF CnInv, CnType
  <2>6. /\ \A u \in CnThreads : On(c, u)' => On(c, u) /\ u # t
        /\ \A u \in CnThreads \ {t} :
              (On(c, u)' <=> On(c, u)) /\ Wants(u)' = Wants(u) /\ cnReq'[u] = cnReq[u]
        /\ \A u \in CnThreads : \A at : Stands(c, u, at)' <=> Stands(c, u, at) /\ u # t
    BY <1>1, <2>2, EndedFacts
  <2>7. ASSUME c \notin cnUnapplied'
        PROVE  /\ cnReq[t].scope = cnRow[c].symbols
               /\ \A u \in CnThreads : On(c, u) /\ cnReq[u].op = "put" => cnReq[u].scope = cnRow[c].symbols
    <3>1. CASE c \notin cnUnapplied
      BY <1>1, <3>1 DEF CnInv, ConnectorOk, Applied
    <3>2. CASE cnReq[t].clean
      BY <1>1, <3>2 DEF CnInv, ConnectorOk, CleanOk, Wants
    <3> QED
      BY <2>1, <2>7, <3>1, <3>2
  <2>8. Applied(c)'
    BY <1>1, <2>3, <2>4, <2>6, <2>7 DEF Applied
  <2>9. ASSUME NEW u \in CnThreads PROVE CleanOk(c, u)'
    <3> SUFFICES ASSUME On(c, u), u # t, cnReq[u].clean PROVE CleanOk(c, u)'
      BY <2>6 DEF CleanOk
    <3>1. Wants(t) = Wants(u)
      BY <1>1 DEF CnInv, ConnectorOk, CleanOk
    <3>2. cnReq[u].op = "put"
      BY <1>1, <3>1 DEF Wants
    <3>3. cnReq[u].at # "flip"
      BY <3>2 DEF CnInv, CnType, CnReqsOk, CnReqOk, On
    <3> QED
      BY <1>1, <2>6, <3>3 DEF CnInv, ConnectorOk, CleanOk
  <2>10. Steady(c)'
    <3> SUFFICES ASSUME c \notin cnAstray PROVE Steady(c)'
      BY <1>1 DEF Steady
    <3>1. \A u \in CnThreads : On(c, u) => Wants(u) = Wants(t) /\ cnReq[u].at # "flip"
      BY <1>1, PutsAlone
    <3>2. \A u \in CnThreads : ~Stands(c, u, "flip")'
      BY <2>6, <3>1 DEF Stands
    <3>3. \A u \in CnThreads : ~Stands(c, u, "run")'
      BY <1>1, <2>6 DEF CnInv, ConnectorOk, Steady, Stands
    <3>4. Puts1(c)
      BY <1>1 DEF Puts1
    <3>5. cnRow'[c].enabled
      BY <1>1, <3>4 DEF CnInv, ConnectorOk, Steady, BeingMade
    <3>6. BeingMade(c)' /\ Agree(c)'
      BY <2>3, <2>4, <3>5 DEF BeingMade, Agree
    <3> QED
      BY <2>6, <3>1, <3>2, <3>3, <3>6 DEF Steady
  <2>11. ConnectorOk(c)'
    BY <2>8, <2>9, <2>10 DEF ConnectorOk
  <2>12. \A d \in CnConnectors \ {c} :
            \A u \in CnThreads : (On(d, u)' <=> On(d, u)) /\ (On(d, u) => cnReq'[u] = cnReq[u])
    BY <1>0, <1>1, <2>2, OwnRequest
  <2>13. \A d \in CnConnectors \ {c} : d \in cnUnapplied' <=> d \in cnUnapplied
    BY <2>1
  <2> QED
    BY <1>1, <2>4, <2>5, <2>11, <2>12, <2>13, OthersKept
<1> QED
  BY <1>2, <1>3

-----------------------------------------------------------------------------
(* What crosses the requests *)

\* An operator who crosses a connector crosses every request on it.
LEMMA CrossedAll ==
    ASSUME CnReqsOk, NEW c, NEW req, req = Crossed(c, cnReq)
    PROVE  /\ req = [u \in CnThreads |-> req[u]]
           /\ \A u \in CnThreads :
                 /\ CnReqOk(req[u]) /\ req[u].at = cnReq[u].at
                 /\ req[u].at # "idle" => req[u].c = cnReq[u].c
                 /\ req[u].at # "idle" => req[u].op = cnReq[u].op /\ req[u].scope = cnReq[u].scope
                 /\ req[u].at # "idle" /\ req[u].c = c => ~req[u].clean
                 /\ req[u].at # "idle" /\ req[u].c # c => req[u] = cnReq[u]
<1>1. req = [u \in CnThreads |-> req[u]]
  BY DEF Crossed
<1>2. ASSUME NEW u \in CnThreads
      PROVE  /\ CnReqOk(req[u]) /\ req[u].at = cnReq[u].at
             /\ req[u].at # "idle" => \A f \in CnFields \ {"clean"} : req[u][f] = cnReq[u][f]
             /\ req[u].at # "idle" /\ req[u].c = c => ~req[u].clean
             /\ req[u].at # "idle" /\ req[u].c # c => req[u] = cnReq[u]
  BY ReqsCrossed DEF CnReqsOk
<1> QED
  BY <1>1, <1>2 DEF CnFields

\* What is astray and crossed, with its rows as they were, stays within the invariant.
LEMMA AstrayKeeps ==
    ASSUME CnInv, NEW c \in CnConnectors, CnReqsOk', CnBoxesOk', UNCHANGED <<cnRow, cnUnapplied>>,
           cnAstray' = cnAstray \cup {c},
           \A d \in CnConnectors \ {c} : cnBox'[d] = cnBox[d],
           c \in CnScoped \ cnUnapplied => \A b \in cnBox'[c] : b.env = cnRow[c].symbols,
           \A u \in CnThreads :
              /\ cnReq'[u].at # "idle" =>
                    /\ cnReq'[u].at = cnReq[u].at /\ cnReq'[u].c = cnReq[u].c
                    /\ cnReq'[u].op = cnReq[u].op /\ cnReq'[u].scope = cnReq[u].scope
                    /\ cnReq'[u].c = c => ~cnReq'[u].clean
                    /\ cnReq'[u].c # c => cnReq'[u] = cnReq[u]
              /\ cnReq[u].at # "idle" /\ cnReq[u].c # c => cnReq'[u] = cnReq[u]
    PROVE  CnInv'
<1>1. CnType'
  BY RowsKept DEF CnInv, CnType
<1>2. Applied(c)'
  BY DEF CnInv, ConnectorOk, Applied, On
<1>3. ConnectorOk(c)'
  BY <1>2, CrossedConnector DEF On
<1>4. \A d \in CnConnectors \ {c} :
         \A u \in CnThreads : (On(d, u)' <=> On(d, u)) /\ (On(d, u) => cnReq'[u] = cnReq[u])
  BY DEF On
<1> QED
  BY <1>1, <1>3, <1>4, OthersKept

LEMMA OperateKeeps ==
    ASSUME CnInv, NEW c \in CnConnectors, NEW up, Operate(c, up)
    PROVE  CnInv'
<1>1. /\ Switched(c, up) /\ cnAstray' = cnAstray \cup {c} /\ cnReq' = Crossed(c, cnReq)
      /\ UNCHANGED <<cnRow, cnUnapplied>>
  BY DEF Operate
<1>2. /\ CnBoxesOk' /\ \A d \in CnConnectors \ {c} : cnBox'[d] = cnBox[d]
      /\ \A b \in cnBox'[c] : \E a \in cnBox[c] : b.env = a.env
  BY <1>1, BoxSwitched DEF CnInv, CnType
<1>3. c \in CnScoped \ cnUnapplied => \A b \in cnBox'[c] : b.env = cnRow[c].symbols
  BY <1>2 DEF CnInv, ConnectorOk, Applied
<1>4. PICK req : req = Crossed(c, cnReq)
  OBVIOUS
<1>5. /\ req = [u \in CnThreads |-> req[u]]
      /\ \A u \in CnThreads :
            /\ CnReqOk(req[u]) /\ req[u].at = cnReq[u].at
            /\ req[u].at # "idle" => req[u].c = cnReq[u].c
            /\ req[u].at # "idle" => req[u].op = cnReq[u].op /\ req[u].scope = cnReq[u].scope
            /\ req[u].at # "idle" /\ req[u].c = c => ~req[u].clean
            /\ req[u].at # "idle" /\ req[u].c # c => req[u] = cnReq[u]
  BY <1>4, CrossedAll DEF CnInv, CnType
<1>6. cnReq' = req
  BY <1>1, <1>4
<1>7. CnReqsOk'
  BY <1>5, <1>6 DEF CnReqsOk, CnReqOk
<1>8. ASSUME NEW u \in CnThreads, cnReq[u].at # "idle", cnReq[u].c # c PROVE cnReq'[u] = cnReq[u]
  BY <1>5, <1>6, <1>8
<1> QED
  BY <1>1, <1>2, <1>3, <1>5, <1>6, <1>7, <1>8, AstrayKeeps, SMTT(30)

LEMMA DockerFailsKeeps ==
    ASSUME CnInv, NEW t \in CnThreads, DockerFails(t)
    PROVE  CnInv'
<1>0. PICK c : c = cnReq[t].c
  OBVIOUS
<1>1. /\ cnReq[t].at \in {"switch", "find", "halt", "remove", "run"} /\ c \in CnConnectors /\ On(c, t)
      /\ cnAstray' = cnAstray \cup {c} /\ cnReq' = [Crossed(c, cnReq) EXCEPT ![t] = CnFree]
      /\ UNCHANGED <<cnRow, cnUnapplied>>
  BY <1>0, RequestsAt DEF DockerFails
<1>2. /\ CnBoxesOk' /\ \A d \in CnConnectors \ {c} : cnBox'[d] = cnBox[d]
      /\ c \in CnScoped \ cnUnapplied => \A b \in cnBox'[c] : b.env = cnRow[c].symbols
  <2>1. CASE UNCHANGED cnBox
    BY <1>1, <2>1, BoxesKept DEF CnInv, CnType, ConnectorOk, Applied
  <2>2. ASSUME NEW up, Switched(c, up)
        PROVE  /\ CnBoxesOk' /\ \A d \in CnConnectors \ {c} : cnBox'[d] = cnBox[d]
               /\ c \in CnScoped \ cnUnapplied => \A b \in cnBox'[c] : b.env = cnRow[c].symbols
    BY <1>1, <2>2, BoxSwitched DEF CnInv, CnType, ConnectorOk, Applied
  <2>3. CASE cnBox' = [cnBox EXCEPT ![c] = {}]
    BY <1>1, <2>3, BoxSet DEF CnInv, CnType
  <2>4. CASE /\ cnReq[t].at = "run" /\ cnBox[c] = {}
             /\ cnBox' = [cnBox EXCEPT ![c] = {[n |-> Number, up |-> FALSE, env |-> cnReq[t].scope]}]
    <3>1. PICK box : box = [n |-> Number, up |-> FALSE, env |-> cnReq[t].scope]
      OBVIOUS
    <3>2. DOMAIN box = {"n", "up", "env"} /\ box.env = cnReq[t].scope
      BY <3>1
    <3>3. c \in CnConnectors /\ CnBoxesOk /\ cnBox' = [cnBox EXCEPT ![c] = {box}]
      BY <1>1, <2>4, <3>1 DEF CnInv, CnType
    <3>4. CnBoxesOk' /\ cnBox'[c] = {box} /\ \A d \in CnConnectors \ {c} : cnBox'[d] = cnBox[d]
      BY <3>2, <3>3, BoxMade
    <3>5. c \in CnScoped \ cnUnapplied => cnReq[t].scope = cnRow[c].symbols
      BY <1>1, <2>4, RequestsAt DEF CnInv, ConnectorOk, Applied
    <3> QED
      BY <3>2, <3>4, <3>5
  <2> QED
    BY <1>0, <2>1, <2>2, <2>3, <2>4, Zenon DEF DockerFails
<1>3. PICK req : req = Crossed(c, cnReq)
  OBVIOUS
<1>4. /\ req = [u \in CnThreads |-> req[u]]
      /\ \A u \in CnThreads :
            /\ CnReqOk(req[u]) /\ req[u].at = cnReq[u].at
            /\ req[u].at # "idle" => req[u].c = cnReq[u].c
            /\ req[u].at # "idle" => req[u].op = cnReq[u].op /\ req[u].scope = cnReq[u].scope
            /\ req[u].at # "idle" /\ req[u].c = c => ~req[u].clean
            /\ req[u].at # "idle" /\ req[u].c # c => req[u] = cnReq[u]
  BY <1>3, CrossedAll DEF CnInv, CnType
<1>5. cnReq'[t] = CnFree /\ (\A u \in CnThreads \ {t} : cnReq'[u] = req[u]) /\ cnReq' = [u \in CnThreads |-> cnReq'[u]]
  BY <1>1, <1>3, <1>4
<1>6. ASSUME NEW u \in CnThreads PROVE CnReqOk(cnReq'[u])
  BY <1>4, <1>5, FreeReqOk
<1>7. CnReqsOk'
  BY <1>5, <1>6 DEF CnReqsOk, CnReqOk
<1>8. ASSUME NEW u \in CnThreads
      PROVE  /\ cnReq'[u].at # "idle" =>
                   /\ cnReq'[u].at = cnReq[u].at /\ cnReq'[u].c = cnReq[u].c
                   /\ cnReq'[u].op = cnReq[u].op /\ cnReq'[u].scope = cnReq[u].scope
                   /\ cnReq'[u].c = c => ~cnReq'[u].clean
                   /\ cnReq'[u].c # c => cnReq'[u] = cnReq[u]
             /\ cnReq[u].at # "idle" /\ cnReq[u].c # c => cnReq'[u] = cnReq[u]
  <2>1. CASE u = t
    BY <1>0, <1>5, <2>1, FreeReqOk
  <2>2. CASE u # t
    BY <1>4, <1>5, <2>2
  <2> QED
    BY <2>1, <2>2
<1> QED
  BY <1>1, <1>2, <1>7, <1>8, AstrayKeeps, SMTT(30)

LEMMA ControlPlaneEndsKeeps ==
    ASSUME CnInv, ControlPlaneEnds
    PROVE  CnInv'
<1>1. /\ cnAstray' = cnAstray \cup {c \in CnConnectors : InFlight(c) # {}}
      /\ cnReq' = [t \in CnThreads |-> CnFree] /\ UNCHANGED <<cnRow, cnBox, cnUnapplied>>
  BY DEF ControlPlaneEnds
<1>2. \A u \in CnThreads : cnReq'[u] = CnFree /\ cnReq'[u].at = "idle"
  BY <1>1, FreeReqOk
<1>3. CnReqsOk'
  BY <1>1, <1>2, FreeReqOk DEF CnReqsOk, CnReqOk
<1>4. CnType'
  BY <1>1, <1>3, RowsKept, BoxesKept DEF CnInv, CnType
<1>5. ASSUME NEW c \in CnConnectors PROVE ConnectorOk(c)'
  <2>1. \A u \in CnThreads : ~On(c, u)'
    BY <1>2 DEF On
  <2>2. Applied(c)'
    BY <1>1, <2>1, <1>5 DEF CnInv, ConnectorOk, Applied
  <2>3. CASE InFlight(c) # {}
    BY <1>1, <2>1, <2>2, <2>3, CrossedConnector
  <2>4. CASE InFlight(c) = {}
    <3>1. \A u \in CnThreads : ~On(c, u)
      BY <2>4, NobodyOn DEF CnInv
    <3>2. c \notin cnAstray => Agree(c)
      BY <3>1 DEF CnInv, ConnectorOk, Steady, Puts1, Stands
    <3>3. c \notin cnAstray' => Agree(c)'
      BY <1>1, <3>2 DEF Agree
    <3> QED
      BY <2>1, <2>2, <3>3 DEF ConnectorOk, Steady, CleanOk, Puts1, Stands
  <2> QED
    BY <2>3, <2>4
<1> QED
  BY <1>4, <1>5, Zenon DEF CnInv

LEMMA InitCnInv == CnInit => CnInv
<1> SUFFICES ASSUME CnInit PROVE CnInv
  OBVIOUS
<1>1. PICK made \in CnMade : CnStart(made)
  BY DEF CnInit
<1>2. /\ cnReq = [t \in CnThreads |-> CnFree] /\ cnUnapplied = {}
      /\ cnRow = [c \in CnConnectors |-> [enabled |-> FALSE, symbols |-> {}]]
      /\ cnBox = made /\ cnAstray = {c \in CnConnectors : \E b \in cnBox[c] : b.up}
  BY <1>1 DEF CnStart
<1>3. \A u \in CnThreads : cnReq[u] = CnFree /\ cnReq[u].at = "idle"
  BY <1>2, FreeReqOk
<1>4. CnReqsOk
  BY <1>2, <1>3, FreeReqOk DEF CnReqsOk
<1>5. CnRowsOk /\ \A c \in CnConnectors : cnRow[c].enabled = FALSE /\ cnRow[c].symbols = {}
  BY <1>2 DEF CnRowsOk
<1>6. \A c \in CnConnectors :
         made[c] \in {{}} \cup {{[n |-> 0, up |-> up, env |-> {}]} : up \in BOOLEAN}
  BY <1>1 DEF CnMade
<1>7. ASSUME NEW c \in CnConnectors
      PROVE  /\ \A b \in cnBox[c] : DOMAIN b = {"n", "up", "env"} /\ b.env = {}
             /\ \A b, d \in cnBox[c] : b = d
  <2>1. CASE made[c] = {}
    BY <1>2, <2>1
  <2>2. CASE \E up \in BOOLEAN : made[c] = {[n |-> 0, up |-> up, env |-> {}]}
    BY <1>2, <2>2
  <2> QED
    BY <1>6, <1>7, <2>1, <2>2
<1>8. CnBoxesOk
  BY <1>1, <1>2, <1>7 DEF CnMade, CnBoxesOk
<1>9. ASSUME NEW c \in CnConnectors PROVE ConnectorOk(c)
  <2>1. \A u \in CnThreads : ~On(c, u)
    BY <1>3 DEF On
  <2>2. c \notin cnAstray => Agree(c)
    BY <1>2, <1>5 DEF Agree
  <2> QED
    BY <1>5, <1>7, <2>1, <2>2 DEF ConnectorOk, Steady, Applied, CleanOk, Puts1, Stands
<1> QED
  BY <1>4, <1>5, <1>8, <1>9 DEF CnInv, CnType

LEMMA CnStutters == CnInv /\ UNCHANGED cnVars => CnInv'
<1> SUFFICES ASSUME CnInv, UNCHANGED cnVars PROVE CnInv'
  OBVIOUS
<1>1. UNCHANGED <<cnRow, cnBox, cnReq, cnAstray, cnUnapplied>>
  BY DEF cnVars
<1>2. CnType'
  BY <1>1, RowsKept, BoxesKept DEF CnInv, CnType, CnReqsOk, CnReqOk
<1>3. ASSUME NEW c \in CnConnectors PROVE ConnectorOk(c)'
  BY <1>1, OtherConnector DEF CnInv, On
<1> QED
  BY <1>2, <1>3, Zenon DEF CnInv

LEMMA CnStepKeeps == CnInv /\ [CnNext]_cnVars => CnInv'
<1> SUFFICES ASSUME CnInv, [CnNext]_cnVars PROVE CnInv'
  OBVIOUS
<1>1. ASSUME NEW t \in CnThreads, NEW c \in CnConnectors, Toggle(t, c) PROVE CnInv'
  BY <1>1, ToggleKeeps
<1>2. ASSUME NEW t \in CnThreads, NEW c \in CnConnectors, NEW scope \in CnScopes, PutSymbols(t, c, scope)
      PROVE  CnInv'
  BY <1>2, PutSymbolsKeeps
<1>3. ASSUME NEW t \in CnThreads,
             Switch(t) \/ Flip(t) \/ FindBox(t) \/ HaltBox(t) \/ RemoveBox(t) \/ RunBox(t) \/ DockerFails(t)
      PROVE  CnInv'
  BY <1>3, SwitchKeeps, FlipKeeps, FindBoxKeeps, HaltBoxKeeps, RemoveBoxKeeps, RunBoxKeeps, DockerFailsKeeps
<1>4. ASSUME NEW c \in CnConnectors, NEW up \in BOOLEAN, Operate(c, up) PROVE CnInv'
  BY <1>4, OperateKeeps
<1> QED
  BY <1>1, <1>2, <1>3, <1>4, ControlPlaneEndsKeeps, CnStutters DEF CnNext

\* toggle_connector and set_connector_symbols: once its requests are done, a connector is on if
\* and only if its feed runs, and its feed has the symbols it was told are live, whatever the
\* order of the steps of any number of requests, of operators and of failures half-way.
THEOREM ConnectorsAreTold == CnSpec => []ConnectorsTell
<1>1. CnSpec => []CnInv
  BY InitCnInv, CnStepKeeps, PTL DEF CnSpec
<1> QED
  BY <1>1, InvConnectors, PTL

-----------------------------------------------------------------------------
(* Exports *)

RunFields == {"sink", "configured", "runs", "n", "at", "opened", "rows", "buffer", "outcome"}
Untouched == [file |-> <<>>, table |-> <<>>, parts |-> <<>>, loaded |-> {}]

\* The first batches of a run.
FirstBatches(n, rows) == [k \in 1 .. rows |-> <<n, k - 1>>]

JobStates ==
    {<<"unknown", "unknown", FALSE>>, <<"queued", "queued", TRUE>>, <<"running", "querying", TRUE>>,
     <<"running", "writing", TRUE>>, <<"running", "uploading", TRUE>>, <<"succeeded", "done", FALSE>>,
     <<"failed", "failed", FALSE>>}

JobOk(job) ==
    /\ DOMAIN job = {"status", "stage", "worker"}
    /\ <<job.status, job.stage, job.worker>> \in JobStates

\* The stages of a job whose upload has begun.
Afterwards == {"uploading", "done", "failed", "unknown"}

StoreInv ==
    /\ exJob = [j \in ExJobs |-> exJob[j]] /\ \A j \in ExJobs : JobOk(exJob[j])
    /\ DOMAIN exStore = {"object", "sent", "landed", "files", "orphans", "began"}
    /\ exStore.landed \subseteq exStore.sent /\ exStore.sent \subseteq ExJobs \cap exStore.began
    /\ exStore.landed # {} => exStore.object \in exStore.landed
    /\ \A j \in exStore.sent : exJob[j].stage \in Afterwards
    /\ \A j \in ExJobs :
          /\ exJob[j].status = "succeeded" => j \in exStore.landed
          /\ exJob[j] # NoJob => j \in exStore.began
          /\ j \in exStore.files => exJob[j].worker \/ j \in exStore.orphans

RunType ==
    /\ DOMAIN exRun = RunFields /\ DOMAIN exDest = {"file", "table", "parts", "loaded"}
    /\ exRun.sink \in Sinks /\ exRun.configured \in BOOLEAN /\ exRun.opened \in BOOLEAN
    /\ exRun.runs \in Seq(Nat) /\ exRun.n \in 0 .. Len(exRun.runs) /\ exRun.rows \in Nat
    /\ exRun.at \in {"idle", "writing"} /\ exRun.outcome \in {"none", "exported", "failed", "refused"}
    /\ exRun.at = "writing" => exRun.n # 0 /\ exRun.rows <= exRun.runs[exRun.n]
    /\ exDest.table \in Seq(Nat \X Nat)

\* A sequence of a length ends with the first batches of a run.
EndsWith(s, l, n, rows) == rows <= l /\ \A k \in 1 .. rows : s[l - rows + k] = <<n, k - 1>>

\* What a run has handed over of its n-th export is where its sink puts it.
HandedOver(n, rows) ==
    /\ exRun.sink = "snowflake" =>
          EndsWith(exDest.table, Len(exDest.table), n, rows)
    /\ exRun.sink = "fabric" =>
          \A k \in 1 .. rows : k - 1 \in DOMAIN exDest.parts /\ exDest.parts[k - 1] = <<n, k - 1>>
    /\ exRun.sink = "databricks" => rows <= Len(exDest.table)

\* A file is of one run; a table's parts have their numbers, each once.
OneRun(file, n) == file = <<>> \/ \E m \in 1 .. n : \A k \in DOMAIN file : file[k] = <<m, k - 1>>
PartsIn(table, loaded, n) ==
    loaded = 0 .. Len(table) - 1 /\ \A k \in 1 .. Len(table) : table[k][1] \in 1 .. n /\ table[k][2] = k - 1

SinkInv ==
    /\ RunType
    /\ exRun.sink \in Files => OneRun(exDest.file, exRun.n)
    /\ exRun.sink = "databricks" => PartsIn(exDest.table, exDest.loaded, exRun.n)
    /\ ~exRun.configured => exDest = Untouched /\ (exRun.at = "writing" => ~exRun.opened)
    /\ exRun.configured => exRun.outcome # "refused"
    /\ exRun.n = 0 => exDest = Untouched
    /\ exRun.at = "writing" =>
          /\ ~exRun.opened => exRun.rows = 0
          /\ HandedOver(exRun.n, exRun.rows)
          /\ exRun.opened => exRun.buffer = FirstBatches(exRun.n, exRun.rows)
          /\ exRun.opened /\ exRun.sink = "parquet" => exDest.file = FirstBatches(exRun.n, exRun.rows)
    /\ exRun.at = "idle" /\ exRun.n # 0 /\ exRun.outcome = "exported" =>
          /\ HandedOver(exRun.n, exRun.runs[exRun.n])
          /\ exRun.sink \in Files => exDest.file = FirstBatches(exRun.n, exRun.runs[exRun.n])

ExInv == StoreInv /\ SinkInv

\* What a sink has been given is a sequence, batch by batch.
LEMMA GivenIsASeq ==
    ASSUME NEW n \in Nat, NEW rows \in Nat
    PROVE  /\ FirstBatches(n, rows) \in Seq(Nat \X Nat) /\ Len(FirstBatches(n, rows)) = rows
           /\ \A k \in 1 .. rows : FirstBatches(n, rows)[k] = <<n, k - 1>>
           /\ Append(FirstBatches(n, rows), <<n, rows>>) = FirstBatches(n, rows + 1)
<1>1. FirstBatches(n, rows) \in [1 .. rows -> Nat \X Nat] /\ FirstBatches(n, rows + 1) \in [1 .. rows + 1 -> Nat \X Nat]
  BY DEF FirstBatches
<1>2. \A m \in Nat : \A s \in [1 .. m -> Nat \X Nat] : s \in Seq(Nat \X Nat) /\ Len(s) = m
  OBVIOUS
<1>3. /\ FirstBatches(n, rows) \in Seq(Nat \X Nat) /\ Len(FirstBatches(n, rows)) = rows
      /\ FirstBatches(n, rows + 1) \in Seq(Nat \X Nat) /\ Len(FirstBatches(n, rows + 1)) = rows + 1
  BY <1>1, <1>2
<1>4. /\ \A k \in 1 .. rows : FirstBatches(n, rows)[k] = <<n, k - 1>>
      /\ \A k \in 1 .. rows + 1 : FirstBatches(n, rows + 1)[k] = <<n, k - 1>>
  BY DEF FirstBatches
<1>5. PICK s : s = Append(FirstBatches(n, rows), <<n, rows>>)
  OBVIOUS
<1>6. s \in Seq(Nat \X Nat) /\ Len(s) = rows + 1
  BY <1>3, <1>5
<1>7. ASSUME NEW k \in 1 .. rows + 1 PROVE s[k] = <<n, k - 1>>
  <2>1. CASE k <= rows
    <3>1. k \in 1 .. rows /\ k # rows + 1
      BY <2>1
    <3>2. s[k] = FirstBatches(n, rows)[k]
      BY <1>3, <1>5, <3>1
    <3> QED
      BY <1>4, <3>1, <3>2
  <2>2. CASE k = rows + 1
    BY <1>3, <1>5, <2>2
  <2> QED
    BY <2>1, <2>2
<1>8. s = FirstBatches(n, rows + 1)
  BY <1>3, <1>4, <1>6, <1>7, SeqEqual
<1> QED
  BY <1>3, <1>4, <1>5, <1>8

\* The end of a file, row by row, is that sequence.
LEMMA EndOfSeq ==
    ASSUME NEW s \in Seq(Nat \X Nat), NEW n \in Nat, NEW rows \in Nat, EndsWith(s, Len(s), n, rows)
    PROVE  SubSeq(s, Len(s) - rows + 1, Len(s)) = FirstBatches(n, rows)
<1>1. PICK e : e = SubSeq(s, Len(s) - rows + 1, Len(s))
  OBVIOUS
<1>2. Len(s) \in Nat /\ \A i \in Len(s) - rows + 1 .. Len(s) : s[i] \in Nat \X Nat
  <2>1. Len(s) \in Nat /\ rows <= Len(s)
    BY DEF EndsWith
  <2>2. ASSUME NEW i \in Len(s) - rows + 1 .. Len(s) PROVE s[i] \in Nat \X Nat
    <3>1. i \in 1 .. Len(s)
      BY <2>1
    <3> QED
      BY <3>1, ElementOfSeq
  <2> QED
    BY <2>1, <2>2
<1>3. /\ e \in Seq(Nat \X Nat) /\ Len(e) = rows
      /\ \A i \in 1 .. rows : e[i] = s[(Len(s) - rows + 1) + i - 1]
  BY <1>1, <1>2, SubSeqProperties DEF EndsWith
<1>4. ASSUME NEW i \in 1 .. rows PROVE e[i] = <<n, i - 1>>
  <2>1. (Len(s) - rows + 1) + i - 1 = Len(s) - rows + i
    BY <1>2
  <2> QED
    BY <1>3, <2>1 DEF EndsWith
<1>5. /\ FirstBatches(n, rows) \in Seq(Nat \X Nat) /\ Len(FirstBatches(n, rows)) = rows
      /\ \A k \in 1 .. rows : FirstBatches(n, rows)[k] = <<n, k - 1>>
  BY GivenIsASeq
<1>6. e = FirstBatches(n, rows)
  BY <1>3, <1>4, <1>5, SeqEqual
<1> QED
  BY <1>1, <1>6

LEMMA InvExports == ExInv => ExportsTell
<1> SUFFICES ASSUME ExInv PROVE ExportsTell
  OBVIOUS
<1>1. JobsTell
  <2>1. \A j \in ExJobs : exJob[j].status \in {"queued", "running"} <=> exJob[j].worker
    BY DEF ExInv, StoreInv, JobOk, JobStates
  <2>2. \A j \in exStore.landed : exJob[j].stage \in {"uploading", "done", "failed", "unknown"}
    BY DEF ExInv, StoreInv, Afterwards
  <2>3. \A j \in ExJobs :
           exJob[j].status = "succeeded" => j \in exStore.landed /\ exStore.object \in exStore.landed
    BY DEF ExInv, StoreInv
  <2> QED
    BY <2>1, <2>2, <2>3 DEF ExInv, StoreInv, JobsTell
<1>2. SinksTell
  <2> DEFINE B == Batches(exRun.n)
             all == [k \in 1 .. B |-> Batch(k - 1)]
             end(s) == SubSeq(s, Len(s) - Len(all) + 1, Len(s))
             partsOf(s) == \A k \in DOMAIN s : s[k][1] \in 1 .. exRun.n /\ s[k][2] = k - 1
  <2> SUFFICES ASSUME exRun.at = "idle", exRun.n > 0
        PROVE  /\ exRun.outcome = "exported" =>
                    CASE exRun.sink \in Files -> exDest.file = all
                      [] exRun.sink = "snowflake" -> end(exDest.table) = all
                      [] exRun.sink = "fabric" -> \A k \in DOMAIN all : exDest.parts[k - 1] = all[k]
                      [] OTHER -> Len(all) <= Len(exDest.table)
               /\ exRun.sink \in Files =>
                    \E n \in 1 .. exRun.n : \A k \in DOMAIN exDest.file : exDest.file[k] = <<n, k - 1>>
               /\ exRun.sink = "databricks" => partsOf(exDest.table)
               /\ exRun.outcome = "refused" => exDest = Untouched
    BY Zenon DEF SinksTell, Untouched
  <2>1. /\ exRun.n \in Nat \ {0} /\ B \in Nat /\ B = exRun.runs[exRun.n] /\ exRun.configured \in BOOLEAN
        /\ exDest.table \in Seq(Nat \X Nat)
    BY DEF ExInv, SinkInv, RunType, Batches
  <2>2. all = FirstBatches(exRun.n, B) /\ DOMAIN all = 1 .. B /\ \A k \in 1 .. B : all[k] = <<exRun.n, k - 1>>
    BY DEF FirstBatches, Batch
  <2>3. Len(all) = B
    BY <2>1, <2>2, GivenIsASeq
  <2> HIDE DEF all, B
  <2>4. ASSUME exRun.outcome = "exported"
        PROVE  CASE exRun.sink \in Files -> exDest.file = all
                 [] exRun.sink = "snowflake" -> end(exDest.table) = all
                 [] exRun.sink = "fabric" -> \A k \in DOMAIN all : exDest.parts[k - 1] = all[k]
                 [] OTHER -> Len(all) <= Len(exDest.table)
    <3>1. HandedOver(exRun.n, B) /\ (exRun.sink \in Files => exDest.file = all)
      BY <2>1, <2>2, <2>4 DEF ExInv, SinkInv
    <3>2. ASSUME exRun.sink = "snowflake", exRun.sink \notin Files PROVE end(exDest.table) = all
      <4>1. EndsWith(exDest.table, Len(exDest.table), exRun.n, B)
        BY <3>1, <3>2 DEF HandedOver
      <4>2. PICK s, n : s = exDest.table /\ n = exRun.n
        OBVIOUS
      <4>3. s \in Seq(Nat \X Nat) /\ n \in Nat /\ B \in Nat /\ EndsWith(s, Len(s), n, B)
        BY <2>1, <4>1, <4>2
      <4>4. SubSeq(s, Len(s) - B + 1, Len(s)) = FirstBatches(n, B)
        BY <4>3, EndOfSeq
      <4> QED
        BY <2>2, <2>3, <4>2, <4>4
    <3>3. ASSUME exRun.sink \notin Files, exRun.sink # "snowflake", exRun.sink # "fabric"
          PROVE  Len(all) <= Len(exDest.table)
      <4>1. exRun.sink = "databricks"
        BY <3>3 DEF ExInv, SinkInv, RunType, Sinks
      <4> QED
        BY <2>3, <3>1, <4>1 DEF HandedOver
    <3>4. ASSUME exRun.sink \notin Files, exRun.sink = "fabric"
          PROVE  \A k \in DOMAIN all : exDest.parts[k - 1] = all[k]
      BY <2>2, <3>1, <3>4 DEF HandedOver
    <3> QED
      BY <3>1, <3>2, <3>3, <3>4 DEF Files, Buffering
  <2>5. ASSUME exRun.sink \in Files
        PROVE  \E n \in 1 .. exRun.n : \A k \in DOMAIN exDest.file : exDest.file[k] = <<n, k - 1>>
    <3>1. OneRun(exDest.file, exRun.n)
      BY <2>5 DEF ExInv, SinkInv
    <3>2. CASE exDest.file = <<>>
      <4>1. 1 \in 1 .. exRun.n /\ DOMAIN exDest.file = {}
        BY <2>1, <3>2
      <4> QED
        BY <4>1
    <3> QED
      BY <3>1, <3>2 DEF OneRun
  <2>6. exRun.outcome = "refused" => exDest = Untouched
    BY <2>1 DEF ExInv, SinkInv
  <2>7. exRun.sink = "databricks" => partsOf(exDest.table)
    <3>1. DOMAIN exDest.table = 1 .. Len(exDest.table)
      BY <2>1
    <3> QED
      BY <3>1 DEF ExInv, SinkInv, PartsIn
  <2> QED
    BY <2>4, <2>5, <2>6, <2>7
<1> QED
  BY <1>1, <1>2 DEF ExportsTell

LEMMA EmptyGiven == \A n : FirstBatches(n, 0) = <<>>
  BY DEF FirstBatches

LEMMA StoreKept == StoreInv /\ UNCHANGED <<exJob, exStore>> => StoreInv'
  BY DEF StoreInv, JobOk

LEMMA SinkKept == SinkInv /\ UNCHANGED <<exRun, exDest>> => SinkInv'
  BY DEF SinkInv, RunType, HandedOver, OneRun, PartsIn

\* A job's step: its entry, and the store.
LEMMA JobStep ==
    ASSUME StoreInv, NEW j \in ExJobs, NEW job, JobOk(job), exJob' = [exJob EXCEPT ![j] = job],
           DOMAIN exStore' = DOMAIN exStore,
           exStore'.object = exStore.object, exStore'.landed = exStore.landed,
           exStore'.began \in {exStore.began, exStore.began \cup {j}}, j \in exStore'.began,
           exStore'.sent \in {exStore.sent, exStore.sent \cup {j}},
           j \in exStore'.sent => job.stage \in Afterwards,
           job.status = "succeeded" => j \in exStore.landed,
           exStore'.files \subseteq exStore.files \cup {j},
           j \in exStore'.files => job.worker \/ j \in exStore'.orphans,
           exStore'.orphans = exStore.orphans
    PROVE  StoreInv'
<1>1. exJob'[j] = job /\ (\A i \in ExJobs \ {j} : exJob'[i] = exJob[i]) /\ exJob' = [i \in ExJobs |-> exJob'[i]]
  BY DEF StoreInv
<1>2. \A i \in ExJobs : JobOk(exJob'[i])
  BY <1>1 DEF StoreInv
<1>3. /\ exStore'.landed \subseteq exStore'.sent /\ exStore'.sent \subseteq ExJobs \cap exStore'.began
      /\ exStore'.landed # {} => exStore'.object \in exStore'.landed
      /\ \A i \in exStore'.sent : exJob'[i].stage \in Afterwards
  BY <1>1 DEF StoreInv
<1>4. ASSUME NEW i \in ExJobs
      PROVE  /\ exJob'[i].status = "succeeded" => i \in exStore'.landed
             /\ exJob'[i] # NoJob => i \in exStore'.began
             /\ i \in exStore'.files => exJob'[i].worker \/ i \in exStore'.orphans
  BY <1>1 DEF StoreInv
<1>5. DOMAIN exStore' = {"object", "sent", "landed", "files", "orphans", "began"}
  BY DEF StoreInv
<1> QED
  BY <1>1, <1>2, <1>3, <1>4, <1>5 DEF StoreInv, JobOk

\* The entry of a job at work is not new.
LEMMA AtWork ==
    ASSUME StoreInv, NEW j \in ExJobs, exJob[j].worker
    PROVE  j \in exStore.began /\ DOMAIN exJob[j] = {"status", "stage", "worker"}
<1>1. NoJob.worker = FALSE
  BY DEF NoJob
<1> QED
  BY <1>1 DEF StoreInv, JobOk

\* A worker's touch leaves the job running; an upload begun is not left by it.
LEMMA JobTouched ==
    ASSUME StoreInv, NEW j \in ExJobs, NEW stage \in {"querying", "writing", "uploading"}, exJob[j].worker,
           exJob[j].status \in {"queued", "running"}, Touch(j, "running", stage)
    PROVE  \E job : /\ JobOk(job) /\ job.worker /\ job.status = "running" /\ job.stage = stage
                    /\ exJob' = [exJob EXCEPT ![j] = job]
<1>1. PICK job : job = [exJob[j] EXCEPT !.status = "running", !.stage = stage]
  OBVIOUS
<1>2. exJob' = [exJob EXCEPT ![j] = job]
  BY <1>1, Zenon DEF Touch
<1>3. exJob[j].worker = TRUE
  BY DEF StoreInv, JobOk, JobStates
<1>4. /\ DOMAIN job = {"status", "stage", "worker"} /\ job.status = "running" /\ job.stage = stage
      /\ job.worker = TRUE
  BY <1>1, <1>3, AtWork
<1> QED
  BY <1>2, <1>4 DEF JobOk, JobStates

LEMMA JobKeeps ==
    ASSUME ExInv, NEW j \in ExJobs,
           CreateJob(j) \/ Querying(j) \/ Writing(j) \/ Uploading(j) \/ Lands(j) \/ Uploaded(j) \/ JobFails(j)
    PROVE  ExInv'
<1>1. StoreInv /\ SinkInv'
  BY SinkKept DEF ExInv, CreateJob, Querying, Writing, Uploading, Lands, Uploaded, JobFails
<1>2. CASE CreateJob(j)
  <2>1. JobOk(NewJob) /\ NewJob.status = "queued" /\ NewJob.worker = TRUE
    BY DEF JobOk, NewJob, JobStates
  <2>3. /\ DOMAIN exStore' = DOMAIN exStore /\ exStore'.began = exStore.began \cup {j}
        /\ exStore'.object = exStore.object /\ exStore'.files = exStore.files /\ exStore'.orphans = exStore.orphans
        /\ exStore'.sent = exStore.sent /\ exStore'.landed = exStore.landed
        /\ exJob' = [exJob EXCEPT ![j] = NewJob] /\ j \notin exStore.began
    BY <1>1, <1>2 DEF CreateJob, StoreInv
  <2>4. j \notin exStore.sent
    BY <1>1, <2>3 DEF StoreInv
  <2>5. StoreInv'
    BY <1>1, <2>1, <2>3, <2>4, JobStep
  <2> QED
    BY <1>1, <2>5 DEF ExInv
<1>3. CASE Querying(j) \/ Writing(j) \/ Uploading(j)
  <2>1. PICK stage \in {"querying", "writing", "uploading"} :
           /\ exJob[j].worker /\ Touch(j, "running", stage) /\ exJob[j].stage \in {"queued", "querying", "writing"}
           /\ stage # "uploading" => exStore'.sent = exStore.sent
    BY <1>1, <1>3 DEF Querying, Writing, Uploading, AtStage, StoreInv
  <2>2. exJob[j].status \in {"queued", "running"}
    BY <1>1, <2>1 DEF StoreInv, JobOk, JobStates
  <2>3. PICK job : /\ JobOk(job) /\ job.worker /\ job.status = "running" /\ job.stage = stage
                   /\ exJob' = [exJob EXCEPT ![j] = job]
    BY <1>1, <2>1, <2>2, JobTouched
  <2>4. j \in exStore.began
    BY <1>1, <2>1, AtWork
  <2>5. /\ DOMAIN exStore' = DOMAIN exStore /\ exStore'.began = exStore.began
        /\ exStore'.object = exStore.object /\ exStore'.landed = exStore.landed
        /\ exStore'.sent \in {exStore.sent, exStore.sent \cup {j}}
        /\ exStore'.files \subseteq exStore.files \cup {j}
        /\ exStore'.orphans = exStore.orphans
    BY <1>1, <1>3 DEF Querying, Writing, Uploading, StoreInv
  <2>6. j \in exStore'.sent => job.stage \in Afterwards
    <3>1. j \notin exStore.sent
      BY <1>1, <2>1 DEF StoreInv, Afterwards
    <3> QED
      BY <2>1, <2>3, <3>1 DEF Afterwards
  <2>7. StoreInv'
    BY <1>1, <2>3, <2>4, <2>5, <2>6, JobStep
  <2> QED
    BY <1>1, <2>7 DEF ExInv
<1>4. CASE Uploaded(j) \/ JobFails(j)
  <2>1. PICK ok \in BOOLEAN :
           /\ exJob[j].worker /\ Worked(j, ok) /\ (ok => Acknowledged(j))
           /\ exStore' = [exStore EXCEPT !.files = LeftOf(j, ok)]
    BY <1>4 DEF Uploaded, JobFails, AtStage
  <2>2. PICK job : job = [status |-> IF ok THEN "succeeded" ELSE "failed",
                          stage |-> IF ok THEN "done" ELSE "failed", worker |-> FALSE]
    OBVIOUS
  <2>3. /\ JobOk(job) /\ job.status = (IF ok THEN "succeeded" ELSE "failed") /\ job.stage \in Afterwards
        /\ exJob' = [exJob EXCEPT ![j] = job]
    BY <2>1, <2>2 DEF JobOk, JobStates, Worked, Afterwards
  <2>4. j \in exStore.began /\ (job.status = "succeeded" => j \in exStore.landed)
    BY <1>1, <2>1, <2>3, AtWork DEF Acknowledged
  <2>5. /\ DOMAIN exStore' = DOMAIN exStore /\ exStore'.began = exStore.began
        /\ exStore'.object = exStore.object /\ exStore'.sent = exStore.sent /\ exStore'.landed = exStore.landed
        /\ exStore'.files = exStore.files \ {j} /\ exStore'.orphans = exStore.orphans
    BY <1>1, <2>1 DEF LeftOf, StoreInv
  <2>6. StoreInv'
    BY <1>1, <2>3, <2>4, <2>5, JobStep
  <2> QED
    BY <1>1, <2>6 DEF ExInv
<1>5. CASE Lands(j)
  <2>1. /\ DOMAIN exStore' = DOMAIN exStore /\ exStore'.began = exStore.began
        /\ exStore'.object = j /\ exStore'.sent = exStore.sent /\ exStore'.landed = exStore.landed \cup {j}
        /\ exStore'.files = exStore.files /\ exStore'.orphans = exStore.orphans
        /\ exJob' = exJob /\ j \in exStore.sent
    BY <1>1, <1>5 DEF Lands, StoreInv
  <2>2. StoreInv'
    BY <1>1, <2>1 DEF StoreInv, JobOk
  <2> QED
    BY <1>1, <2>2 DEF ExInv
<1> QED
  BY <1>2, <1>3, <1>4, <1>5

LEMMA ForgetsKeeps ==
    ASSUME ExInv, ControlPlaneForgets
    PROVE  ExInv'
<1>1. SinkInv' /\ exJob' = [j \in ExJobs |-> NoJob]
  BY SinkKept DEF ExInv, ControlPlaneForgets
<1>2. JobOk(NoJob) /\ NoJob.status = "unknown"
  BY DEF JobOk, NoJob, JobStates
<1>5. NoJob.stage \in Afterwards
  BY DEF NoJob, Afterwards
<1>3. /\ DOMAIN exStore' = DOMAIN exStore /\ exStore'.began = exStore.began
      /\ exStore'.sent = exStore.sent /\ exStore'.landed = exStore.landed
      /\ exStore'.object = exStore.object /\ exStore'.files = exStore.files
      /\ exStore'.orphans = exStore.orphans \cup exStore.files
  BY DEF ControlPlaneForgets, ExInv, StoreInv
<1>4. StoreInv'
  BY <1>1, <1>2, <1>3, <1>5 DEF ExInv, StoreInv, JobOk
<1> QED
  BY <1>1, <1>4 DEF ExInv

\* What a step of the exporter leaves as it is.
RunKept ==
    /\ exRun'.sink = exRun.sink /\ exRun'.configured = exRun.configured /\ exRun'.runs = exRun.runs
    /\ DOMAIN exRun' = RunFields

\* What is of the runs so far is of the runs until later.
LEMMA RunsGoOn ==
    ASSUME NEW n \in Nat, NEW m \in Nat, n <= m, NEW file, NEW table \in Seq(Nat \X Nat), NEW loaded
    PROVE  /\ OneRun(file, n) => OneRun(file, m) /\ OneRun(<<>>, n)
           /\ PartsIn(table, loaded, n) => PartsIn(table, loaded, m)
  BY DEF OneRun, PartsIn

\* A run that failed: its destination holds what a file or a table may.
LEMMA FailedKeeps ==
    ASSUME ExInv, UNCHANGED <<exJob, exStore>>, exRun.at = "writing", exRun.configured,
           exRun' = [exRun EXCEPT !.at = "idle", !.outcome = "failed"],
           DOMAIN exDest' = DOMAIN exDest, exDest'.table \in Seq(Nat \X Nat),
           exRun.sink \in Files => OneRun(exDest'.file, exRun.n),
           exRun.sink = "databricks" => PartsIn(exDest'.table, exDest'.loaded, exRun.n)
    PROVE  ExInv'
<1>1. StoreInv' /\ SinkInv
  BY StoreKept DEF ExInv
<1>2. /\ RunKept /\ exRun'.at = "idle" /\ exRun'.n = exRun.n /\ exRun'.opened = exRun.opened
      /\ exRun'.rows = exRun.rows /\ exRun'.outcome = "failed"
  BY <1>1 DEF RunKept, SinkInv, RunType, RunFields
<1>3. RunType'
  BY <1>1, <1>2 DEF SinkInv, RunType, RunKept
<1>4. exRun.n # 0
  BY <1>1 DEF SinkInv, RunType
<1>5. SinkInv'
  BY <1>1, <1>2, <1>3, <1>4 DEF SinkInv, RunKept
<1> QED
  BY <1>1, <1>5 DEF ExInv

LEMMA ExtractKeeps ==
    ASSUME ExInv, Extract
    PROVE  ExInv'
<1>1. StoreInv' /\ exDest' = exDest /\ exRun.at = "idle" /\ exRun.n < Len(exRun.runs) /\ SinkInv
  BY StoreKept DEF ExInv, Extract
<1>2. /\ RunKept /\ exRun'.at = "writing" /\ exRun'.n = exRun.n + 1 /\ exRun'.opened = FALSE
      /\ exRun'.rows = 0 /\ exRun'.outcome = exRun.outcome
  BY <1>1 DEF Extract, RunKept, SinkInv, RunType, RunFields
<1>3. exRun.n \in Nat /\ exRun.runs \in Seq(Nat) /\ exRun.runs[exRun.n + 1] \in Nat
  BY <1>1 DEF SinkInv, RunType
<1>4. RunType'
  <2>1. PICK runs, n : runs = exRun.runs /\ n = exRun.n + 1
    OBVIOUS
  <2>2. n \in 0 .. Len(runs) /\ n # 0 /\ 0 <= runs[n]
    BY <1>1, <1>3, <2>1
  <2>3. exRun'.runs = runs /\ exRun'.n = n /\ exRun'.rows <= runs[n]
    BY <1>2, <2>1, <2>2 DEF RunKept
  <2> QED
    <3>1. exRun'.rows <= exRun'.runs[exRun'.n] /\ exRun'.n \in 0 .. Len(exRun'.runs) /\ exRun'.n # 0
      BY <2>2, <2>3
    <3>2. RunType
      BY <1>1 DEF SinkInv
    <3>3. /\ DOMAIN exRun' = RunFields /\ exRun'.sink \in Sinks /\ exRun'.configured \in BOOLEAN
          /\ exRun'.runs \in Seq(Nat) /\ exRun'.rows \in Nat
          /\ exRun'.at = "writing" /\ exRun'.outcome \in {"none", "exported", "failed", "refused"}
      BY <1>2, <3>2 DEF RunType, RunKept
    <3>4. exRun'.opened \in BOOLEAN
      BY <1>2
    <3>5. DOMAIN exDest' = {"file", "table", "parts", "loaded"} /\ exDest'.table \in Seq(Nat \X Nat)
      BY <1>1, <3>2 DEF RunType
    <3> QED
      BY <3>1, <3>3, <3>4, <3>5 DEF RunType
<1>5. HandedOver(exRun.n, exRun.rows)'
  <2>1. PICK n : n = exRun.n + 1
    OBVIOUS
  <2>2. Len(exDest.table) \in Nat
    BY <1>1 DEF SinkInv, RunType
  <2> QED
    BY <1>1, <1>2, <2>1, <2>2 DEF HandedOver, RunKept, EndsWith
<1>7. /\ exRun.sink \in Files => OneRun(exDest.file, exRun.n + 1)
      /\ exRun.sink = "databricks" => PartsIn(exDest.table, exDest.loaded, exRun.n + 1)
  <2>1. exDest.table \in Seq(Nat \X Nat) /\ exRun.n + 1 \in Nat /\ exRun.n <= exRun.n + 1
    BY <1>1, <1>3 DEF SinkInv, RunType
  <2>2. /\ OneRun(exDest.file, exRun.n) => OneRun(exDest.file, exRun.n + 1)
        /\ PartsIn(exDest.table, exDest.loaded, exRun.n) => PartsIn(exDest.table, exDest.loaded, exRun.n + 1)
    BY <1>3, <2>1, RunsGoOn
  <2> QED
    BY <1>1, <2>2 DEF SinkInv
<1>8. exRun'.n # 0 /\ HandedOver(exRun.n, exRun.rows)' /\ exRun'.outcome = exRun.outcome
  BY <1>2, <1>3, <1>5
<1>9. /\ exRun'.sink \in Files => OneRun(exDest'.file, exRun'.n)
      /\ exRun'.sink = "databricks" => PartsIn(exDest'.table, exDest'.loaded, exRun'.n)
  BY <1>1, <1>2, <1>7 DEF RunKept
<1>10. /\ ~exRun'.configured => exDest' = Untouched
       /\ exRun'.configured => exRun'.outcome # "refused"
  BY <1>1, <1>2 DEF SinkInv, RunKept
<1>6. SinkInv'
  BY <1>2, <1>4, <1>8, <1>9, <1>10 DEF SinkInv
<1> QED
  BY <1>1, <1>6 DEF ExInv

LEMMA OpenKeeps ==
    ASSUME ExInv, Open
    PROVE  ExInv'
<1>1. /\ StoreInv' /\ exRun.at = "writing" /\ ~exRun.opened /\ SinkInv
      /\ exRun.rows = 0 /\ HandedOver(exRun.n, 0) /\ exRun.configured
  BY StoreKept DEF ExInv, Open, SinkInv
<1>2. /\ RunKept /\ exRun'.at = "writing" /\ exRun'.n = exRun.n /\ exRun'.opened = TRUE
      /\ exRun'.rows = 0 /\ exRun'.outcome = exRun.outcome /\ exRun'.buffer = <<>>
  BY <1>1 DEF Open, RunKept, SinkInv, RunType, RunFields
<1>3. /\ DOMAIN exDest' = DOMAIN exDest /\ exDest'.table = exDest.table /\ exDest'.parts = exDest.parts
      /\ exDest'.loaded = exDest.loaded
      /\ exDest'.file = IF exRun.sink = "parquet" THEN <<>> ELSE exDest.file
  BY <1>1 DEF Open, Opened, SinkInv, RunType
<1>4. RunType'
  BY <1>1, <1>2, <1>3 DEF SinkInv, RunType, RunKept
<1>5. HandedOver(exRun.n, exRun.rows)'
  BY <1>1, <1>2, <1>3 DEF HandedOver, RunKept
<1>6. exRun'.n # 0
  BY <1>1, <1>2 DEF SinkInv, RunType
<1>7. exRun.sink \in Files => OneRun(exDest'.file, exRun.n)
  BY <1>1, <1>3 DEF SinkInv, OneRun
<1>8. SinkInv'
  BY <1>1, <1>2, <1>3, <1>4, <1>5, <1>6, <1>7, EmptyGiven DEF SinkInv, RunKept
<1> QED
  BY <1>1, <1>8 DEF ExInv

LEMMA OpenFailsKeeps ==
    ASSUME ExInv, OpenFails
    PROVE  ExInv'
<1>1. StoreInv' /\ exRun.at = "writing" /\ ~exRun.opened /\ SinkInv
  BY StoreKept DEF ExInv, OpenFails
<1>2. CASE exRun.configured
  <2>1. /\ DOMAIN exDest' = DOMAIN exDest /\ exDest'.table = exDest.table /\ exDest'.loaded = exDest.loaded
        /\ exDest'.file \in {exDest.file, <<>>}
    BY <1>1, <1>2 DEF OpenFails, Opened, SinkInv, RunType
  <2>2. exRun.sink \in Files => OneRun(exDest'.file, exRun.n)
    BY <1>1, <2>1 DEF SinkInv, OneRun
  <2>3. exRun' = [exRun EXCEPT !.at = "idle", !.outcome = "failed"]
    BY <1>2 DEF OpenFails
  <2> QED
    BY <1>1, <1>2, <2>1, <2>2, <2>3, FailedKeeps DEF OpenFails, SinkInv, RunType
<1>3. CASE ~exRun.configured
  <2>1. /\ RunKept /\ exRun'.at = "idle" /\ exRun'.n = exRun.n /\ exRun'.opened = exRun.opened
        /\ exRun'.rows = exRun.rows /\ exRun'.outcome = "refused" /\ exDest' = exDest
    BY <1>1, <1>3 DEF OpenFails, RunKept, SinkInv, RunType, RunFields
  <2>2. RunType'
    BY <1>1, <2>1 DEF SinkInv, RunType, RunKept
  <2>3. SinkInv'
    BY <1>1, <1>3, <2>1, <2>2 DEF SinkInv, RunKept
  <2> QED
    BY <1>1, <2>3 DEF ExInv
<1> QED
  BY <1>2, <1>3

\* What closing makes of a destination.
LEMMA Closing ==
    ASSUME ExInv, Ready, NEW dest, DOMAIN dest = DOMAIN exDest
    PROVE  /\ DOMAIN Uploads(dest) = DOMAIN exDest
           /\ Uploads(dest).table = dest.table /\ Uploads(dest).parts = dest.parts
           /\ Uploads(dest).loaded = dest.loaded
           /\ Uploads(dest).file = IF exRun.sink \in Buffering THEN FirstBatches(exRun.n, exRun.rows) ELSE dest.file
           /\ exRun.n # 0 /\ exRun.n \in Nat /\ exRun.rows \in Nat /\ exRun.configured
           /\ OneRun(FirstBatches(exRun.n, exRun.rows), exRun.n)
<1>1. /\ exRun.n # 0 /\ exRun.n \in Nat /\ exRun.rows \in Nat /\ exRun.configured
      /\ exRun.buffer = FirstBatches(exRun.n, exRun.rows)
  BY DEF ExInv, Ready, SinkInv, RunType
<1>2. exRun.n \in 1 .. exRun.n
  BY <1>1
<1>3. \A k \in DOMAIN FirstBatches(exRun.n, exRun.rows) : FirstBatches(exRun.n, exRun.rows)[k] = <<exRun.n, k - 1>>
  BY DEF FirstBatches
<1>4. OneRun(FirstBatches(exRun.n, exRun.rows), exRun.n)
  BY <1>2, <1>3 DEF OneRun
<1> QED
  BY <1>1, <1>4 DEF Uploads, ExInv, SinkInv, RunType

\* The end of a run that has written all it had.
LEMMA DoneKeeps ==
    ASSUME ExInv, Done
    PROVE  ExInv'
<1>1. /\ StoreInv' /\ exRun.at = "writing" /\ SinkInv /\ Ready
      /\ HandedOver(exRun.n, exRun.rows) /\ exRun.rows = exRun.runs[exRun.n]
  BY StoreKept DEF ExInv, Done, Close, Ready, SinkInv, RunType, Batches
<1>2. /\ RunKept /\ exRun'.at = "idle" /\ exRun'.n = exRun.n /\ exRun'.opened = exRun.opened
      /\ exRun'.rows = exRun.rows /\ exRun'.outcome = "exported"
  BY <1>1 DEF Done, Close, RunKept, SinkInv, RunType, RunFields
<1>3. /\ DOMAIN exDest' = DOMAIN exDest /\ exDest'.table = exDest.table /\ exDest'.parts = exDest.parts
      /\ exDest'.loaded = exDest.loaded
      /\ exDest'.file = IF exRun.sink \in Buffering THEN FirstBatches(exRun.n, exRun.rows) ELSE exDest.file
      /\ exRun.n # 0 /\ exRun.configured /\ OneRun(FirstBatches(exRun.n, exRun.rows), exRun.n)
  BY <1>1, Closing DEF Done, Close
<1>4. RunType'
  BY <1>1, <1>2, <1>3 DEF SinkInv, RunType, RunKept
<1>5. HandedOver(exRun.n, exRun.rows)'
  BY <1>1, <1>2, <1>3 DEF HandedOver, RunKept
<1>6. exRun.sink \in Files => exDest'.file = FirstBatches(exRun.n, exRun.rows)
  BY <1>1, <1>3 DEF SinkInv, Files, Ready
<1>7. exRun'.runs[exRun'.n] = exRun'.rows
  BY <1>1, <1>2 DEF RunKept
<1>8. /\ HandedOver(exRun.n, exRun.runs[exRun.n])'
      /\ exRun'.sink \in Files => exDest'.file = FirstBatches(exRun.n, exRun.runs[exRun.n])'
  BY <1>2, <1>5, <1>6, <1>7 DEF RunKept
<1>9. exRun.sink \in Files => OneRun(exDest'.file, exRun.n)
  BY <1>3, <1>6
<1>10. SinkInv'
  BY <1>1, <1>2, <1>3, <1>4, <1>8, <1>9 DEF SinkInv, RunKept
<1> QED
  BY <1>1, <1>10 DEF ExInv

LEMMA CloseFailsKeeps ==
    ASSUME ExInv, CloseFails
    PROVE  ExInv'
<1>1. Ready /\ SinkInv
  BY DEF ExInv, CloseFails
<1>2. PICK dest \in {exDest, Uploads(exDest)} :
         Close("failed", IF exRun.sink = "parquet" THEN [dest EXCEPT !.file = <<>>] ELSE dest)
  BY DEF CloseFails
<1>3. /\ DOMAIN dest = DOMAIN exDest /\ dest.table = exDest.table /\ dest.loaded = exDest.loaded
      /\ dest.file = exDest.file \/ OneRun(dest.file, exRun.n)
      /\ exRun.configured
  BY <1>1, Closing
<1>4. /\ DOMAIN exDest' = DOMAIN exDest /\ exDest'.table = exDest.table /\ exDest'.loaded = exDest.loaded
      /\ exDest'.file \in {dest.file, <<>>}
  BY <1>1, <1>2, <1>3 DEF Close, SinkInv, RunType
<1>5. exRun.sink \in Files => OneRun(exDest'.file, exRun.n)
  BY <1>1, <1>3, <1>4 DEF SinkInv, OneRun
<1> QED
  BY <1>1, <1>2, <1>3, <1>4, <1>5, FailedKeeps DEF Close, Ready, SinkInv, RunType

\* The definition, to fold it.
LEMMA EndsIntro ==
    ASSUME NEW s, NEW l, NEW n, NEW rows, rows <= l, \A k \in 1 .. rows : s[l - rows + k] = <<n, k - 1>>
    PROVE  EndsWith(s, l, n, rows)
  BY Zenon DEF EndsWith

\* One more row at the end,
LEMMA OneMore ==
    ASSUME NEW l \in Nat, NEW rows \in Nat, NEW n, NEW s, NEW t, EndsWith(s, l, n, rows),
           \A i \in 1 .. l : t[i] = s[i],
           t[l + 1] = <<n, rows>>
    PROVE  EndsWith(t, l + 1, n, rows + 1)
<1>1. rows <= l /\ \A k \in 1 .. rows : s[l - rows + k] = <<n, k - 1>>
  BY DEF EndsWith
<1>2. PICK m, r : m = l + 1 /\ r = rows + 1
  OBVIOUS
<1>3. ASSUME NEW k \in 1 .. r PROVE t[m - r + k] = <<n, k - 1>>
  <2>1. m - r + k = l - rows + k
    BY <1>2
  <2>2. CASE k = r
    <3>1. l - rows + k = l + 1 /\ k - 1 = rows
      BY <1>2, <2>2
    <3> QED
      BY <2>1, <3>1
  <2>3. CASE k # r
    <3>1. l - rows + k \in 1 .. l /\ k \in 1 .. rows
      BY <1>1, <1>2, <2>3
    <3> QED
      BY <1>1, <2>1, <3>1
  <2> QED
    BY <2>2, <2>3
<1>4. r <= m
  BY <1>1, <1>2
<1>5. EndsWith(t, m, n, r)
  BY <1>3, <1>4, EndsIntro, Zenon
<1> QED
  BY <1>2, <1>5, Zenon

\* as appending puts it there.
LEMMA EndAppended ==
    ASSUME NEW s \in Seq(Nat \X Nat), NEW n \in Nat, NEW rows \in Nat, EndsWith(s, Len(s), n, rows),
           NEW t, t = Append(s, <<n, rows>>)
    PROVE  EndsWith(t, Len(t), n, rows + 1)
<1>1. PICK l, e : l = Len(s) /\ e = <<n, rows>>
  OBVIOUS
<1>2. l \in Nat /\ e \in Nat \X Nat /\ EndsWith(s, l, n, rows)
  BY <1>1
<1>3. Len(t) = l + 1 /\ (\A i \in 1 .. l : t[i] = s[i]) /\ t[l + 1] = <<n, rows>>
  BY <1>1, <1>2, AppendProperties
<1>4. EndsWith(t, l + 1, n, rows + 1)
  BY <1>2, <1>3, OneMore
<1> QED
  BY <1>3, <1>4

\* What a batch that is written changes at its sink's destination.
LEMMA Written ==
    ASSUME SinkInv, NEW rows, NEW batch, NEW dest, dest = TableWritten(rows, batch)
    PROVE  /\ DOMAIN dest = DOMAIN exDest
           /\ dest.file = IF exRun.sink = "parquet" THEN Append(exDest.file, batch) ELSE exDest.file
           /\ dest.parts = IF exRun.sink = "fabric" THEN Overwritten(exDest.parts, rows, batch) ELSE exDest.parts
           /\ dest.table = IF exRun.sink = "snowflake" \/ (exRun.sink = "databricks" /\ rows \notin exDest.loaded)
                           THEN Append(exDest.table, batch) ELSE exDest.table
           /\ dest.loaded = IF exRun.sink = "databricks" THEN exDest.loaded \cup {rows} ELSE exDest.loaded
<1>1. CASE exRun.sink = "parquet"
  BY <1>1 DEF TableWritten, Buffering, SinkInv, RunType
<1>2. CASE exRun.sink \in Buffering
  BY <1>2 DEF TableWritten, Buffering, SinkInv, RunType
<1>3. CASE exRun.sink = "snowflake"
  BY <1>3 DEF TableWritten, Buffering, SinkInv, RunType
<1>4. CASE exRun.sink = "databricks"
  <2>1. dest = CopyInto(rows, batch)
    BY <1>4 DEF TableWritten, Buffering
  <2> QED
    BY <1>4, <2>1 DEF CopyInto, SinkInv, RunType
<1>5. CASE exRun.sink = "fabric"
  BY <1>5 DEF TableWritten, Buffering, SinkInv, RunType
<1> QED
  BY <1>1, <1>2, <1>3, <1>4, <1>5 DEF SinkInv, RunType, Sinks, Files

\* A part of a Delta table goes behind those of the numbers before it, or is there.
LEMMA PartsWritten ==
    ASSUME SinkInv, exRun.sink = "databricks", NEW n \in Nat, n # 0, NEW rows \in Nat,
           rows <= Len(exDest.table), PartsIn(exDest.table, exDest.loaded, n),
           NEW dest, dest = TableWritten(rows, <<n, rows>>)
    PROVE  /\ PartsIn(dest.table, dest.loaded, n) /\ rows + 1 <= Len(dest.table)
           /\ dest.table \in Seq(Nat \X Nat)
<1>1. PICK t, l : t = exDest.table /\ l = Len(t)
  OBVIOUS
<1>2. t \in Seq(Nat \X Nat) /\ l \in Nat /\ <<n, rows>> \in Nat \X Nat
  BY <1>1 DEF SinkInv, RunType
<1>3. /\ dest.table = IF rows \notin exDest.loaded THEN Append(t, <<n, rows>>) ELSE t
      /\ dest.loaded = exDest.loaded \cup {rows}
  BY <1>1, Written
<1>4. exDest.loaded = 0 .. l - 1 /\ rows <= l /\ \A k \in 1 .. l : t[k][1] \in 1 .. n /\ t[k][2] = k - 1
  BY <1>1 DEF PartsIn
<1>5. CASE rows \in exDest.loaded
  <2>1. dest.table = t /\ dest.loaded = exDest.loaded
    BY <1>3, <1>5
  <2>2. rows + 1 <= l
    BY <1>2, <1>4, <1>5
  <2> QED
    BY <1>1, <1>2, <2>1, <2>2
<1>6. CASE rows \notin exDest.loaded
  <2>6. rows = l /\ 0 .. l = (0 .. l - 1) \cup {l}
    BY <1>2, <1>4, <1>6
  <2>1. rows = l /\ dest.table = Append(t, <<n, rows>>) /\ dest.loaded = 0 .. l
    BY <1>3, <1>4, <1>6, <2>6
  <2>2. PICK u, e : u = dest.table /\ e = <<n, rows>>
    OBVIOUS
  <2>3. u \in Seq(Nat \X Nat) /\ Len(u) = l + 1 /\ (\A k \in 1 .. l : u[k] = t[k]) /\ u[l + 1] = e
    BY <1>1, <1>2, <2>1, <2>2, AppendProperties
  <2>4. ASSUME NEW k \in 1 .. Len(u) PROVE u[k][1] \in 1 .. n /\ u[k][2] = k - 1
    <3>1. CASE k = l + 1
      <4>1. u[k] = <<n, k - 1>> /\ n \in 1 .. n
        BY <1>2, <2>1, <2>2, <2>3, <3>1
      <4> QED
        BY <4>1
    <3>2. CASE k # l + 1
      <4>1. k \in 1 .. l
        BY <1>2, <2>3, <3>2
      <4> QED
        BY <1>4, <2>3, <4>1
    <3> QED
      BY <3>1, <3>2
  <2>5. dest.loaded = 0 .. Len(u) - 1
    BY <1>2, <2>1, <2>3
  <2>7. PartsIn(u, dest.loaded, n)
    BY <2>4, <2>5 DEF PartsIn
  <2>8. rows + 1 <= Len(u)
    BY <1>2, <2>1, <2>3
  <2> QED
    BY <2>2, <2>3, <2>7, <2>8
<1> QED
  BY <1>5, <1>6

LEMMA WriteTableKeeps ==
    ASSUME ExInv, WriteTable
    PROVE  ExInv'
<1>0. PICK n, rows, table, batch :
         n = exRun.n /\ rows = exRun.rows /\ table = exDest.table /\ batch = <<n, rows>>
  OBVIOUS
<1>1. /\ StoreInv' /\ exRun.at = "writing" /\ exRun.opened /\ SinkInv /\ exRun.configured
      /\ HandedOver(n, rows) /\ exRun.buffer = FirstBatches(n, rows) /\ rows < exRun.runs[n]
      /\ exDest' = TableWritten(rows, batch)
  <2>1. StoreInv' /\ SinkInv /\ exRun.at = "writing" /\ exRun.opened /\ rows < exRun.runs[n]
    BY <1>0, StoreKept DEF ExInv, WriteTable, Ready, Batches
  <2>2. exRun.configured /\ HandedOver(n, rows) /\ exRun.buffer = FirstBatches(n, rows)
    BY <1>0, <2>1 DEF SinkInv
  <2> QED
    BY <1>0, <2>1, <2>2 DEF WriteTable, Batch
<1>2. n \in Nat /\ rows \in Nat /\ n # 0 /\ exRun.runs[n] \in Nat /\ table \in Seq(Nat \X Nat) /\ Len(table) \in Nat
  BY <1>0, <1>1 DEF SinkInv, RunType
<1>3. /\ RunKept /\ exRun'.at = "writing" /\ exRun'.n = n /\ exRun'.opened = TRUE
      /\ exRun'.rows = rows + 1 /\ exRun'.outcome = exRun.outcome
      /\ exRun'.buffer = Append(exRun.buffer, batch)
  BY <1>0, <1>1 DEF WriteTable, RunKept, SinkInv, RunType, RunFields, Batch
<1>4. Append(FirstBatches(n, rows), <<n, rows>>) = FirstBatches(n, rows + 1) /\ exRun'.buffer = FirstBatches(n, rows + 1)
  <2>1. Append(FirstBatches(n, rows), <<n, rows>>) = FirstBatches(n, rows + 1)
    BY <1>2, GivenIsASeq
  <2> QED
    BY <1>0, <1>1, <1>3, <2>1
<1>5. /\ DOMAIN exDest' = DOMAIN exDest
      /\ exDest'.file = IF exRun.sink = "parquet" THEN Append(exDest.file, batch) ELSE exDest.file
      /\ exDest'.parts = IF exRun.sink = "fabric" THEN Overwritten(exDest.parts, rows, batch) ELSE exDest.parts
      /\ exDest'.table = IF exRun.sink = "snowflake" \/ (exRun.sink = "databricks" /\ rows \notin exDest.loaded)
                         THEN Append(table, batch) ELSE table
      /\ exDest'.loaded = IF exRun.sink = "databricks" THEN exDest.loaded \cup {rows} ELSE exDest.loaded
  <2>1. PICK dest : dest = exDest'
    OBVIOUS
  <2>2. SinkInv /\ dest = TableWritten(rows, batch)
    BY <1>1, <2>1
  <2>3. /\ DOMAIN dest = DOMAIN exDest
        /\ dest.file = IF exRun.sink = "parquet" THEN Append(exDest.file, batch) ELSE exDest.file
        /\ dest.parts = IF exRun.sink = "fabric" THEN Overwritten(exDest.parts, rows, batch) ELSE exDest.parts
        /\ dest.table = IF exRun.sink = "snowflake" \/ (exRun.sink = "databricks" /\ rows \notin exDest.loaded)
                        THEN Append(exDest.table, batch) ELSE exDest.table
        /\ dest.loaded = IF exRun.sink = "databricks" THEN exDest.loaded \cup {rows} ELSE exDest.loaded
    BY <2>2, Written
  <2> QED
    BY <1>0, <2>1, <2>3
<1>6. RunType'
  <2>1. batch \in Nat \X Nat
    BY <1>0, <1>2
  <2>2. exDest'.table \in Seq(Nat \X Nat)
    BY <1>2, <1>5, <2>1
  <2>3. rows + 1 <= exRun.runs[n] /\ rows + 1 \in Nat
    BY <1>1, <1>2
  <2> QED
    BY <1>0, <1>1, <1>2, <1>3, <1>5, <2>2, <2>3 DEF SinkInv, RunType, RunKept
<1>7. exRun.sink = "parquet" => exDest'.file = FirstBatches(n, rows + 1)
  BY <1>0, <1>1, <1>4, <1>5 DEF SinkInv
<1>8. HandedOver(n, rows + 1)'
  <2>1. CASE exRun.sink \in Files
    BY <1>3, <2>1 DEF HandedOver, RunKept, Files, Buffering
  <2>2. CASE exRun.sink = "snowflake"
    <3>1. EndsWith(table, Len(table), n, rows)
      BY <1>0, <1>1, <2>2 DEF HandedOver
    <3>2. exDest'.table = Append(table, <<n, rows>>)
      BY <1>0, <1>5, <2>2
    <3>3. PICK t : t = exDest'.table
      OBVIOUS
    <3>4. EndsWith(t, Len(t), n, rows + 1)
      BY <1>2, <3>1, <3>2, <3>3, EndAppended
    <3>5. EndsWith(exDest'.table, Len(exDest'.table), n, rows + 1)
      BY <3>3, <3>4
    <3> QED
      BY <1>3, <2>2, <3>5 DEF HandedOver, RunKept, EndsWith
  <2>3. CASE exRun.sink = "fabric"
    <3>1. \A k \in 1 .. rows : k - 1 \in DOMAIN exDest.parts /\ exDest.parts[k - 1] = <<n, k - 1>>
      BY <1>1, <2>3 DEF HandedOver
    <3>2. exDest'.parts = Overwritten(exDest.parts, rows, <<n, rows>>)
      BY <1>0, <1>5, <2>3
    <3>3. ASSUME NEW k \in 1 .. rows + 1
          PROVE  k - 1 \in DOMAIN exDest'.parts /\ exDest'.parts[k - 1] = <<n, k - 1>>
      <4>1. CASE k = rows + 1
        <5>1. k - 1 = rows
          BY <1>2, <4>1
        <5> QED
          BY <3>2, <5>1 DEF Overwritten
      <4>2. CASE k # rows + 1
        <5>1. k \in 1 .. rows /\ k - 1 # rows
          BY <1>2, <4>2
        <5> QED
          BY <3>1, <3>2, <5>1 DEF Overwritten
      <4> QED
        BY <4>1, <4>2
    <3> QED
      BY <1>3, <2>3, <3>3 DEF HandedOver, RunKept
  <2>4. CASE exRun.sink = "databricks"
    <3>1. rows <= Len(table) /\ PartsIn(table, exDest.loaded, n)
      BY <1>0, <1>1, <2>4 DEF HandedOver, SinkInv
    <3>2. rows + 1 <= Len(exDest'.table)
      BY <1>0, <1>1, <1>2, <2>4, <3>1, PartsWritten
    <3> QED
      BY <1>3, <2>4, <3>2 DEF HandedOver, RunKept
  <2> QED
    BY <1>1, <2>1, <2>2, <2>3, <2>4 DEF SinkInv, RunType, Sinks
<1>9. /\ exRun.sink \in Files => OneRun(exDest'.file, n)
      /\ exRun.sink = "databricks" => PartsIn(exDest'.table, exDest'.loaded, n)
  <2>1. OneRun(FirstBatches(n, rows + 1), n)
    <3>1. n \in 1 .. n
      BY <1>2
    <3>2. \A k \in DOMAIN FirstBatches(n, rows + 1) : FirstBatches(n, rows + 1)[k] = <<n, k - 1>>
      BY DEF FirstBatches
    <3> QED
      BY <3>1, <3>2 DEF OneRun
  <2>2. ASSUME exRun.sink = "databricks" PROVE PartsIn(exDest'.table, exDest'.loaded, n)
    <3>1. rows <= Len(table) /\ PartsIn(table, exDest.loaded, n)
      BY <1>0, <1>1, <2>2 DEF HandedOver, SinkInv
    <3> QED
      BY <1>0, <1>1, <1>2, <2>2, <3>1, PartsWritten
  <2> QED
    BY <1>0, <1>1, <1>5, <1>7, <2>1, <2>2 DEF SinkInv
<1>10. SinkInv'
  BY <1>1, <1>2, <1>3, <1>4, <1>6, <1>7, <1>8, <1>9 DEF SinkInv, RunKept
<1> QED
  BY <1>1, <1>10 DEF ExInv

\* What was sent and raised may be there, or not.
LEMMA WriteFailsKeeps ==
    ASSUME ExInv, WriteFails
    PROVE  ExInv'
<1>1. Ready /\ SinkInv /\ HandedOver(exRun.n, exRun.rows)
  BY DEF ExInv, WriteFails, Ready, SinkInv
<1>2. PICK dest \in Attempted(exRun.rows, Batch(exRun.rows)) : Close("failed", Uploads(dest))
  BY DEF WriteFails
<1>3. /\ exRun.n \in Nat \ {0} /\ exRun.rows \in Nat /\ exDest.table \in Seq(Nat \X Nat) /\ Batch(exRun.rows) = <<exRun.n, exRun.rows>>
      /\ exRun.configured
  BY <1>1, Closing DEF SinkInv, RunType, Batch
<1>4. /\ DOMAIN dest = DOMAIN exDest /\ dest.table \in Seq(Nat \X Nat)
      /\ exRun.sink \in Files => dest = exDest
      /\ exRun.sink = "databricks" => PartsIn(dest.table, dest.loaded, exRun.n)
  <2>1. CASE dest = exDest
    BY <1>1, <1>3, <2>1 DEF SinkInv
  <2>2. CASE exRun.sink \notin Files /\ dest = TableWritten(exRun.rows, Batch(exRun.rows))
    <3>1. DOMAIN dest = DOMAIN exDest /\ dest.table \in {exDest.table, Append(exDest.table, Batch(exRun.rows))}
      <4>1. PICK rows, batch : rows = exRun.rows /\ batch = Batch(exRun.rows)
        OBVIOUS
      <4>2. SinkInv /\ dest = TableWritten(rows, batch)
        BY <1>1, <2>2, <4>1
      <4>3. /\ DOMAIN dest = DOMAIN exDest
            /\ dest.table = IF exRun.sink = "snowflake" \/ (exRun.sink = "databricks" /\ rows \notin exDest.loaded)
                            THEN Append(exDest.table, batch) ELSE exDest.table
        BY <4>2, Written
      <4> QED
        BY <4>1, <4>3
    <3>2. Append(exDest.table, Batch(exRun.rows)) \in Seq(Nat \X Nat)
      BY <1>3
    <3>3. ASSUME exRun.sink = "databricks" PROVE PartsIn(dest.table, dest.loaded, exRun.n)
      <4>1. exRun.rows <= Len(exDest.table) /\ PartsIn(exDest.table, exDest.loaded, exRun.n)
        BY <1>1, <3>3 DEF HandedOver, SinkInv
      <4> QED
        BY <1>1, <1>3, <2>2, <3>3, <4>1, PartsWritten
    <3> QED
      BY <1>3, <2>2, <3>1, <3>2, <3>3
  <2>3. CASE exRun.sink = "fabric" /\ dest = TableWritten(exRun.rows, Torn(exRun.rows))
    BY <1>1, <1>3, <2>3, Written DEF Files, Buffering
  <2> QED
    BY <2>1, <2>2, <2>3 DEF Attempted
<1>5. /\ DOMAIN exDest' = DOMAIN exDest /\ exDest'.table = dest.table /\ exDest'.loaded = dest.loaded
      /\ exDest'.file = IF exRun.sink \in Buffering THEN FirstBatches(exRun.n, exRun.rows) ELSE dest.file
      /\ OneRun(FirstBatches(exRun.n, exRun.rows), exRun.n)
  BY <1>1, <1>2, <1>4, Closing DEF Close
<1>6. exRun.sink \in Files => OneRun(exDest'.file, exRun.n)
  BY <1>1, <1>4, <1>5 DEF SinkInv
<1> QED
  BY <1>1, <1>2, <1>3, <1>4, <1>5, <1>6, FailedKeeps DEF Close, Ready

LEMMA ExInitInv == ExInit => ExInv
<1> SUFFICES ASSUME ExInit PROVE ExInv
  OBVIOUS
<1>1. PICK c \in ExCases : ExStart(c)
  BY DEF ExInit
<1>2. c.sink \in Sinks /\ c.configured \in BOOLEAN /\ c.runs \in Seq(Nat)
  BY ExportsAssumption
<1>3. JobOk(NoJob) /\ NoJob.status = "unknown"
  BY DEF JobOk, NoJob, JobStates
<1>4. StoreInv
  BY <1>1, <1>3 DEF ExStart, StoreInv
<1>5. /\ exRun = [sink |-> c.sink, configured |-> c.configured, runs |-> c.runs, n |-> 0, at |-> "idle",
                  opened |-> FALSE, rows |-> 0, buffer |-> <<>>, outcome |-> "none"]
      /\ exDest = Untouched
  BY <1>1 DEF ExStart, Untouched
<1>6. RunType
  <2>1. 0 \in 0 .. Len(c.runs) /\ <<>> \in Seq(Nat \X Nat)
    BY <1>2
  <2> QED
    BY <1>2, <1>5, <2>1 DEF RunType, RunFields, Untouched
<1>7. SinkInv
  <2>1. Untouched.table = <<>> /\ Untouched.file = <<>> /\ Untouched.loaded = {}
    BY DEF Untouched
  <2>2. PartsIn(<<>>, {}, 0)
    BY DEF PartsIn
  <2>3. /\ OneRun(exDest.file, exRun.n) /\ PartsIn(exDest.table, exDest.loaded, exRun.n)
        /\ exRun.at = "idle" /\ exRun.n = 0 /\ exRun.outcome = "none"
    BY <1>5, <2>1, <2>2 DEF OneRun
  <2> QED
    BY <1>5, <1>6, <2>3 DEF SinkInv
<1> QED
  BY <1>4, <1>7 DEF ExInv

LEMMA ExStepInv == ExInv /\ [ExNext]_exVars => ExInv'
<1> SUFFICES ASSUME ExInv, [ExNext]_exVars PROVE ExInv'
  OBVIOUS
<1>1. CASE UNCHANGED exVars
  BY <1>1, StoreKept, SinkKept DEF ExInv, exVars
<1> QED
  BY <1>1, JobKeeps, ForgetsKeeps, ExtractKeeps, OpenKeeps, OpenFailsKeeps, WriteTableKeeps, DoneKeeps,
     WriteFailsKeeps, CloseFailsKeeps DEF ExNext

\* No job and no sink pretends to have written what is not at its destination: the jobs of
\* export_jobs.py and the sinks of the exporter, whatever fails and however often, an upload
\* that raised after the object was replaced included.
THEOREM ExportsAreTold == ExSpec => []ExportsTell
<1>1. ExSpec => []ExInv
  BY ExInitInv, ExStepInv, PTL DEF ExSpec
<1> QED
  BY <1>1, InvExports, PTL

-----------------------------------------------------------------------------
(* Cloud runs: where the thread stands says what has been done, so far as  *)
(* nothing failed.                                                         *)

CrTyped ==
    /\ crRow \in [req: CrRequests, log: SUBSET Environment, error: BOOLEAN, outputs: BOOLEAN, told: BOOLEAN,
                  status: {"none", "pending", "planning", "applying", "installing", "complete", "failed"}]
    /\ crJob \in [at: 0 .. 19, failed: BOOLEAN, outputs: BOOLEAN, is: {"none", "running", "lost", "ended"}]
    /\ crCloud \in [resources: {"none", "some", "all"}, kubeconfig: BOOLEAN, installed: {"none", "new", "own"},
                    license: BOOLEAN, keyFile: BOOLEAN]

\* The thread starts once, with a whole request behind it.
Begun ==
    /\ crJob.is = "none" <=> crJob.at = 0
    /\ crRow.status = "none" <=> crJob.at = 0
    /\ crJob.at # 0 => crRow.req.confirmed /\ CredentialProblems(crRow.req) = {}
    /\ crJob.is = "ended" => crJob.at = 19

\* A stage that failed is looked at in the next one.
FailedAt == crJob.failed => crJob.at \in {5, 8, 12, 15, 19}

\* What the row says at each stage.
SaidSoFar ==
    /\ crJob.at \in 7 .. 18 => crRow.status \in {"applying", "installing"}
    /\ crCloud.resources # "none" => crRow.status \in {"applying", "installing", "complete", "failed"}
    /\ crRow.status = "complete" => crJob.at = 19 /\ ~crJob.failed
    /\ crJob.at = 19 /\ ~crJob.failed => crRow.status = "complete"
    /\ crRow.status = "failed" => crJob.is = "ended"
    /\ crRow.told <=> crJob.is = "ended"
    /\ crRow.told => crRow.status = (IF crRow.error THEN "failed" ELSE "complete")

\* What is there at each stage, if no stage failed.
DoneSoFar ==
    /\ crJob.at \in 0 .. 7 => crCloud.resources = "none"
    /\ crJob.at \in 8 .. 19 /\ ~crJob.failed => crCloud.resources = "all"
    /\ crJob.at \in 0 .. 9 => ~crJob.outputs
    /\ crJob.at \in 0 .. 11 => ~crCloud.kubeconfig
    /\ crJob.at \in 12 .. 14 /\ ~crJob.failed => (crCloud.kubeconfig <=> crJob.outputs)
    /\ crJob.at \in 15 .. 19 /\ ~crJob.failed => crCloud.installed = (IF crJob.outputs THEN "new" ELSE "own")
    /\ crCloud.keyFile => crJob.at \in 1 .. 18

CrInv == CrTyped /\ Begun /\ FailedAt /\ SaidSoFar /\ DoneSoFar

\* The stages by their places.
LEMMA StagesAt ==
    ASSUME CrTyped
    PROVE  /\ Len(Pipeline) = 18 /\ DOMAIN Pipeline = 1 .. 18
           /\ Stage = "tell" <=> crJob.at \in {1, 3, 5, 6, 8, 10, 12, 13, 15, 17, 18}
           /\ Stage = "copy" <=> crJob.at = 2
           /\ Stage = "init" <=> crJob.at = 4
           /\ Stage = "apply" <=> crJob.at = 7
           /\ Stage = "output" <=> crJob.at = 9
           /\ Stage = "configure" <=> crJob.at = 11
           /\ Stage = "helm" <=> crJob.at = 14
           /\ Stage = "license" <=> crJob.at = 16
           /\ Stage = "finish" <=> crJob.at \in {0, 19}
<1>1. Len(Pipeline) = 18 /\ DOMAIN Pipeline = 1 .. 18
  BY DEF Pipeline
<1>2. /\ Pipeline[1].do = "tell" /\ Pipeline[3].do = "tell" /\ Pipeline[5].do = "tell" /\ Pipeline[6].do = "tell"
      /\ Pipeline[8].do = "tell" /\ Pipeline[10].do = "tell" /\ Pipeline[12].do = "tell"
      /\ Pipeline[13].do = "tell" /\ Pipeline[15].do = "tell" /\ Pipeline[17].do = "tell" /\ Pipeline[18].do = "tell"
      /\ Pipeline[2].do = "copy" /\ Pipeline[4].do = "init" /\ Pipeline[7].do = "apply"
      /\ Pipeline[9].do = "output" /\ Pipeline[11].do = "configure" /\ Pipeline[14].do = "helm"
      /\ Pipeline[16].do = "license"
  BY DEF Pipeline
<1>3. PICK at \in 0 .. 19 : crJob.at = at
  BY DEF CrTyped
<1>4. Stage = IF at \in 1 .. 18 THEN Pipeline[at].do ELSE "finish"
  BY <1>1, <1>3 DEF Stage
<1>5. at \in {0, 1, 2, 3, 4, 5, 6, 7, 8, 9, 10, 11, 12, 13, 14, 15, 16, 17, 18, 19}
  BY <1>3
<1> HIDE DEF Stage, Pipeline
<1> QED
  BY <1>1, <1>2, <1>3, <1>4, <1>5

\* What the row is told between them.
LEMMA ToldAt ==
    /\ \A k \in {1} : Pipeline[k].status = "planning"
    /\ \A k \in {3, 5, 6, 8} : Pipeline[k].status = "applying"
    /\ \A k \in {10, 12, 13, 15, 17} : Pipeline[k].status = "installing"
    /\ Pipeline[18].status = "complete"
  BY DEF Pipeline

\* The thread's record, and the cloud's, part by part.
LEMMA JobParts ==
    ASSUME CrTyped
    PROVE  /\ \A by : Goes(by) = [at |-> crJob.at + by, failed |-> crJob.failed, outputs |-> crJob.outputs, is |-> crJob.is]
           /\ [Goes(1) EXCEPT !.failed = TRUE] = [at |-> crJob.at + 1, failed |-> TRUE, outputs |-> crJob.outputs, is |-> crJob.is]
           /\ [Goes(1) EXCEPT !.outputs = TRUE] = [at |-> crJob.at + 1, failed |-> crJob.failed, outputs |-> TRUE, is |-> crJob.is]
           /\ Ended("failed") => /\ crJob' = [at |-> 19, failed |-> TRUE, outputs |-> crJob.outputs, is |-> crJob.is]
                                /\ crCloud' = [resources |-> crCloud.resources, kubeconfig |-> crCloud.kubeconfig,
                                                installed |-> crCloud.installed, license |-> crCloud.license, keyFile |-> FALSE]
           /\ Ended("ok") => /\ crJob' = [at |-> 19, failed |-> FALSE, outputs |-> crJob.outputs, is |-> crJob.is]
                            /\ crCloud' = [resources |-> crCloud.resources, kubeconfig |-> crCloud.kubeconfig,
                                            installed |-> crCloud.installed, license |-> crCloud.license, keyFile |-> FALSE]
<1>1. PICK job : job = crJob
  OBVIOUS
<1>2. job = [at |-> job.at, failed |-> job.failed, outputs |-> job.outputs, is |-> job.is] /\ job.at \in 0 .. 19
  BY <1>1 DEF CrTyped
<1>3. \A by : Goes(by) = [at |-> job.at + by, failed |-> job.failed, outputs |-> job.outputs, is |-> job.is]
  BY <1>1, <1>2 DEF Goes
<1>4. PICK next : next = Goes(1)
  OBVIOUS
<1>5. next = [at |-> job.at + 1, failed |-> job.failed, outputs |-> job.outputs, is |-> job.is]
  BY <1>3, <1>4
<1>9. next \in [at: Nat, failed: BOOLEAN, outputs: BOOLEAN, is: {"none", "running", "lost", "ended"}]
  BY <1>1, <1>2, <1>5 DEF CrTyped
<1>6. ASSUME NEW r \in [at: Nat, failed: BOOLEAN, outputs: BOOLEAN, is: {"none", "running", "lost", "ended"}],
             NEW v
      PROVE  /\ [r EXCEPT !.failed = v] = [at |-> r.at, failed |-> v, outputs |-> r.outputs, is |-> r.is]
             /\ [r EXCEPT !.outputs = v] = [at |-> r.at, failed |-> r.failed, outputs |-> v, is |-> r.is]
  OBVIOUS
<1>10. /\ [next EXCEPT !.failed = TRUE] = [at |-> job.at + 1, failed |-> TRUE, outputs |-> job.outputs, is |-> job.is]
       /\ [next EXCEPT !.outputs = TRUE] = [at |-> job.at + 1, failed |-> job.failed, outputs |-> TRUE, is |-> job.is]
  <2>1. next.at = job.at + 1 /\ next.failed = job.failed /\ next.outputs = job.outputs /\ next.is = job.is
    BY <1>5
  <2> QED
    BY <1>6, <1>9, <2>1
<1>7. Len(Pipeline) + 1 = 19
  BY DEF Pipeline
<1>8. \A outcome : Ended(outcome) =>
          /\ crJob' = [at |-> 19, failed |-> (outcome = "failed"), outputs |-> job.outputs, is |-> job.is]
          /\ crCloud' = [resources |-> crCloud.resources, kubeconfig |-> crCloud.kubeconfig,
                          installed |-> crCloud.installed, license |-> crCloud.license, keyFile |-> FALSE]
  BY <1>1, <1>2, <1>7 DEF Ended, CrTyped
<1> QED
  BY <1>1, <1>3, <1>4, <1>8, <1>10

\* Nothing has been asked for yet.
LEMMA CrStarts == CrInit => CrInv
  BY DEF CrInit, CrStart, NoRun, NoPipeline, CrInv, CrTyped, Begun, FailedAt, SaidSoFar, DoneSoFar

\* What a tool's output leaves in the row is of the control plane's environment.
LEMMA StepLogs ==
    ASSUME CrTyped, NEW what \in {"init", "apply", "configure", "helm", "license"},
           RunStep(what) \/ UNCHANGED crRow
    PROVE  /\ crRow' = [req |-> crRow.req, log |-> crRow'.log, error |-> crRow.error, outputs |-> crRow.outputs,
                        told |-> crRow.told, status |-> crRow.status]
           /\ crRow'.log \in SUBSET Environment
<1>1. PICK kept : kept = Redact(Given(crRow.req, what), SecretValues(crRow.req, what))
  OBVIOUS
<1>2. kept \subseteq Environment
  BY <1>1 DEF Redact, Given, SecretValues
<1>3. CASE RunStep(what)
  <2>1. crRow' = [crRow EXCEPT !.log = @ \cup kept]
    BY <1>1, <1>3 DEF RunStep
  <2> QED
    BY <1>2, <2>1 DEF CrTyped
<1>4. CASE UNCHANGED crRow
  BY <1>4 DEF CrTyped
<1> QED
  BY <1>3, <1>4

\* Every step of the thread, and what ends it.
LEMMA CrKept == CrInv /\ CrNext => CrInv'
<1> SUFFICES ASSUME CrInv, CrNext PROVE CrInv'
  OBVIOUS
<1>1. CASE StartRun
  <2>1. crJob.at = 0
    BY <1>1, StagesAt DEF StartRun, RunStep, Running, CrInv, CrTyped, Begun
  <2>2. crJob' = [at |-> 1, failed |-> crJob.failed, outputs |-> crJob.outputs, is |-> "running"]
    BY <1>1, JobParts, <2>1 DEF StartRun, StartRun, CrInv, CrTyped
  <2>3. crRow' = [req |-> crRow.req, log |-> crRow.log, error |-> crRow.error, outputs |-> crRow.outputs, told |-> crRow.told,
                      status |-> "pending"]
    BY <1>1, JobParts, <2>1 DEF StartRun, StartRun, CrInv, CrTyped
  <2>4. crCloud' = crCloud
    BY <1>1, JobParts, <2>1 DEF StartRun, StartRun, CrInv, CrTyped
  <2>5. crRow.req.confirmed
    BY <1>1, JobParts, <2>1 DEF StartRun, StartRun, CrInv, CrTyped
  <2>6. CredentialProblems(crRow.req) = {}
    BY <1>1, JobParts, <2>1 DEF StartRun, StartRun, CrInv, CrTyped
  <2> QED
    BY <2>1, <2>2, <2>3, <2>4, <2>5, <2>6 DEF CrInv, CrTyped, Begun, FailedAt, SaidSoFar, DoneSoFar
<1>2. CASE Raises
  <2>1. crJob.at \in 1 .. 18 /\ crJob.is = "running"
    BY <1>2, StagesAt DEF Raises, RunStep, Running, CrInv, CrTyped, Begun
  <2>2. crJob' = [at |-> 19, failed |-> TRUE, outputs |-> crJob.outputs, is |-> crJob.is]
    BY <1>2, JobParts, <2>1 DEF Raises, Running, CrInv, CrTyped
  <2>3. crCloud' = [resources |-> crCloud.resources, kubeconfig |-> crCloud.kubeconfig, installed |-> crCloud.installed, license |-> crCloud.license,
                        keyFile |-> FALSE]
    BY <1>2, JobParts, <2>1 DEF Raises, Running, CrInv, CrTyped
  <2>4. crRow' = crRow
    BY <1>2, JobParts, <2>1 DEF Raises, Running, CrInv, CrTyped
  <2> QED
    BY <2>1, <2>2, <2>3, <2>4 DEF CrInv, CrTyped, Begun, FailedAt, SaidSoFar, DoneSoFar
<1>3. CASE CopyModule
  <2>1. crJob.at = 2 /\ crJob.is = "running"
    BY <1>3, StagesAt DEF CopyModule, RunStep, Running, CrInv, CrTyped, Begun
  <2>2. crJob' = [at |-> 3, failed |-> crJob.failed, outputs |-> crJob.outputs, is |-> crJob.is]
    BY <1>3, JobParts, <2>1 DEF CopyModule, Succeeds, Running, CrInv, CrTyped
  <2>3. crCloud' \in {[resources |-> crCloud.resources, kubeconfig |-> crCloud.kubeconfig, installed |-> crCloud.installed, license |-> crCloud.license,
                        keyFile |-> key] : key \in BOOLEAN}
    BY <1>3, JobParts, <2>1 DEF CopyModule, Succeeds, Running, CrInv, CrTyped
  <2>4. crRow' = crRow
    BY <1>3, JobParts, <2>1 DEF CopyModule, Succeeds, Running, CrInv, CrTyped
  <2> QED
    BY <2>1, <2>2, <2>3, <2>4 DEF CrInv, CrTyped, Begun, FailedAt, SaidSoFar, DoneSoFar
<1>4. CASE TerraformInit
  <2>1. crJob.at = 4 /\ crJob.is = "running"
    BY <1>4, StagesAt DEF TerraformInit, RunStep, Running, CrInv, CrTyped, Begun
  <2>2. /\ crRow' = [req |-> crRow.req, log |-> crRow'.log, error |-> crRow.error, outputs |-> crRow.outputs,
                      told |-> crRow.told, status |-> crRow.status]
        /\ crRow'.log \in SUBSET Environment
    BY <1>4, StepLogs DEF TerraformInit, CrInv
  <2>4. CASE crJob' = Goes(1)
    <3>1. crJob' = [at |-> 5, failed |-> crJob.failed, outputs |-> crJob.outputs, is |-> crJob.is]
      BY <2>1, <2>4, JobParts DEF CrInv
    <3>2. crCloud' = crCloud
      BY <1>4, <2>1, <2>4, <3>1 DEF TerraformInit, Succeeds, FailsStage, Running, CrInv, CrTyped
    <3> QED
      BY <2>1, <2>2, <3>1, <3>2 DEF CrInv, CrTyped, Begun, FailedAt, SaidSoFar, DoneSoFar
  <2>5. CASE crJob' = [Goes(1) EXCEPT !.failed = TRUE]
    <3>1. crJob' = [at |-> 5, failed |-> TRUE, outputs |-> crJob.outputs, is |-> crJob.is]
      BY <2>1, <2>5, JobParts DEF CrInv
    <3>2. crCloud' = crCloud
      BY <1>4, <2>1, <2>5, <3>1 DEF TerraformInit, Succeeds, FailsStage, Running, CrInv, CrTyped
    <3> QED
      BY <2>1, <2>2, <3>1, <3>2 DEF CrInv, CrTyped, Begun, FailedAt, SaidSoFar, DoneSoFar
  <2> QED
    BY <1>4, <2>4, <2>5 DEF TerraformInit, Succeeds, FailsStage
<1>5. CASE TerraformApply
  <2>1. crJob.at = 7 /\ crJob.is = "running"
    BY <1>5, StagesAt DEF TerraformApply, RunStep, Running, CrInv, CrTyped, Begun
  <2>2. /\ crRow' = [req |-> crRow.req, log |-> crRow'.log, error |-> crRow.error, outputs |-> crRow.outputs,
                      told |-> crRow.told, status |-> crRow.status]
        /\ crRow'.log \in SUBSET Environment
    BY <1>5, StepLogs DEF TerraformApply, CrInv
  <2>4. CASE crJob' = Goes(1) /\ (crJob' # [Goes(1) EXCEPT !.failed = TRUE])
    <3>1. crJob' = [at |-> 8, failed |-> crJob.failed, outputs |-> crJob.outputs, is |-> crJob.is]
      BY <2>1, <2>4, JobParts DEF CrInv
    <3>2. crCloud' = [resources |-> "all", kubeconfig |-> crCloud.kubeconfig, installed |-> crCloud.installed, license |-> crCloud.license,
                          keyFile |-> crCloud.keyFile]
      BY <1>5, <2>1, <2>4, <3>1 DEF TerraformApply, Succeeds, FailsStage, Running, CrInv, CrTyped
    <3> QED
      BY <2>1, <2>2, <3>1, <3>2 DEF CrInv, CrTyped, Begun, FailedAt, SaidSoFar, DoneSoFar
  <2>5. CASE crJob' = [Goes(1) EXCEPT !.failed = TRUE]
    <3>1. crJob' = [at |-> 8, failed |-> TRUE, outputs |-> crJob.outputs, is |-> crJob.is]
      BY <2>1, <2>5, JobParts DEF CrInv
    <3>2. crCloud' = [resources |-> crCloud'.resources, kubeconfig |-> crCloud.kubeconfig, installed |-> crCloud.installed, license |-> crCloud.license,
                          keyFile |-> crCloud.keyFile]
      BY <1>5, <2>1, <2>5, <3>1 DEF TerraformApply, Succeeds, FailsStage, Running, CrInv, CrTyped
    <3>3. crCloud'.resources \in {"none", "some", "all"}
      BY <1>5, <2>1, <2>5, <3>1 DEF TerraformApply, Succeeds, FailsStage, Running, CrInv, CrTyped
    <3> QED
      BY <2>1, <2>2, <3>1, <3>2, <3>3 DEF CrInv, CrTyped, Begun, FailedAt, SaidSoFar, DoneSoFar
  <2> QED
    BY <1>5, <2>4, <2>5 DEF TerraformApply, Succeeds, FailsStage
<1>6. CASE TerraformOutput
  <2>1. crJob.at = 9 /\ crJob.is = "running"
    BY <1>6, StagesAt DEF TerraformOutput, RunStep, Running, CrInv, CrTyped, Begun
  <2>4. CASE crJob' = Goes(1)
    <3>1. crJob' = [at |-> 10, failed |-> crJob.failed, outputs |-> crJob.outputs, is |-> crJob.is]
      BY <2>1, <2>4, JobParts DEF CrInv
    <3>2. crRow' = crRow
      BY <1>6, <2>1, <2>4, <3>1 DEF TerraformOutput, Running, CrInv, CrTyped
    <3>3. crCloud' = crCloud
      BY <1>6, <2>1, <2>4, <3>1 DEF TerraformOutput, Running, CrInv, CrTyped
    <3> QED
      BY <2>1, <3>1, <3>2, <3>3 DEF CrInv, CrTyped, Begun, FailedAt, SaidSoFar, DoneSoFar
  <2>5. CASE crJob' = [Goes(1) EXCEPT !.outputs = TRUE]
    <3>1. crJob' = [at |-> 10, failed |-> crJob.failed, outputs |-> TRUE, is |-> crJob.is]
      BY <2>1, <2>5, JobParts DEF CrInv
    <3>2. crRow' = crRow
      BY <1>6, <2>1, <2>5, <3>1 DEF TerraformOutput, Running, CrInv, CrTyped
    <3>3. crCloud' = crCloud
      BY <1>6, <2>1, <2>5, <3>1 DEF TerraformOutput, Running, CrInv, CrTyped
    <3> QED
      BY <2>1, <3>1, <3>2, <3>3 DEF CrInv, CrTyped, Begun, FailedAt, SaidSoFar, DoneSoFar
  <2> QED
    BY <1>6, <2>4, <2>5 DEF TerraformOutput, Succeeds, FailsStage
<1>7. CASE ConfigureKubectl
  <2>1. crJob.at = 11 /\ crJob.is = "running"
    BY <1>7, StagesAt DEF ConfigureKubectl, RunStep, Running, CrInv, CrTyped, Begun
  <2>2. /\ crRow' = [req |-> crRow.req, log |-> crRow'.log, error |-> crRow.error, outputs |-> crRow.outputs,
                      told |-> crRow.told, status |-> crRow.status]
        /\ crRow'.log \in SUBSET Environment
    BY <1>7, StepLogs DEF ConfigureKubectl, CrInv
  <2>4. CASE crJob.outputs
    <3>1. CASE crJob' = Goes(1) /\ crJob' # [Goes(1) EXCEPT !.failed = TRUE]
      <4>1. crJob' = [at |-> 12, failed |-> crJob.failed, outputs |-> crJob.outputs, is |-> crJob.is]
        BY <2>1, <3>1, JobParts DEF CrInv
      <4>2. crCloud' = [resources |-> crCloud.resources, kubeconfig |-> TRUE, installed |-> crCloud.installed, license |-> crCloud.license,
                        keyFile |-> crCloud.keyFile]
        BY <1>7, <2>1, <2>4, <3>1 DEF ConfigureKubectl, RunStep, Succeeds, FailsStage, CrInv, CrTyped
      <4> QED
        BY <2>1, <2>2, <2>4, <4>1, <4>2 DEF CrInv, CrTyped, Begun, FailedAt, SaidSoFar, DoneSoFar
    <3>2. CASE crJob' = [Goes(1) EXCEPT !.failed = TRUE]
      <4>1. crJob' = [at |-> 12, failed |-> TRUE, outputs |-> crJob.outputs, is |-> crJob.is]
        BY <2>1, <3>2, JobParts DEF CrInv
      <4>2. \E kube \in BOOLEAN : crCloud' = [resources |-> crCloud.resources, kubeconfig |-> kube, installed |-> crCloud.installed, license |-> crCloud.license,
                        keyFile |-> crCloud.keyFile]
        BY <1>7, <2>1, <2>4, <3>2 DEF ConfigureKubectl, RunStep, Succeeds, FailsStage, CrInv, CrTyped
      <4> QED
        BY <2>1, <2>2, <2>4, <4>1, <4>2 DEF CrInv, CrTyped, Begun, FailedAt, SaidSoFar, DoneSoFar
    <3> QED
      BY <1>7, <2>4, <3>1, <3>2 DEF ConfigureKubectl, Succeeds, FailsStage
  <2>5. CASE ~crJob.outputs
    <3>1. /\ crJob' = [at |-> 13, failed |-> crJob.failed, outputs |-> crJob.outputs, is |-> crJob.is]
          /\ crCloud' = crCloud
      BY <1>7, <2>1, <2>5, JobParts DEF ConfigureKubectl, CrInv, CrTyped
    <3> QED
      BY <2>1, <2>2, <2>5, <3>1 DEF CrInv, CrTyped, Begun, FailedAt, SaidSoFar, DoneSoFar
  <2> QED
    BY <2>4, <2>5
<1>8. CASE HelmInstall
  <2>1. crJob.at = 14 /\ crJob.is = "running"
    BY <1>8, StagesAt DEF HelmInstall, RunStep, Running, CrInv, CrTyped, Begun
  <2>2. /\ crRow' = [req |-> crRow.req, log |-> crRow'.log, error |-> crRow.error, outputs |-> crRow.outputs,
                      told |-> crRow.told, status |-> crRow.status]
        /\ crRow'.log \in SUBSET Environment
    BY <1>8, StepLogs DEF HelmInstall, CrInv
  <2>4. CASE crJob' = Goes(1) /\ (crJob' # [Goes(1) EXCEPT !.failed = TRUE])
    <3>1. crJob' = [at |-> 15, failed |-> crJob.failed, outputs |-> crJob.outputs, is |-> crJob.is]
      BY <2>1, <2>4, JobParts DEF CrInv
    <3>2. crCloud' = [resources |-> crCloud.resources, kubeconfig |-> crCloud.kubeconfig, installed |-> IF crCloud.kubeconfig THEN "new" ELSE "own", license |-> crCloud.license,
                          keyFile |-> crCloud.keyFile]
      BY <1>8, <2>1, <2>4, <3>1 DEF HelmInstall, Succeeds, FailsStage, Running, CrInv, CrTyped
    <3> QED
      BY <2>1, <2>2, <3>1, <3>2 DEF CrInv, CrTyped, Begun, FailedAt, SaidSoFar, DoneSoFar
  <2>5. CASE crJob' = [Goes(1) EXCEPT !.failed = TRUE]
    <3>1. crJob' = [at |-> 15, failed |-> TRUE, outputs |-> crJob.outputs, is |-> crJob.is]
      BY <2>1, <2>5, JobParts DEF CrInv
    <3>2. crCloud' = crCloud \/ crCloud' = [resources |-> crCloud.resources, kubeconfig |-> crCloud.kubeconfig, installed |-> IF crCloud.kubeconfig THEN "new" ELSE "own", license |-> crCloud.license,
                          keyFile |-> crCloud.keyFile]
      BY <1>8, <2>1, <2>5, <3>1 DEF HelmInstall, Succeeds, FailsStage, Running, CrInv, CrTyped
    <3> QED
      BY <2>1, <2>2, <3>1, <3>2 DEF CrInv, CrTyped, Begun, FailedAt, SaidSoFar, DoneSoFar
  <2> QED
    BY <1>8, <2>4, <2>5 DEF HelmInstall, Succeeds, FailsStage
<1>9. CASE LicenseSecret
  <2>1. crJob.at = 16 /\ crJob.is = "running"
    BY <1>9, StagesAt DEF LicenseSecret, RunStep, Running, CrInv, CrTyped, Begun
  <2>2. /\ crRow' = [req |-> crRow.req, log |-> crRow'.log, error |-> crRow.error, outputs |-> crRow.outputs,
                      told |-> crRow.told, status |-> crRow.status]
        /\ crRow'.log \in SUBSET Environment
    BY <1>9, StepLogs DEF LicenseSecret, CrInv
  <2>4. /\ crJob' = [at |-> 17, failed |-> crJob.failed, outputs |-> crJob.outputs, is |-> crJob.is]
        /\ crCloud' = [resources |-> crCloud.resources, kubeconfig |-> crCloud.kubeconfig, installed |-> crCloud.installed, license |-> crCloud'.license,
                        keyFile |-> crCloud.keyFile]
    BY <1>9, <2>1, JobParts DEF LicenseSecret, CrInv, CrTyped
  <2>5. crCloud'.license \in BOOLEAN
    BY <1>9, CloudRunsAssumption DEF LicenseSecret, CrInv, CrTyped
  <2> QED
    BY <2>1, <2>2, <2>4, <2>5 DEF CrInv, CrTyped, Begun, FailedAt, SaidSoFar, DoneSoFar
<1>10. CASE Finish
  <2>1. crJob.at = 19 /\ crJob.is = "running"
    BY <1>10, StagesAt DEF Finish, Running, CrInv, CrTyped, Begun
  <2>2. CASE crJob' = [crJob EXCEPT !.is = "ended"]
    <3>1. crJob' = [at |-> crJob.at, failed |-> crJob.failed, outputs |-> crJob.outputs, is |-> "ended"] /\ crCloud' = crCloud
      BY <1>10, <2>2 DEF Finish, CrInv, CrTyped
    <3>2. crRow' = [req |-> crRow.req, log |-> crRow.log, error |-> crJob.failed, outputs |-> ~crJob.failed /\ crJob.outputs,
                    told |-> TRUE, status |-> IF crJob.failed THEN "failed" ELSE "complete"]
      BY <1>10, <2>1, <3>1 DEF Finish, CrInv, CrTyped
    <3>3. CASE crJob.failed
      BY <2>1, <3>1, <3>2, <3>3 DEF CrInv, CrTyped, Begun, FailedAt, SaidSoFar, DoneSoFar
    <3>4. CASE ~crJob.failed
      BY <2>1, <3>1, <3>2, <3>4 DEF CrInv, CrTyped, Begun, FailedAt, SaidSoFar, DoneSoFar
    <3> QED
      BY <3>3, <3>4
  <2>3. CASE crJob' = [crJob EXCEPT !.is = "lost"]
    <3>1. crJob' = [at |-> crJob.at, failed |-> crJob.failed, outputs |-> crJob.outputs, is |-> "lost"] /\ crCloud' = crCloud
      BY <1>10, <2>3 DEF Finish, CrInv, CrTyped
    <3>2. crRow' = crRow
      BY <1>10, <3>1 DEF Finish, CrInv, CrTyped
    <3> QED
      BY <2>1, <3>1, <3>2 DEF CrInv, CrTyped, Begun, FailedAt, SaidSoFar, DoneSoFar
  <2> QED
    BY <1>10, <2>2, <2>3 DEF Finish
<1>11. CASE ControlPlaneRestarts
  <2>1. crJob.at \in 1 .. 19 /\ crJob.is = "running"
    BY <1>11, StagesAt DEF ControlPlaneRestarts, RunStep, Running, CrInv, CrTyped, Begun
  <2>2. crJob' = [at |-> crJob.at, failed |-> crJob.failed, outputs |-> crJob.outputs, is |-> "lost"]
    BY <1>11, JobParts, <2>1 DEF ControlPlaneRestarts, Running, CrInv, CrTyped
  <2>3. crRow' = crRow
    BY <1>11, JobParts, <2>1 DEF ControlPlaneRestarts, Running, CrInv, CrTyped
  <2>4. crCloud' = crCloud
    BY <1>11, JobParts, <2>1 DEF ControlPlaneRestarts, Running, CrInv, CrTyped
  <2> QED
    BY <2>1, <2>2, <2>3, <2>4 DEF CrInv, CrTyped, Begun, FailedAt, SaidSoFar, DoneSoFar
<1>12. CASE Tell
  <2>1. crJob.at \in {1, 3, 5, 6, 8, 10, 12, 13, 15, 17, 18} /\ crJob.is = "running"
    BY <1>12, StagesAt DEF Tell, Running, CrInv, CrTyped
  <2>2. PICK status : status = Pipeline[crJob.at].status
    OBVIOUS
  <2>3. crRow' = [req |-> crRow.req, log |-> crRow.log, error |-> crRow.error, outputs |-> crRow.outputs, told |-> crRow.told,
                      status |-> status]
    BY <1>12, <2>2 DEF Tell, CrInv, CrTyped
  <2>4. /\ crJob.at = 1 => status = "planning"
        /\ crJob.at \in {3, 5, 6, 8} => status = "applying"
        /\ crJob.at \in {10, 12, 13, 15, 17} => status = "installing"
        /\ crJob.at = 18 => status = "complete"
    BY <2>2, ToldAt
  <2>5. CASE crJob.failed \/ crJob.at = 18
    <3>1. /\ crJob' = [at |-> 19, failed |-> crJob.failed, outputs |-> crJob.outputs, is |-> crJob.is]
          /\ crCloud' = [resources |-> crCloud.resources, kubeconfig |-> crCloud.kubeconfig, installed |-> crCloud.installed, license |-> crCloud.license,
                        keyFile |-> FALSE]
      <4>1. Ended(IF crJob.failed THEN "failed" ELSE "ok")
        BY <1>12, <2>5, StagesAt DEF Tell, CrInv
      <4>2. CASE crJob.failed
        <5>1. Ended("failed")
          BY <4>1, <4>2
        <5> QED
          BY <4>2, <5>1, JobParts DEF CrInv
      <4>3. CASE ~crJob.failed
        <5>1. Ended("ok")
          BY <4>1, <4>3
        <5>2. crJob.failed = FALSE
          BY <4>3 DEF CrInv, CrTyped
        <5>3. crJob' = [at |-> 19, failed |-> FALSE, outputs |-> crJob.outputs, is |-> crJob.is]
          BY <5>1, JobParts DEF CrInv
        <5> QED
          BY <5>1, <5>2, <5>3, JobParts DEF CrInv
      <4> QED
        BY <4>2, <4>3
    <3> QED
      BY <2>1, <2>3, <2>4, <2>5, <3>1 DEF CrInv, CrTyped, Begun, FailedAt, SaidSoFar, DoneSoFar
  <2>6. CASE ~(crJob.failed \/ crJob.at = 18)
    <3>1. /\ crJob' = [at |-> crJob.at + 1, failed |-> crJob.failed, outputs |-> crJob.outputs, is |-> crJob.is]
          /\ crCloud' = crCloud
      BY <1>12, <2>6, StagesAt, JobParts DEF Tell, CrInv, CrTyped
    <3> QED
      BY <2>1, <2>3, <2>4, <2>6, <3>1 DEF CrInv, CrTyped, Begun, FailedAt, SaidSoFar, DoneSoFar
  <2> QED
    BY <2>5, <2>6
<1> QED
  BY <1>1, <1>2, <1>3, <1>4, <1>5, <1>6, <1>7, <1>8, <1>9, <1>10, <1>11, <1>12 DEF CrNext

\* The invariant says what the run checks.
LEMMA CrTells == CrInv => CloudRunsTell
  BY StagesAt DEF CrInv, CrTyped, Begun, FailedAt, SaidSoFar, DoneSoFar, CloudRunsTell, CompleteIsInstalled,
       MadeIsTold, OutcomeIsTold, NothingGivenStays

\* cloud_provisioner.py, cloud_provision.py: what the row of a provisioning run says is
\* what was done, nothing is made that it does not tell of, and no credential of the account
\* and no secret of the cluster stays in it (what the tools repeat of the control plane's own
\* environment may), whichever tool or write fails and whenever the control plane goes down.
THEOREM CloudRunsAreTold == CrSpec => []CloudRunsTell
<1>1. CrInv /\ UNCHANGED crVars => CrInv'
  BY DEF CrInv, CrTyped, Begun, FailedAt, SaidSoFar, DoneSoFar, crVars
<1> QED
  BY <1>1, CrStarts, CrKept, CrTells, PTL DEF CrSpec

-----------------------------------------------------------------------------
(* Provisioning *)

PlaneTiers == {"postgres", "control-api", "ollama", "watchdog", "web-ui"}

\* The parts of the compose file share no name, so each service is what its part says.
LEMMA ComposeParts ==
    ASSUME NEW n
    PROVE  /\ DOMAIN Compose(n) = (ShardTiers \X ShardIds(n)) \cup {<<"gateway", 0>>} \cup (Sims \X {0})
                 \cup (Providers \X {0}) \cup {<<"feedhandler-cpp", 0>>} \cup (PlaneTiers \X {0})
           /\ \A s \in ShardTiers \X ShardIds(n) : Compose(n)[s] = ShardServices(n)[s]
           /\ \A s \in {<<"gateway", 0>>} : Compose(n)[s] = GatewayService(n)[s]
           /\ \A s \in Sims \X {0} : Compose(n)[s] = SimServices(n)[s]
           /\ \A s \in Providers \X {0} : Compose(n)[s] = ProviderServices(n)[s]
           /\ \A s \in {<<"feedhandler-cpp", 0>>} : Compose(n)[s] = HandlerService[s]
           /\ \A s \in PlaneTiers \X {0} : Compose(n)[s] = ControlServices[s]
<1> DEFINE parts == <<ShardServices(n), GatewayService(n), SimServices(n), ProviderServices(n),
                      HandlerService, ControlServices>>
           names == UNION {DOMAIN parts[k] : k \in DOMAIN parts}
<1>1. /\ DOMAIN parts = {1, 2, 3, 4, 5, 6}
      /\ parts[1] = ShardServices(n) /\ parts[2] = GatewayService(n) /\ parts[3] = SimServices(n)
      /\ parts[4] = ProviderServices(n) /\ parts[5] = HandlerService /\ parts[6] = ControlServices
  OBVIOUS
<1>2. Compose(n) = [s \in names |-> parts[CHOOSE k \in DOMAIN parts : s \in DOMAIN parts[k]][s]]
  BY DEF Compose
<1> HIDE DEF parts
<1>3. /\ DOMAIN parts[1] = ShardTiers \X ShardIds(n) /\ DOMAIN parts[2] = {<<"gateway", 0>>}
      /\ DOMAIN parts[3] = Sims \X {0} /\ DOMAIN parts[4] = Providers \X {0}
      /\ DOMAIN parts[5] = {<<"feedhandler-cpp", 0>>} /\ DOMAIN parts[6] = PlaneTiers \X {0}
  BY <1>1 DEF ShardServices, GatewayService, SimServices, ProviderServices, HandlerService, ControlServices, PlaneTiers
<1>4. names = DOMAIN parts[1] \cup DOMAIN parts[2] \cup DOMAIN parts[3] \cup DOMAIN parts[4] \cup DOMAIN parts[5]
                  \cup DOMAIN parts[6]
  BY <1>1
<1> DEFINE Owner(name) == IF name \in ShardTiers THEN 1 ELSE IF name = "gateway" THEN 2 ELSE IF name \in Sims THEN 3
                          ELSE IF name \in Providers THEN 4 ELSE IF name = "feedhandler-cpp" THEN 5 ELSE 6
<1>5. ASSUME NEW k \in DOMAIN parts, NEW s \in DOMAIN parts[k] PROVE k = Owner(s[1])
  BY <1>1, <1>3 DEF ShardTiers, Sims, Providers, PlaneTiers
<1> HIDE DEF Owner
<1>6. ASSUME NEW k \in DOMAIN parts, NEW s \in DOMAIN parts[k] PROVE Compose(n)[s] = parts[k][s]
  <2>1. (CHOOSE i \in DOMAIN parts : s \in DOMAIN parts[i]) = k
    BY <1>5
  <2>2. s \in names
    OBVIOUS
  <2> QED
    BY <1>2, <2>1, <2>2
<1>7. DOMAIN Compose(n) = names
  BY <1>2
<1> HIDE DEF names
<1> QED
  BY <1>1, <1>3, <1>4, <1>6, <1>7

\* The processes and the volumes of a shard, and the volumes of the control plane.
LEMMA ShardNames ==
    ASSUME NEW n, NEW i \in ShardIds(n)
    PROVE  /\ \A t \in ShardTiers : <<t, i>> \in ShardTiers \X ShardIds(n)
           /\ \A t \in {"tp", "wdb", "rdb", "idb", "hdb"} : t \in ShardTiers
           /\ \A v \in {"tp-log", "db", "hdb"} : <<v, i>> \in Volumes(n)
  BY DEF ShardTiers, Volumes

\* The volumes of the control plane are in every rendering.
LEMMA PlaneVolumes ==
    ASSUME NEW n
    PROVE  \A v \in {"control-api-data", "postgres-data", "ollama-data"} : <<v, 0>> \in Volumes(n)
  BY DEF Volumes

\* What the rows of each part say.
LEMMA ComposeRows ==
    ASSUME NEW n \in 1 .. Letters
    PROVE  /\ \A s \in ShardTiers \X ShardIds(n) :
                /\ Compose(n)[s].deps \subseteq ShardTiers \X ShardIds(n) /\ Compose(n)[s].volumes \subseteq Volumes(n)
                /\ Compose(n)[s].profile = "" /\ Compose(n)[s].restart = "unless-stopped"
           /\ \A s \in {<<"gateway", 0>>} :
                /\ Compose(n)[s].deps \subseteq ShardTiers \X ShardIds(n) /\ Compose(n)[s].volumes = {}
                /\ Compose(n)[s].profile = "" /\ Compose(n)[s].restart = "unless-stopped"
           /\ \A s \in Sims \X {0} :
                /\ Compose(n)[s].deps \subseteq ShardTiers \X ShardIds(n) /\ Compose(n)[s].volumes = {}
                /\ Compose(n)[s].profile = ""
           /\ \A s \in (Providers \X {0}) \cup {<<"feedhandler-cpp", 0>>} :
                /\ Compose(n)[s].deps \subseteq ShardTiers \X ShardIds(n) /\ Compose(n)[s].volumes = {}
                /\ Compose(n)[s].profile = "providers"
           /\ \A s \in PlaneTiers \X {0} :
                /\ Compose(n)[s].deps \subseteq {<<"gateway", 0>>, <<"control-api", 0>>}
                /\ Compose(n)[s].volumes \subseteq Volumes(n)
                /\ s[1] \in {"control-api", "watchdog", "web-ui"} => Compose(n)[s].profile = ""
                /\ s[1] \in {"postgres", "ollama"} => Compose(n)[s].profile \notin {"", "providers"}
                                                     /\ Compose(n)[s].deps = {}
<1>1. ASSUME NEW t \in ShardTiers, NEW i \in ShardIds(n), NEW s, s = <<t, i>>
      PROVE  /\ Compose(n)[s].deps \subseteq ShardTiers \X ShardIds(n) /\ Compose(n)[s].volumes \subseteq Volumes(n)
             /\ Compose(n)[s].profile = "" /\ Compose(n)[s].restart = "unless-stopped"
  <2>1. Compose(n)[s] = ShardService(t, i)
    BY <1>1, ComposeParts DEF ShardServices
  <2>2. PICK row : row = Compose(n)[s]
    OBVIOUS
  <2>3. CASE t = "tp"
    <3>1. row = Service({}, {<<"tp-log", i>>}, "unless-stopped", "")
      BY <2>1, <2>2, <2>3 DEF ShardService
    <3>2. {} \subseteq ShardTiers \X ShardIds(n) /\ {<<"tp-log", i>>} \subseteq Volumes(n)
      BY ShardNames
    <3>3. row.deps = {} /\ row.volumes = {<<"tp-log", i>>} /\ row.profile = "" /\ row.restart = "unless-stopped"
      BY <3>1 DEF Service
    <3> QED
      BY <2>2, <3>2, <3>3
  <2>4. CASE t = "wdb"
    <3>1. row = Service({<<"tp", i>>}, {<<"db", i>>, <<"hdb", i>>}, "unless-stopped", "")
      BY <2>1, <2>2, <2>4 DEF ShardService
    <3>2. {<<"tp", i>>} \subseteq ShardTiers \X ShardIds(n) /\ {<<"db", i>>, <<"hdb", i>>} \subseteq Volumes(n)
      BY ShardNames
    <3>3. row.deps = {<<"tp", i>>} /\ row.volumes = {<<"db", i>>, <<"hdb", i>>} /\ row.profile = "" /\ row.restart = "unless-stopped"
      BY <3>1 DEF Service
    <3> QED
      BY <2>2, <3>2, <3>3
  <2>5. CASE t = "rdb"
    <3>1. row = Service({<<"tp", i>>}, {<<"db", i>>}, "unless-stopped", "")
      BY <2>1, <2>2, <2>5 DEF ShardService
    <3>2. {<<"tp", i>>} \subseteq ShardTiers \X ShardIds(n) /\ {<<"db", i>>} \subseteq Volumes(n)
      BY ShardNames
    <3>3. row.deps = {<<"tp", i>>} /\ row.volumes = {<<"db", i>>} /\ row.profile = "" /\ row.restart = "unless-stopped"
      BY <3>1 DEF Service
    <3> QED
      BY <2>2, <3>2, <3>3
  <2>6. CASE t = "idb"
    <3>1. row = Service({<<"wdb", i>>}, {<<"db", i>>}, "unless-stopped", "")
      BY <2>1, <2>2, <2>6 DEF ShardService
    <3>2. {<<"wdb", i>>} \subseteq ShardTiers \X ShardIds(n) /\ {<<"db", i>>} \subseteq Volumes(n)
      BY ShardNames
    <3>3. row.deps = {<<"wdb", i>>} /\ row.volumes = {<<"db", i>>} /\ row.profile = "" /\ row.restart = "unless-stopped"
      BY <3>1 DEF Service
    <3> QED
      BY <2>2, <3>2, <3>3
  <2>7. CASE t = "hdb"
    <3>1. row = Service({<<"wdb", i>>}, {<<"hdb", i>>}, "unless-stopped", "")
      BY <2>1, <2>2, <2>7 DEF ShardService
    <3>2. {<<"wdb", i>>} \subseteq ShardTiers \X ShardIds(n) /\ {<<"hdb", i>>} \subseteq Volumes(n)
      BY ShardNames
    <3>3. row.deps = {<<"wdb", i>>} /\ row.volumes = {<<"hdb", i>>} /\ row.profile = "" /\ row.restart = "unless-stopped"
      BY <3>1 DEF Service
    <3> QED
      BY <2>2, <3>2, <3>3
  <2> QED
    BY <2>3, <2>4, <2>5, <2>6, <2>7 DEF ShardTiers
<1>2. ASSUME NEW s \in {<<"gateway", 0>>}
      PROVE  /\ Compose(n)[s].deps \subseteq ShardTiers \X ShardIds(n) /\ Compose(n)[s].volumes = {}
             /\ Compose(n)[s].profile = "" /\ Compose(n)[s].restart = "unless-stopped"
  <2>1. Compose(n)[s] = Service({"rdb", "idb", "wdb", "hdb"} \X ShardIds(n), {}, "unless-stopped", "")
    BY ComposeParts DEF GatewayService
  <2>2. PICK row : row = Compose(n)[s]
    OBVIOUS
  <2>3. Service({"rdb", "idb", "wdb", "hdb"} \X ShardIds(n), {}, "unless-stopped", "") = row
    BY <2>1, <2>2
  <2>4. row.deps = {"rdb", "idb", "wdb", "hdb"} \X ShardIds(n) /\ row.volumes = {} /\ row.profile = ""
        /\ row.restart = "unless-stopped"
    BY <2>3 DEF Service
  <2>5. row.deps \subseteq ShardTiers \X ShardIds(n)
    BY <2>4 DEF ShardTiers
  <2> QED
    BY <2>2, <2>4, <2>5
<1>3. ASSUME NEW s \in Sims \X {0}
      PROVE  /\ Compose(n)[s].deps \subseteq ShardTiers \X ShardIds(n) /\ Compose(n)[s].volumes = {}
             /\ Compose(n)[s].profile = ""
  <2>1. Compose(n)[s] = Service({"tp"} \X ShardIds(n), {}, "on-failure", "")
    BY ComposeParts DEF SimServices
  <2>2. PICK row : row = Compose(n)[s]
    OBVIOUS
  <2>3. Service({"tp"} \X ShardIds(n), {}, "on-failure", "") = row
    BY <2>1, <2>2
  <2>4. row.deps = {"tp"} \X ShardIds(n) /\ row.volumes = {} /\ row.profile = ""
        /\ row.restart = "on-failure"
    BY <2>3 DEF Service
  <2>5. row.deps \subseteq ShardTiers \X ShardIds(n)
    BY <2>4 DEF ShardTiers
  <2> QED
    BY <2>2, <2>4, <2>5
<1>4. ASSUME NEW s \in (Providers \X {0}) \cup {<<"feedhandler-cpp", 0>>}
      PROVE  /\ Compose(n)[s].deps \subseteq ShardTiers \X ShardIds(n) /\ Compose(n)[s].volumes = {}
             /\ Compose(n)[s].profile = "providers"
  <2>1. \/ Compose(n)[s] = Service({"tp"} \X ShardIds(n), {}, "on-failure", "providers")
        \/ Compose(n)[s] = Service({<<"tp", 0>>}, {}, "on-failure", "providers")
    BY ComposeParts DEF ProviderServices, HandlerService
  <2>2. 0 \in ShardIds(n)
    BY LettersAssumption DEF ShardIds
  <2>3. ({"tp"} \X ShardIds(n)) \subseteq ShardTiers \X ShardIds(n) /\ {<<"tp", 0>>} \subseteq ShardTiers \X ShardIds(n)
    BY <2>2, ShardNames DEF ShardTiers
  <2>4. PICK row : row = Compose(n)[s]
    OBVIOUS
  <2>5. /\ row.deps = {"tp"} \X ShardIds(n) \/ row.deps = {<<"tp", 0>>}
        /\ row.volumes = {} /\ row.profile = "providers"
    BY <2>1, <2>4 DEF Service
  <2> QED
    BY <2>3, <2>4, <2>5
<1>5. ASSUME NEW t \in PlaneTiers, NEW s, s = <<t, 0>>
      PROVE  /\ Compose(n)[s].deps \subseteq {<<"gateway", 0>>, <<"control-api", 0>>}
             /\ Compose(n)[s].volumes \subseteq Volumes(n)
             /\ t \in {"control-api", "watchdog", "web-ui"} => Compose(n)[s].profile = ""
             /\ t \in {"postgres", "ollama"} => Compose(n)[s].profile \notin {"", "providers"} /\ Compose(n)[s].deps = {}
  <2>1. Compose(n)[s] = ControlServices[s] /\ s \in PlaneTiers \X {0} /\ s[1] = t
    BY <1>5, ComposeParts
  <2>2. ControlServices[s] =
            CASE t = "postgres" -> Service({}, {<<"postgres-data", 0>>}, "unless-stopped", "postgres")
              [] t = "control-api" ->
                    Service({<<"gateway", 0>>}, {<<"control-api-data", 0>>}, "unless-stopped", "")
              [] t = "ollama" -> Service({}, {<<"ollama-data", 0>>}, "unless-stopped", "llm")
              [] t \in {"watchdog", "web-ui"} ->
                    Service({<<"control-api", 0>>}, {}, "unless-stopped", "")
    BY <2>1 DEF ControlServices, PlaneTiers
  <2>3. PICK row : row = Compose(n)[s]
    OBVIOUS
  <2>4. CASE t = "postgres"
    <3>1. row = Service({}, {<<"postgres-data", 0>>}, "unless-stopped", "postgres")
      BY <2>1, <2>2, <2>3, <2>4
    <3>2. row.deps = {} /\ row.volumes = {<<"postgres-data", 0>>} /\ row.profile = "postgres"
      BY <3>1 DEF Service
    <3>3. {<<"postgres-data", 0>>} \subseteq Volumes(n)
      BY PlaneVolumes
    <3> QED
      BY <2>3, <2>4, <3>2, <3>3
  <2>5. CASE t = "control-api"
    <3>1. row = Service({<<"gateway", 0>>}, {<<"control-api-data", 0>>}, "unless-stopped", "")
      BY <2>1, <2>2, <2>3, <2>5
    <3>2. row.deps = {<<"gateway", 0>>} /\ row.volumes = {<<"control-api-data", 0>>} /\ row.profile = ""
      BY <3>1 DEF Service
    <3>3. {<<"control-api-data", 0>>} \subseteq Volumes(n)
      BY PlaneVolumes
    <3> QED
      BY <2>3, <2>5, <3>2, <3>3
  <2>6. CASE t = "ollama"
    <3>1. row = Service({}, {<<"ollama-data", 0>>}, "unless-stopped", "llm")
      BY <2>1, <2>2, <2>3, <2>6
    <3>2. row.deps = {} /\ row.volumes = {<<"ollama-data", 0>>} /\ row.profile = "llm"
      BY <3>1 DEF Service
    <3>3. {<<"ollama-data", 0>>} \subseteq Volumes(n)
      BY PlaneVolumes
    <3> QED
      BY <2>3, <2>6, <3>2, <3>3
  <2>7. CASE t \in {"watchdog", "web-ui"}
    <3>1. row = Service({<<"control-api", 0>>}, {}, "unless-stopped", "")
      BY <2>1, <2>2, <2>3, <2>7
    <3>2. row.deps = {<<"control-api", 0>>} /\ row.volumes = {} /\ row.profile = ""
      BY <3>1 DEF Service
    <3>3. {} \subseteq Volumes(n)
      BY PlaneVolumes
    <3> QED
      BY <2>3, <2>7, <3>2, <3>3
  <2> QED
    BY <2>4, <2>5, <2>6, <2>7 DEF PlaneTiers
<1>6. /\ \A s \in ShardTiers \X ShardIds(n) : \E t \in ShardTiers, i \in ShardIds(n) : s = <<t, i>>
      /\ \A s \in PlaneTiers \X {0} : \E t \in PlaneTiers : s = <<t, 0>> /\ s[1] = t
  OBVIOUS
<1>7. \A s \in ShardTiers \X ShardIds(n) :
        /\ Compose(n)[s].deps \subseteq ShardTiers \X ShardIds(n) /\ Compose(n)[s].volumes \subseteq Volumes(n)
        /\ Compose(n)[s].profile = "" /\ Compose(n)[s].restart = "unless-stopped"
  <2> TAKE s \in ShardTiers \X ShardIds(n)
  <2>1. PICK t \in ShardTiers, i \in ShardIds(n) : s = <<t, i>>
    OBVIOUS
  <2> QED
    BY <1>1, <2>1
<1>8. \A s \in PlaneTiers \X {0} :
        /\ Compose(n)[s].deps \subseteq {<<"gateway", 0>>, <<"control-api", 0>>}
        /\ Compose(n)[s].volumes \subseteq Volumes(n)
        /\ s[1] \in {"control-api", "watchdog", "web-ui"} => Compose(n)[s].profile = ""
        /\ s[1] \in {"postgres", "ollama"} => Compose(n)[s].profile \notin {"", "providers"}
                                             /\ Compose(n)[s].deps = {}
  BY <1>5, <1>6, Zenon
<1> QED
  BY <1>2, <1>3, <1>4, <1>7, <1>8, Zenon

\* The names by what `up` does with them.
TierNames(n) == ShardTiers \X ShardIds(n)
GatewayNames == {<<"gateway", 0>>}
SimNames == Sims \X {0}
AdapterNames == (Providers \X {0}) \cup {<<"feedhandler-cpp", 0>>}
PlaneNames == {"control-api", "watchdog", "web-ui"} \X {0}
ExtraNames == {"postgres", "ollama"} \X {0}

\* Which rows have no profile, what the others have, and what they wait for.
LEMMA ComposeProfiles ==
    ASSUME NEW n \in 1 .. Letters
    PROVE  /\ DOMAIN Compose(n) = TierNames(n) \cup GatewayNames \cup SimNames \cup AdapterNames \cup PlaneNames \cup ExtraNames
           /\ \A s \in TierNames(n) \cup GatewayNames : Compose(n)[s].profile = "" /\ Compose(n)[s].restart = "unless-stopped"
           /\ \A s \in SimNames \cup PlaneNames : Compose(n)[s].profile = ""
           /\ \A s \in AdapterNames : Compose(n)[s].profile = "providers"
           /\ \A s \in ExtraNames : Compose(n)[s].profile \notin {"", "providers"}
           /\ \A s \in TierNames(n) \cup GatewayNames \cup SimNames \cup AdapterNames :
                 Compose(n)[s].deps \subseteq TierNames(n) /\ Compose(n)[s].volumes \subseteq Volumes(n)
           /\ \A s \in PlaneNames \cup ExtraNames :
                 /\ Compose(n)[s].deps \subseteq {<<"gateway", 0>>, <<"control-api", 0>>}
                 /\ Compose(n)[s].volumes \subseteq Volumes(n)
<1>1. PlaneTiers \X {0} = PlaneNames \cup ExtraNames
  BY DEF PlaneTiers, PlaneNames, ExtraNames
<1>2. /\ \A s \in PlaneNames : s \in PlaneTiers \X {0} /\ s[1] \in {"control-api", "watchdog", "web-ui"}
      /\ \A s \in ExtraNames : s \in PlaneTiers \X {0} /\ s[1] \in {"postgres", "ollama"}
  BY DEF PlaneTiers, PlaneNames, ExtraNames
<1>3. /\ \A s \in PlaneNames : Compose(n)[s].profile = ""
      /\ \A s \in ExtraNames : Compose(n)[s].profile \notin {"", "providers"}
  BY <1>2, ComposeRows, Zenon
<1>4. \A s \in TierNames(n) : Compose(n)[s].profile = "" /\ Compose(n)[s].restart = "unless-stopped"
  BY ComposeRows, Zenon DEF TierNames
<1>5. \A s \in GatewayNames : Compose(n)[s].profile = "" /\ Compose(n)[s].restart = "unless-stopped"
  BY ComposeRows, Zenon DEF GatewayNames
<1>6. \A s \in SimNames : Compose(n)[s].profile = ""
  BY ComposeRows, Zenon DEF SimNames
<1>7. \A s \in AdapterNames : Compose(n)[s].profile = "providers"
  BY ComposeRows, Zenon DEF AdapterNames
<1>8. \A s \in TierNames(n) : Compose(n)[s].deps \subseteq TierNames(n) /\ Compose(n)[s].volumes \subseteq Volumes(n)
  BY ComposeRows, Zenon DEF TierNames
<1>9. \A s \in GatewayNames : Compose(n)[s].deps \subseteq TierNames(n) /\ Compose(n)[s].volumes = {}
  BY ComposeRows, Zenon DEF TierNames, GatewayNames
<1>10. \A s \in SimNames : Compose(n)[s].deps \subseteq TierNames(n) /\ Compose(n)[s].volumes = {}
  BY ComposeRows, Zenon DEF TierNames, SimNames
<1>11. \A s \in AdapterNames : Compose(n)[s].deps \subseteq TierNames(n) /\ Compose(n)[s].volumes = {}
  BY ComposeRows, Zenon DEF TierNames, AdapterNames
<1>12. \A s \in PlaneTiers \X {0} :
          /\ Compose(n)[s].deps \subseteq {<<"gateway", 0>>, <<"control-api", 0>>}
          /\ Compose(n)[s].volumes \subseteq Volumes(n)
  BY ComposeRows, Zenon
<1>13. DOMAIN Compose(n) = TierNames(n) \cup GatewayNames \cup SimNames \cup (Providers \X {0}) \cup {<<"feedhandler-cpp", 0>>}
                             \cup (PlaneTiers \X {0})
  BY ComposeParts, Zenon DEF TierNames, GatewayNames, SimNames
<1>14. DOMAIN Compose(n) = TierNames(n) \cup GatewayNames \cup SimNames \cup AdapterNames \cup (PlaneTiers \X {0})
  <2>1. PICK adapters, handler, plane : /\ adapters = Providers \X {0} /\ handler = {<<"feedhandler-cpp", 0>>}
                                        /\ plane = PlaneTiers \X {0}
    OBVIOUS
  <2>2. AdapterNames = adapters \cup handler
    BY <2>1, Zenon DEF AdapterNames
  <2>3. DOMAIN Compose(n) = TierNames(n) \cup GatewayNames \cup SimNames \cup adapters \cup handler \cup plane
    BY <1>13, <2>1, Zenon
  <2>4. DOMAIN Compose(n) = TierNames(n) \cup GatewayNames \cup SimNames \cup AdapterNames \cup plane
    BY <2>2, <2>3
  <2> QED
    BY <2>1, <2>4, Zenon
<1>15. DOMAIN Compose(n) = TierNames(n) \cup GatewayNames \cup SimNames \cup AdapterNames \cup PlaneNames \cup ExtraNames
  BY <1>1, <1>14
<1>16. \A s \in PlaneNames \cup ExtraNames :
          /\ Compose(n)[s].deps \subseteq {<<"gateway", 0>>, <<"control-api", 0>>}
          /\ Compose(n)[s].volumes \subseteq Volumes(n)
  BY <1>1, <1>12, Zenon
<1> QED
  BY <1>3, <1>4, <1>5, <1>6, <1>7, <1>8, <1>9, <1>10, <1>11, <1>15, <1>16

\* One `up` starts the shards, the gateway, the simulated feeds and the control plane.
LEMMA UpStarts ==
    ASSUME NEW n \in 1 .. Letters
    PROVE  Enabled(n, {}) = DOMAIN ShardServices(n) \cup {<<"gateway", 0>>} \cup Sims \X {0}
                                \cup {"control-api", "watchdog", "web-ui"} \X {0}
<1>1. DOMAIN ShardServices(n) = TierNames(n)
  BY DEF ShardServices, TierNames
<1>2. PICK c : c = Compose(n)
  OBVIOUS
<1>3. Enabled(n, {}) = {s \in DOMAIN c : c[s].profile = ""}
  BY <1>2 DEF Enabled
<1>4. Enabled(n, {}) = TierNames(n) \cup GatewayNames \cup SimNames \cup PlaneNames
  BY <1>2, <1>3, ComposeProfiles
<1> QED
  BY <1>1, <1>4, Zenon DEF GatewayNames, SimNames, PlaneNames

\* Nothing waits for what is not there.
LEMMA UpIsWhole ==
    ASSUME NEW n \in 1 .. Letters
    PROVE  ComposeIsWhole(n, {"providers"})
<1>1. PICK c : c = Compose(n)
  OBVIOUS
<1>2. PICK up, all : up = Enabled(n, {}) /\ all = Enabled(n, {"providers"})
  OBVIOUS
<1>3. up = {s \in DOMAIN c : c[s].profile = ""} /\ all = {s \in DOMAIN c : c[s].profile \in {"", "providers"}}
  BY <1>1, <1>2 DEF Enabled
<1>4. /\ TierNames(n) \subseteq up /\ GatewayNames \subseteq up /\ all \subseteq DOMAIN c
      /\ TierNames(n) \subseteq all /\ GatewayNames \subseteq all /\ PlaneNames \subseteq all
  BY <1>1, <1>3, ComposeProfiles
<1>5. <<"gateway", 0>> \in GatewayNames /\ <<"control-api", 0>> \in PlaneNames
  BY DEF GatewayNames, PlaneNames
<1>6. {<<"gateway", 0>>, <<"control-api", 0>>} \subseteq all
  BY <1>4, <1>5
<1>7. ASSUME NEW s \in DOMAIN c PROVE c[s].deps \subseteq all /\ c[s].volumes \subseteq Volumes(n)
  <2>1. CASE s \in PlaneNames \cup ExtraNames
    <3>1. c[s].deps \subseteq {<<"gateway", 0>>, <<"control-api", 0>>} /\ c[s].volumes \subseteq Volumes(n)
      BY <1>1, <2>1, ComposeProfiles, Zenon
    <3> QED
      BY <1>6, <3>1, Zenon
  <2>2. CASE s \in TierNames(n) \cup GatewayNames \cup SimNames \cup AdapterNames
    BY <1>1, <1>4, <2>2, ComposeProfiles
  <2> QED
    BY <1>1, <2>1, <2>2, ComposeProfiles
<1>8. \A s \in TierNames(n) \cup GatewayNames : s \in up /\ c[s].restart = "unless-stopped"
  BY <1>1, <1>4, ComposeProfiles
<1>9. HealedServices(n) = TierNames(n) \cup GatewayNames
  BY Zenon DEF HealedServices, TierNames, GatewayNames
<1> QED
  BY <1>1, <1>2, <1>4, <1>7, <1>8, <1>9 DEF ComposeIsWhole

-----------------------------------------------------------------------------
(* A house, its commands and the requests under way *)

Outcome(verdict) == IF verdict = "running" THEN "success" ELSE "failure"
Told(i, verdict) == pvCmds[i].act = "spec" /\ pvCmds[i].status = Outcome(verdict)

CmdsInv ==
    /\ pvCmds \in Seq([act: {"spec", "count", "down"}, n: Nat, scaled: BOOLEAN,
                       status: {"queued", "success", "failure", "dispatched"}])
    /\ \A i \in DOMAIN pvCmds : pvCmds[i].act = "down" => ~pvCmds[i].scaled

\* The row tells of a command of the house; of its last, unless requests overlapped.
HouseInv ==
    /\ pvHouse \in [status: {"none", "defined", "provisioning", "running", "failed"}, last: Nat,
                    spec: PvSpecs \cup {NoSpec}, overlapped: BOOLEAN]
    /\ pvHouse.last # 0 => pvHouse.last \in DOMAIN pvCmds /\ pvCmds[pvHouse.last].act = "spec"
    /\ pvHouse.status = "none" => pvHouse.last = 0
    /\ pvHouse.status # "none" => pvHouse.spec \in PvSpecs /\ Parsed(pvHouse.spec) /\ Problems(AutoSpec(pvHouse.spec)) = {}
    /\ pvHouse.status \in {"running", "failed"} =>
          /\ \E i \in DOMAIN pvCmds : Told(i, pvHouse.status)
          /\ ~pvHouse.overlapped => pvHouse.last # 0 /\ Told(pvHouse.last, pvHouse.status)

\* What a request has read is true of the command that it read it of.
ReqsInv ==
    /\ \A r \in pvReqs :
          /\ r \in [kind: {"asked", "poll"}, last: Nat, verdict: {"", "running", "failed"}]
          /\ r.last \in DOMAIN pvCmds /\ pvCmds[r.last].act = "spec"
          /\ r.kind = "poll" => r.verdict \in {"running", "failed"} /\ Told(r.last, r.verdict)
          /\ r.kind = "poll" /\ ~pvHouse.overlapped /\ pvHouse.status # "none" => r.last = pvHouse.last
    /\ \A r, q \in pvReqs : r.kind # q.kind => pvHouse.overlapped

\* The cluster's record, part by part.
BoxParts == pvBox = [backend |-> pvBox.backend, file |-> pvBox.file, release |-> pvBox.release,
                     running |-> pvBox.running, doing |-> pvBox.doing, ended |-> pvBox.ended]

\* The command in work has not ended; the last one that did is what runs, if it went well.
BoxInv ==
    /\ BoxParts
    /\ pvBox.doing \in Nat /\ pvBox.ended \in Nat
    /\ pvBox.doing # 0 =>
          /\ pvBox.doing \in DOMAIN pvCmds /\ pvCmds[pvBox.doing].status = "queued"
          /\ pvCmds[pvBox.doing].act # "down" /\ ValidCount(pvCmds[pvBox.doing].n)
    /\ pvBox.ended # 0 =>
          /\ pvBox.ended \in DOMAIN pvCmds /\ pvCmds[pvBox.ended].status # "queued"
          /\ (pvCmds[pvBox.ended].act = "spec" \/ pvCmds[pvBox.ended].scaled)
                /\ pvCmds[pvBox.ended].status = "success" =>
                /\ ValidCount(pvCmds[pvBox.ended].n)
                /\ pvBox.running = Enabled(pvCmds[pvBox.ended].n, {})

PvInv == CmdsInv /\ HouseInv /\ ReqsInv /\ BoxInv

\* A command that has ended does not change any more; one that is queued becomes at most
\* what it ended with.
CmdsGo ==
    /\ \A k \in DOMAIN pvCmds :
          /\ k \in DOMAIN pvCmds' /\ pvCmds'[k].act = pvCmds[k].act /\ pvCmds'[k].n = pvCmds[k].n
          /\ pvCmds'[k].scaled = pvCmds[k].scaled
          /\ pvCmds[k].status # "queued" => pvCmds'[k].status = pvCmds[k].status

\* The shape of a command.
LEMMA CmdsShape ==
    ASSUME CmdsInv
    PROVE  /\ DOMAIN pvCmds = 1 .. Len(pvCmds) /\ Len(pvCmds) \in Nat
           /\ \A i \in DOMAIN pvCmds : pvCmds[i] \in [act: {"spec", "count", "down"}, n: Nat, scaled: BOOLEAN,
                                                   status: {"queued", "success", "failure", "dispatched"}]
<1>1. PICK C : C = [act: {"spec", "count", "down"}, n: Nat, scaled: BOOLEAN,
                    status: {"queued", "success", "failure", "dispatched"}]
  OBVIOUS
<1>2. pvCmds \in Seq(C)
  BY <1>1 DEF CmdsInv
<1>3. DOMAIN pvCmds = 1 .. Len(pvCmds) /\ Len(pvCmds) \in Nat /\ \A i \in DOMAIN pvCmds : pvCmds[i] \in C
  BY <1>2
<1> QED
  BY <1>1, <1>3

\* What was told of a house is still told while the commands only go forward.
LEMMA HouseStands ==
    ASSUME HouseInv, ReqsInv, CmdsGo, UNCHANGED <<pvHouse, pvReqs>>
    PROVE  HouseInv' /\ ReqsInv'
<1>1. \A i \in DOMAIN pvCmds : \A v : Told(i, v) => i \in DOMAIN pvCmds' /\ Told(i, v)'
  BY DEF Told, Outcome, CmdsGo
<1>2. \A k \in DOMAIN pvCmds : k \in DOMAIN pvCmds' /\ pvCmds'[k].act = pvCmds[k].act
  BY DEF CmdsGo
<1>3. HouseInv'
  BY <1>1, <1>2 DEF HouseInv
<1>4. ReqsInv'
  BY <1>1, <1>2 DEF ReqsInv
<1> QED
  BY <1>3, <1>4

\* A command ends, or is lost.
LEMMA EndsGo ==
    ASSUME CmdsInv, NEW i \in DOMAIN pvCmds, pvCmds[i].status = "queued",
           NEW outcome \in {"success", "failure", "dispatched"},
           pvCmds' = [pvCmds EXCEPT ![i].status = outcome]
    PROVE  /\ CmdsInv' /\ CmdsGo /\ DOMAIN pvCmds' = DOMAIN pvCmds
           /\ pvCmds'[i].status = outcome /\ \A k \in DOMAIN pvCmds \ {i} : pvCmds'[k] = pvCmds[k]
<1> DEFINE C == [act: {"spec", "count", "down"}, n: Nat, scaled: BOOLEAN,
                 status: {"queued", "success", "failure", "dispatched"}]
<1>1. pvCmds \in Seq(C) /\ DOMAIN pvCmds = 1 .. Len(pvCmds) /\ pvCmds[i] \in C
  BY CmdsShape DEF CmdsInv
<1>2. PICK e : e = [pvCmds[i] EXCEPT !.status = outcome]
  OBVIOUS
<1>3. e \in C /\ e.act = pvCmds[i].act /\ e.n = pvCmds[i].n /\ e.scaled = pvCmds[i].scaled /\ e.status = outcome
  BY <1>1, <1>2
<1>4. pvCmds' = [pvCmds EXCEPT ![i] = e]
  BY <1>2, Zenon
<1>5. pvCmds' \in Seq(C) /\ DOMAIN pvCmds' = DOMAIN pvCmds
  BY <1>1, <1>3, <1>4
<1>6. pvCmds'[i] = e /\ \A k \in DOMAIN pvCmds \ {i} : pvCmds'[k] = pvCmds[k]
  BY <1>1, <1>4
<1>7. CmdsInv'
  BY <1>3, <1>5, <1>6 DEF CmdsInv
<1>8. CmdsGo
  BY <1>3, <1>5, <1>6 DEF CmdsGo
<1> QED
  BY <1>3, <1>5, <1>6, <1>7, <1>8

\* A command comes.
LEMMA AppendGo ==
    ASSUME CmdsInv, NEW act \in {"spec", "count", "down"}, NEW n \in Nat, NEW scaled \in BOOLEAN,
           act = "down" => ~scaled, pvCmds' = Append(pvCmds, Cmd(act, n, scaled))
    PROVE  /\ CmdsInv' /\ CmdsGo /\ \A k \in DOMAIN pvCmds : pvCmds'[k] = pvCmds[k]
           /\ Len(pvCmds) + 1 \in DOMAIN pvCmds' /\ pvCmds'[Len(pvCmds) + 1].act = act
<1> DEFINE C == [act: {"spec", "count", "down"}, n: Nat, scaled: BOOLEAN,
                 status: {"queued", "success", "failure", "dispatched"}]
<1>1. PICK e : e = Cmd(act, n, scaled)
  OBVIOUS
<1>2. e \in C /\ e.act = act /\ e.n = n /\ e.scaled = scaled
  BY <1>1 DEF Cmd
<1>3. pvCmds \in Seq(C) /\ pvCmds' = Append(pvCmds, e) /\ DOMAIN pvCmds = 1 .. Len(pvCmds)
  BY <1>1 DEF CmdsInv
<1>4. /\ pvCmds' \in Seq(C) /\ DOMAIN pvCmds' = 1 .. Len(pvCmds) + 1 /\ Len(pvCmds) \in Nat
      /\ \A k \in DOMAIN pvCmds : pvCmds'[k] = pvCmds[k]
      /\ pvCmds'[Len(pvCmds) + 1] = e
  BY <1>2, <1>3
<1>5. CmdsInv'
  <2>1. ASSUME NEW k \in DOMAIN pvCmds', pvCmds'[k].act = "down" PROVE ~pvCmds'[k].scaled
    BY <1>2, <1>3, <1>4, <2>1 DEF CmdsInv
  <2> QED
    BY <1>4, <2>1 DEF CmdsInv
<1>6. CmdsGo
  BY <1>3, <1>4 DEF CmdsGo
<1> QED
  BY <1>2, <1>4, <1>5, <1>6

\* The cluster is not touched by what only comes into the queue.
LEMMA BoxStands ==
    ASSUME BoxInv, UNCHANGED pvBox, \A k \in DOMAIN pvCmds : k \in DOMAIN pvCmds' /\ pvCmds'[k] = pvCmds[k]
    PROVE  BoxInv'
  BY DEF BoxInv, BoxParts

\* A house is provisioned, deleted or read,
LEMMA HouseKept ==
    ASSUME PvInv,
           \/ \E spec \in PvSpecs : CreateHouse(spec)
           \/ DeleteHouse \/ StatusRead
           \/ \E r \in pvReqs : ProvisionMarked(r) \/ StatusWritten(r) \/ RequestFails(r)
    PROVE  PvInv'
<1>1. UNCHANGED <<pvCmds, pvBox>>
  BY DEF CreateHouse, DeleteHouse, StatusRead, ProvisionMarked, StatusWritten, RequestFails
<1>2. CmdsInv' /\ BoxInv'
  BY <1>1 DEF PvInv, CmdsInv, BoxInv, BoxParts
<1>3. \A i, v : Told(i, v)' <=> Told(i, v)
  BY <1>1 DEF Told
<1>4. ASSUME NEW spec \in PvSpecs, CreateHouse(spec) PROVE HouseInv' /\ ReqsInv'
  <2>1. /\ pvHouse.status = "none" /\ Parsed(spec) /\ Problems(AutoSpec(spec)) = {} /\ pvReqs' = pvReqs
        /\ pvHouse'.status = "defined" /\ pvHouse'.spec = spec /\ pvHouse'.last = pvHouse.last
        /\ pvHouse'.overlapped <=> pvReqs # {}
        /\ pvHouse' \in [status: {"none", "defined", "provisioning", "running", "failed"}, last: Nat,
                         spec: PvSpecs \cup {NoSpec}, overlapped: BOOLEAN]
    BY <1>4 DEF CreateHouse, PvInv, HouseInv
  <2>2. HouseInv'
    BY <1>1, <2>1 DEF PvInv, HouseInv
  <2>3. ReqsInv'
    BY <1>1, <1>3, <2>1 DEF PvInv, ReqsInv
  <2> QED
    BY <2>2, <2>3
<1>5. ASSUME DeleteHouse PROVE HouseInv' /\ ReqsInv'
  <2>1. /\ pvReqs' = pvReqs /\ pvHouse'.status = "none" /\ pvHouse'.last = 0
        /\ pvHouse'.overlapped = pvHouse.overlapped
        /\ pvHouse' \in [status: {"none", "defined", "provisioning", "running", "failed"}, last: Nat,
                         spec: PvSpecs \cup {NoSpec}, overlapped: BOOLEAN]
    BY <1>5 DEF DeleteHouse, PvInv, HouseInv
  <2>2. HouseInv'
    BY <2>1 DEF HouseInv
  <2>3. ReqsInv'
    BY <1>1, <1>3, <2>1 DEF PvInv, ReqsInv
  <2> QED
    BY <2>2, <2>3
<1>6. ASSUME StatusRead PROVE HouseInv' /\ ReqsInv'
  <2>1. PICK last, v : last = pvHouse.last /\ v = Verdict(pvCmds[last].status)
    OBVIOUS
  <2>2. PICK new : new = [kind |-> "poll", last |-> last, verdict |-> v]
    OBVIOUS
  <2>3. /\ pvHouse.status = "provisioning" /\ last # 0 /\ v # ""
        /\ pvReqs' = pvReqs \cup {new}
        /\ pvHouse' = [pvHouse EXCEPT !.overlapped = @ \/ \E r \in pvReqs : r.kind = "asked"]
    BY <1>6, <2>1, <2>2, Zenon DEF StatusRead
  <2>4. v \in {"running", "failed"} /\ last \in DOMAIN pvCmds /\ Told(last, v)
    <3>1. /\ pvCmds[last].status = "success" => v = "running"
          /\ pvCmds[last].status = "failure" => v = "failed"
          /\ pvCmds[last].status \in {"success", "failure"}
      BY <2>1, <2>3 DEF Verdict
    <3> QED
      BY <2>1, <2>3, <3>1 DEF PvInv, HouseInv, Told, Outcome
  <2>5. PICK some \in BOOLEAN : some = \E r \in pvReqs : r.kind = "asked"
    OBVIOUS
  <2>6. PICK over \in BOOLEAN : over = (pvHouse.overlapped \/ some)
    OBVIOUS
  <2>7. pvHouse' = [pvHouse EXCEPT !.overlapped = over]
    BY <2>3, <2>5, <2>6, Zenon
  <2>8. /\ pvHouse'.status = pvHouse.status /\ pvHouse'.last = last /\ pvHouse'.spec = pvHouse.spec /\ pvHouse'.overlapped = over
        /\ pvHouse' \in [status: {"none", "defined", "provisioning", "running", "failed"}, last: Nat,
                         spec: PvSpecs \cup {NoSpec}, overlapped: BOOLEAN]
    BY <2>1, <2>7 DEF PvInv, HouseInv
  <2>9. HouseInv'
    BY <1>1, <2>1, <2>3, <2>8 DEF PvInv, HouseInv
  <2>10. new.kind = "poll" /\ new.last = last /\ new.verdict = v /\ new \in [kind: {"asked", "poll"}, last: Nat, verdict: {"", "running", "failed"}]
    BY <2>1, <2>2, <2>4 DEF PvInv, HouseInv
  <2>11. ASSUME NEW r \in pvReqs'
         PROVE  /\ r \in [kind: {"asked", "poll"}, last: Nat, verdict: {"", "running", "failed"}]
                /\ r.last \in DOMAIN pvCmds /\ pvCmds[r.last].act = "spec"
                /\ r.kind = "poll" => r.verdict \in {"running", "failed"} /\ Told(r.last, r.verdict)
                /\ r.kind = "poll" /\ ~over => r.last = pvHouse'.last
    <3>1. CASE r = new
      BY <2>1, <2>3, <2>4, <2>8, <2>10, <3>1 DEF PvInv, HouseInv
    <3>2. CASE r \in pvReqs
      BY <2>1, <2>3, <2>8, <3>2 DEF PvInv, ReqsInv
    <3> QED
      BY <2>3, <3>1, <3>2
  <2>12. ASSUME NEW r \in pvReqs', NEW q \in pvReqs', r.kind # q.kind PROVE over
    BY <2>3, <2>5, <2>6, <2>10, <2>11, <2>12 DEF PvInv, ReqsInv
  <2>13. ReqsInv'
    BY <1>1, <1>3, <2>8, <2>11, <2>12 DEF ReqsInv
  <2> QED
    BY <2>9, <2>13
<1>7. ASSUME NEW r \in pvReqs, ProvisionMarked(r) PROVE HouseInv' /\ ReqsInv'
  <2>1. /\ r.kind = "asked" /\ pvReqs' = pvReqs \ {r} /\ pvHouse.status # "none"
        /\ pvHouse'.status = "provisioning" /\ pvHouse'.last = r.last /\ pvHouse'.spec = pvHouse.spec
        /\ pvHouse'.overlapped = pvHouse.overlapped
        /\ pvHouse' \in [status: {"none", "defined", "provisioning", "running", "failed"}, last: Nat,
                         spec: PvSpecs \cup {NoSpec}, overlapped: BOOLEAN]
    BY <1>7 DEF ProvisionMarked, PvInv, HouseInv, ReqsInv
  <2>2. pvHouse.status # "none" /\ r.last \in DOMAIN pvCmds /\ pvCmds[r.last].act = "spec"
    BY <2>1 DEF PvInv, HouseInv, ReqsInv
  <2>3. HouseInv'
    BY <1>1, <2>1, <2>2 DEF PvInv, HouseInv
  <2>4. \A q \in pvReqs : q.kind = "poll" => pvHouse.overlapped
    BY <2>1 DEF PvInv, ReqsInv
  <2>5. ReqsInv'
    BY <1>1, <1>3, <2>1, <2>4 DEF PvInv, ReqsInv
  <2> QED
    BY <2>3, <2>5
<1>8. ASSUME NEW r \in pvReqs, StatusWritten(r) PROVE HouseInv' /\ ReqsInv'
  <2>1. r.kind = "poll" /\ r.verdict \in {"running", "failed"} /\ Told(r.last, r.verdict) /\ r.last \in DOMAIN pvCmds
    BY <1>8 DEF StatusWritten, PvInv, ReqsInv
  <2>2. /\ pvReqs' \subseteq pvReqs /\ pvHouse.status # "none"
        /\ pvHouse'.status = r.verdict /\ pvHouse'.last = pvHouse.last /\ pvHouse'.spec = pvHouse.spec
        /\ pvHouse'.overlapped = pvHouse.overlapped
        /\ pvHouse' \in [status: {"none", "defined", "provisioning", "running", "failed"}, last: Nat,
                         spec: PvSpecs \cup {NoSpec}, overlapped: BOOLEAN]
    BY <1>8, <2>1 DEF StatusWritten, PvInv, HouseInv
  <2>3. pvHouse.status # "none" /\ r.last # 0
    BY <2>1, <2>2, CmdsShape DEF PvInv, HouseInv
  <2>4. ~pvHouse.overlapped => r.last = pvHouse.last
    BY <2>1, <2>2 DEF PvInv, ReqsInv
  <2>5. HouseInv'
    BY <1>1, <1>3, <2>1, <2>2, <2>3, <2>4 DEF PvInv, HouseInv
  <2>6. ReqsInv'
    BY <1>1, <1>3, <2>2 DEF PvInv, ReqsInv
  <2> QED
    BY <2>5, <2>6
<1>9. ASSUME NEW r \in pvReqs, RequestFails(r) PROVE HouseInv' /\ ReqsInv'
  <2>1. pvReqs' \subseteq pvReqs /\ pvHouse' = pvHouse
    BY <1>9 DEF RequestFails
  <2> QED
    BY <1>1, <1>3, <2>1 DEF PvInv, HouseInv, ReqsInv
<1> QED
  BY <1>2, <1>4, <1>5, <1>6, <1>7, <1>8, <1>9 DEF PvInv

\* A request for a command: of a definition, of a count, or to take all down.
LEMMA AskedKept ==
    ASSUME PvInv,
           \/ ProvisionAsked \/ DownAsked
           \/ \E n \in PvCounts, scaled \in BOOLEAN : CountAsked(n, scaled)
    PROVE  PvInv'
<1>1. ASSUME ProvisionAsked PROVE PvInv'
  <2>1. PICK n : n = ShardCount(pvHouse.spec)
    OBVIOUS
  <2>2. /\ pvHouse.status # "none"
        /\ pvCmds' = Append(pvCmds, Cmd("spec", n, FALSE)) /\ pvBox' = pvBox
        /\ pvReqs' = pvReqs \cup {[kind |-> "asked", last |-> Len(pvCmds) + 1, verdict |-> ""]}
        /\ pvHouse' = [pvHouse EXCEPT !.overlapped = @ \/ \E r \in pvReqs : r.kind = "poll"]
    BY <1>1, <2>1, Zenon DEF ProvisionAsked, ProvisionPayload
  <2>3. n \in Nat
    <3>1. pvHouse.spec.ranges \in Seq(Nat \X Nat) /\ pvHouse.spec.symbols \in Seq(SUBSET UNION Range(pvHouse.spec.symbols))
      BY <2>2, ProvisioningAssumption DEF PvInv, HouseInv
    <3> QED
      BY <2>1, <3>1 DEF ShardCount
  <2>4. /\ CmdsInv' /\ CmdsGo /\ \A k \in DOMAIN pvCmds : pvCmds'[k] = pvCmds[k]
        /\ Len(pvCmds) + 1 \in DOMAIN pvCmds' /\ pvCmds'[Len(pvCmds) + 1].act = "spec"
    BY <2>2, <2>3, AppendGo DEF PvInv
  <2>5. BoxInv'
    BY <2>2, <2>4, BoxStands DEF PvInv, CmdsGo
  <2>6. PICK some \in BOOLEAN : some = \E r \in pvReqs : r.kind = "poll"
    OBVIOUS
  <2>7. PICK over \in BOOLEAN : over = (pvHouse.overlapped \/ some)
    OBVIOUS
  <2>8. pvHouse' = [pvHouse EXCEPT !.overlapped = over]
    BY <2>2, <2>6, <2>7, Zenon
  <2>9. /\ pvHouse'.status = pvHouse.status /\ pvHouse'.last = pvHouse.last /\ pvHouse'.spec = pvHouse.spec
        /\ pvHouse'.overlapped = over
        /\ pvHouse' \in [status: {"none", "defined", "provisioning", "running", "failed"}, last: Nat,
                         spec: PvSpecs \cup {NoSpec}, overlapped: BOOLEAN]
    BY <2>8 DEF PvInv, HouseInv
  <2>10. \A i \in DOMAIN pvCmds : i \in DOMAIN pvCmds' /\ pvCmds'[i].act = pvCmds[i].act /\ \A v : Told(i, v) => Told(i, v)'
    BY <2>4 DEF CmdsGo, Told
  <2>11. HouseInv'
    BY <2>2, <2>7, <2>9, <2>10 DEF PvInv, HouseInv
  <2>12. PICK new : new = [kind |-> "asked", last |-> Len(pvCmds) + 1, verdict |-> ""]
    OBVIOUS
  <2>13. /\ new.kind = "asked" /\ new.last = Len(pvCmds) + 1 /\ pvReqs' = pvReqs \cup {new}
         /\ new \in [kind: {"asked", "poll"}, last: Nat, verdict: {"", "running", "failed"}]
    <3>1. PICK at \in Nat : at = Len(pvCmds) + 1
      BY CmdsShape DEF PvInv
    <3>2. new = [kind |-> "asked", last |-> at, verdict |-> ""] /\ pvReqs' = pvReqs \cup {new}
      BY <2>2, <2>12, <3>1, Zenon
    <3> QED
      BY <3>1, <3>2
  <2>14. ASSUME NEW r \in pvReqs'
         PROVE  /\ r \in [kind: {"asked", "poll"}, last: Nat, verdict: {"", "running", "failed"}]
                /\ r.last \in DOMAIN pvCmds' /\ pvCmds'[r.last].act = "spec"
                /\ r.kind = "poll" => r.verdict \in {"running", "failed"} /\ Told(r.last, r.verdict)'
                /\ r.kind = "poll" /\ ~over => r.last = pvHouse'.last
    <3>1. CASE r = new
      BY <2>4, <2>13, <3>1
    <3>2. CASE r \in pvReqs
      BY <2>2, <2>7, <2>9, <2>10, <3>2 DEF PvInv, ReqsInv
    <3> QED
      BY <2>13, <3>1, <3>2
  <2>15. ASSUME NEW r \in pvReqs', NEW q \in pvReqs', r.kind # q.kind PROVE over
    BY <2>2, <2>6, <2>7, <2>13, <2>14, <2>15 DEF PvInv, ReqsInv
  <2>16. ReqsInv'
    BY <2>9, <2>14, <2>15 DEF ReqsInv
  <2> QED
    BY <2>4, <2>5, <2>11, <2>16 DEF PvInv
<1>2. ASSUME NEW act \in {"count", "down"}, NEW n \in Nat, NEW scaled \in BOOLEAN, act = "down" => ~scaled,
             pvCmds' = Append(pvCmds, Cmd(act, n, scaled)), UNCHANGED <<pvHouse, pvReqs, pvBox>>
      PROVE  PvInv'
  <2>1. CmdsInv' /\ CmdsGo /\ \A k \in DOMAIN pvCmds : pvCmds'[k] = pvCmds[k]
    BY <1>2, AppendGo DEF PvInv
  <2>2. HouseInv' /\ ReqsInv'
    BY <1>2, <2>1, HouseStands DEF PvInv
  <2>3. BoxInv'
    BY <1>2, <2>1, BoxStands DEF PvInv, CmdsGo
  <2> QED
    BY <2>1, <2>2, <2>3 DEF PvInv
<1>3. ASSUME DownAsked PROVE PvInv'
  BY <1>2, <1>3 DEF DownAsked
<1>4. ASSUME NEW n \in PvCounts, NEW scaled \in BOOLEAN, CountAsked(n, scaled) PROVE PvInv'
  <2>1. n \in Nat
    BY <1>4, LettersAssumption DEF CountAsked, ValidCount
  <2> QED
    BY <1>2, <1>4, <2>1 DEF CountAsked
<1> QED
  BY <1>1, <1>3, <1>4

\* The agent has ended a command, and what runs is of it, if it went well.
LEMMA EndedKept ==
    ASSUME PvInv, NEW i \in DOMAIN pvCmds, pvCmds[i].status = "queued", NEW outcome \in {"success", "failure"},
           Ends(i, outcome), NEW release, NEW file, NEW running,
           pvBox' = [backend |-> pvBox.backend, file |-> file, release |-> release, running |-> running,
                     doing |-> 0, ended |-> i],
           (pvCmds[i].act = "spec" \/ pvCmds[i].scaled) /\ outcome = "success" =>
                ValidCount(pvCmds[i].n) /\ running = Enabled(pvCmds[i].n, {})
    PROVE  PvInv'
<1>1. /\ CmdsInv' /\ CmdsGo /\ DOMAIN pvCmds' = DOMAIN pvCmds
      /\ pvCmds'[i].status = outcome
  BY EndsGo DEF PvInv, Ends
<1>2. HouseInv' /\ ReqsInv'
  BY <1>1, HouseStands DEF PvInv, Ends
<1>3. i \in Nat
  BY CmdsShape DEF PvInv
<1>4. pvCmds'[i].act = pvCmds[i].act /\ pvCmds'[i].n = pvCmds[i].n /\ pvCmds'[i].scaled = pvCmds[i].scaled
  BY <1>1 DEF CmdsGo
<1>5. BoxInv'
  BY <1>1, <1>3, <1>4 DEF BoxInv, BoxParts
<1> QED
  BY <1>1, <1>2, <1>5 DEF PvInv

\* and an agent reaches the count that it was asked for.
LEMMA ReachingKept ==
    ASSUME PvInv, NEW i \in DOMAIN pvCmds, pvCmds[i].status = "queued", ValidCount(pvCmds[i].n),
           NEW rc \in {0, 1}, NEW release, NEW was,
           Reaching(i, rc, [backend |-> pvBox.backend, file |-> pvBox.file, release |-> release, running |-> was,
                            doing |-> 0, ended |-> i])
    PROVE  PvInv'
<1>1. PICK n : n = pvCmds[i].n /\ RenderedCount(pvCmds[i]) = n
  BY DEF RenderedCount
<1>2. Ends(i, UpOutcome(rc)) /\ UpOutcome(rc) \in {"success", "failure"}
  BY DEF Reaching, UpOutcome
<1>3. CASE rc = 0
  <2>1. pvBox' = [backend |-> pvBox.backend, file |-> pvBox.file, release |-> release, running |-> Enabled(n, {}),
                  doing |-> 0, ended |-> i]
    BY <1>1, <1>3 DEF Reaching
  <2> QED
    BY <1>1, <1>2, <2>1, EndedKept
<1>4. CASE rc = 1
  <2>1. UpOutcome(rc) = "failure"
    BY <1>4 DEF UpOutcome
  <2>2. \E reached \in {0, 2} : pvBox' = [backend |-> pvBox.backend, file |-> pvBox.file, release |-> release,
                  running |-> Started(n, reached), doing |-> 0, ended |-> i]
    BY <1>1, <1>4 DEF Reaching
  <2> QED
    BY <1>1, <1>2, <2>1, <2>2, EndedKept
<1> QED
  BY <1>3, <1>4

\* What the agent does with a command that it takes.
LEMMA TakenKept ==
    ASSUME PvInv, NEW i \in DOMAIN pvCmds, NextCommand(i),
           ConfigRefused(i) \/ NoChange(i) \/ Generated(i) \/ HelmUpgrade(i) \/ TornDown(i)
    PROVE  PvInv'
<1>1. pvBox.doing = 0 /\ pvCmds[i].status = "queued"
  BY DEF NextCommand, InWork
<1>2. CASE ConfigRefused(i)
  <2>1. pvBox' = [backend |-> pvBox.backend, file |-> pvBox.file, release |-> pvBox.release, running |-> pvBox.running,
                  doing |-> 0, ended |-> i]
    BY <1>1, <1>2 DEF ConfigRefused, PvInv, BoxInv, BoxParts
  <2>2. Ends(i, "failure")
    BY <1>2 DEF ConfigRefused
  <2> QED
    BY <1>1, <2>1, <2>2, EndedKept
<1>3. CASE NoChange(i)
  <2>1. pvBox' = [backend |-> pvBox.backend, file |-> pvBox.file, release |-> pvBox.release, running |-> pvBox.running,
                  doing |-> 0, ended |-> i]
    BY <1>1, <1>3 DEF NoChange, PvInv, BoxInv, BoxParts
  <2>2. Ends(i, "success") /\ pvCmds[i].act = "count" /\ ~pvCmds[i].scaled
    BY <1>3 DEF NoChange, NothingToDo
  <2> QED
    BY <1>1, <2>1, <2>2, EndedKept
<1>4. CASE Generated(i)
  <2>1. ValidCount(pvCmds[i].n) /\ pvCmds[i].act # "down" /\ i \in Nat
    BY <1>4, CmdsShape DEF Generated, ToReconcile, PvInv
  <2>2. ASSUME pvBox' = [pvBox EXCEPT !.doing = i, !.file = pvCmds[i].n], UNCHANGED <<pvHouse, pvReqs, pvCmds, pvFails>>
        PROVE  PvInv'
    <3>1. CmdsInv' /\ HouseInv' /\ ReqsInv'
      BY <2>2 DEF PvInv, CmdsInv, HouseInv, ReqsInv, Told
    <3>2. BoxParts' /\ pvBox'.doing = i /\ pvBox'.ended = pvBox.ended /\ pvBox'.running = pvBox.running
      BY <2>2 DEF PvInv, BoxInv, BoxParts
    <3>3. BoxInv'
      BY <1>1, <2>1, <2>2, <3>2 DEF PvInv, BoxInv
    <3> QED
      BY <3>1, <3>3 DEF PvInv
  <2>3. ASSUME Ends(i, "failure"),
               pvBox' \in {[pvBox EXCEPT !.ended = i], [pvBox EXCEPT !.ended = i, !.file = pvCmds[i].n]}
        PROVE  PvInv'
    <3>1. \E file : pvBox' = [backend |-> pvBox.backend, file |-> file, release |-> pvBox.release, running |-> pvBox.running,
                             doing |-> 0, ended |-> i]
      BY <1>1, <2>3 DEF PvInv, BoxInv, BoxParts
    <3> QED
      BY <1>1, <2>3, <3>1, EndedKept
  <2> QED
    BY <1>4, <2>2, <2>3 DEF Generated
<1>5. CASE HelmUpgrade(i)
  <2>1. ValidCount(pvCmds[i].n) /\ RenderedCount(pvCmds[i]) = pvCmds[i].n
    BY <1>5 DEF HelmUpgrade, ToReconcile, RenderedCount
  <2>2. PICK rc \in {0, 1} : Reaching(i, rc, [pvBox EXCEPT !.ended = i, !.release = RenderedCount(pvCmds[i])])
    BY <1>5 DEF HelmUpgrade
  <2>3. [pvBox EXCEPT !.ended = i, !.release = pvCmds[i].n] =
            [backend |-> pvBox.backend, file |-> pvBox.file, release |-> pvCmds[i].n, running |-> pvBox.running,
             doing |-> 0, ended |-> i]
    <3>1. PICK b, f, r, u, e : pvBox = [backend |-> b, file |-> f, release |-> r, running |-> u, doing |-> 0, ended |-> e]
      BY <1>1 DEF PvInv, BoxInv, BoxParts
    <3>2. pvBox.backend = b /\ pvBox.file = f /\ pvBox.running = u
      BY <3>1
    <3>3. [pvBox EXCEPT !.ended = i] = [backend |-> b, file |-> f, release |-> r, running |-> u, doing |-> 0, ended |-> i]
      BY <3>1
    <3>4. PICK box : box = [pvBox EXCEPT !.ended = i]
      OBVIOUS
    <3>5. box = [backend |-> b, file |-> f, release |-> r, running |-> u, doing |-> 0, ended |-> i]
      BY <3>3, <3>4, Zenon
    <3>6. [box EXCEPT !.release = pvCmds[i].n] =
              [backend |-> b, file |-> f, release |-> pvCmds[i].n, running |-> u, doing |-> 0, ended |-> i]
      BY <3>5
    <3> QED
      BY <3>2, <3>4, <3>6, Zenon
  <2>4. Reaching(i, rc, [backend |-> pvBox.backend, file |-> pvBox.file, release |-> pvCmds[i].n, running |-> pvBox.running,
             doing |-> 0, ended |-> i])
    BY <2>1, <2>2, <2>3, Zenon
  <2> QED
    BY <1>1, <2>1, <2>4, ReachingKept
<1>6. CASE TornDown(i)
  <2>1. PICK rc \in {0, 1} : (ComposeDown(i, rc) \/ HelmUninstall(i, rc)) /\ Ends(i, UpOutcome(rc))
    BY <1>6 DEF TornDown
  <2>2. pvCmds[i].act = "down" /\ ~pvCmds[i].scaled
    BY <2>1 DEF ComposeDown, HelmUninstall, PvInv, CmdsInv
  <2>3. UpOutcome(rc) \in {"success", "failure"}
    BY DEF UpOutcome
  <2>4. CASE ComposeDown(i, rc)
    <3>1. pvBox' = [backend |-> pvBox.backend, file |-> pvBox.file, release |-> pvBox.release,
                    running |-> IF rc = 0 THEN {} ELSE pvBox.running, doing |-> 0, ended |-> i]
      BY <1>1, <2>4 DEF ComposeDown, PvInv, BoxInv, BoxParts
    <3> QED
      BY <1>1, <2>1, <2>2, <2>3, <3>1, EndedKept
  <2>5. CASE HelmUninstall(i, rc)
    <3>1. pvBox' = [backend |-> pvBox.backend, file |-> pvBox.file, release |-> IF rc = 0 THEN 0 ELSE pvBox.release,
                    running |-> IF rc = 0 THEN {} ELSE pvBox.running, doing |-> 0, ended |-> i]
      BY <1>1, <2>5 DEF HelmUninstall, PvInv, BoxInv, BoxParts
    <3> QED
      BY <1>1, <2>1, <2>2, <2>3, <3>1, EndedKept
  <2> QED
    BY <2>1, <2>4, <2>5
<1> QED
  BY <1>2, <1>3, <1>4, <1>5, <1>6

\* The command in work comes to its end, or is lost.
LEMMA WorkKept ==
    ASSUME PvInv, ComposeUp \/ AgentDies
    PROVE  PvInv'
<1>1. PICK i : i = pvBox.doing
  OBVIOUS
<1>2. i # 0 /\ i \in DOMAIN pvCmds /\ pvCmds[i].status = "queued" /\ ValidCount(pvCmds[i].n)
  BY <1>1 DEF ComposeUp, AgentDies, InWork, PvInv, BoxInv
<1>3. CASE ComposeUp
  <2>1. PICK rc \in {0, 1} : Reaching(i, rc, [pvBox EXCEPT !.doing = 0, !.ended = i])
    BY <1>1, <1>3 DEF ComposeUp
  <2>2. [pvBox EXCEPT !.doing = 0, !.ended = i] =
            [backend |-> pvBox.backend, file |-> pvBox.file, release |-> pvBox.release, running |-> pvBox.running,
             doing |-> 0, ended |-> i]
    <3>1. PICK b, f, r, u, d, e : pvBox = [backend |-> b, file |-> f, release |-> r, running |-> u, doing |-> d, ended |-> e]
      BY DEF PvInv, BoxInv, BoxParts
    <3>2. pvBox.backend = b /\ pvBox.file = f /\ pvBox.release = r /\ pvBox.running = u
      BY <3>1
    <3>3. [pvBox EXCEPT !.doing = 0] = [backend |-> b, file |-> f, release |-> r, running |-> u, doing |-> 0, ended |-> e]
      BY <3>1
    <3>4. PICK box : box = [pvBox EXCEPT !.doing = 0]
      OBVIOUS
    <3>5. box = [backend |-> b, file |-> f, release |-> r, running |-> u, doing |-> 0, ended |-> e]
      BY <3>3, <3>4, Zenon
    <3>6. [box EXCEPT !.ended = i] = [backend |-> b, file |-> f, release |-> r, running |-> u, doing |-> 0, ended |-> i]
      BY <3>5
    <3> QED
      BY <3>2, <3>4, <3>6, Zenon
  <2>3. Reaching(i, rc, [backend |-> pvBox.backend, file |-> pvBox.file, release |-> pvBox.release,
                         running |-> pvBox.running, doing |-> 0, ended |-> i])
    BY <2>1, <2>2, Zenon
  <2> QED
    BY <1>2, <2>3, ReachingKept
<1>4. CASE AgentDies
  <2>1. /\ BoxParts' /\ pvBox'.doing = 0 /\ pvBox'.ended = 0
        /\ UNCHANGED <<pvHouse, pvReqs>> /\ pvCmds' = [pvCmds EXCEPT ![i].status = "dispatched"]
    BY <1>1, <1>4 DEF AgentDies, PvInv, BoxInv, BoxParts
  <2>2. CmdsInv' /\ CmdsGo
    BY <1>2, <2>1, EndsGo DEF PvInv
  <2>3. HouseInv' /\ ReqsInv'
    BY <2>1, <2>2, HouseStands DEF PvInv
  <2>4. BoxInv'
    BY <2>1 DEF PvInv, BoxInv
  <2> QED
    BY <2>2, <2>3, <2>4 DEF PvInv
<1> QED
  BY <1>3, <1>4

-----------------------------------------------------------------------------
\* An accepted definition has no two ranges, and no two lists, that meet.
LEMMA AcceptedArePart ==
    ASSUME NEW spec \in PvSpecs, Problems(AutoSpec(spec)) = {}
    PROVE  LET parts == IF Letterwise(spec) THEN [k \in DOMAIN spec.ranges |->
                                {l \in 1 .. Letters : spec.ranges[k][1] <= l /\ l <= spec.ranges[k][2]}]
                        ELSE spec.symbols
           IN \A j, k \in DOMAIN parts : j # k => parts[j] \cap parts[k] = {}
<1>1. PICK full : full = AutoSpec(spec)
  OBVIOUS
<1>2. full.policy = spec.policy /\ full.ranges = spec.ranges /\ full.symbols = spec.symbols
  BY <1>1, ProvisioningAssumption DEF AutoSpec
<1>3. ~(Letterwise(full) /\ Overlapping(full.ranges)) /\ ~(~Letterwise(full) /\ SymbolTwice(full.symbols))
  BY <1>1 DEF Problems
<1>4. spec.ranges \in Seq(Nat \X Nat)
  BY ProvisioningAssumption
<1>5. CASE Letterwise(spec)
  <2>1. \A j, k \in DOMAIN spec.ranges : j < k => Covers(spec.ranges[j]) \cap Covers(spec.ranges[k]) = {}
    BY <1>2, <1>3, <1>5 DEF Letterwise, Overlapping
  <2>2. ASSUME NEW j \in DOMAIN spec.ranges, NEW k \in DOMAIN spec.ranges, j # k
        PROVE  Covers(spec.ranges[j]) \cap Covers(spec.ranges[k]) = {}
    <3>1. j \in Nat /\ k \in Nat
      BY <1>4
    <3> QED
      BY <2>1, <2>2, <3>1
  <2>3. ASSUME NEW k \in DOMAIN spec.ranges
        PROVE  {l \in 1 .. Letters : spec.ranges[k][1] <= l /\ l <= spec.ranges[k][2]} \subseteq Covers(spec.ranges[k])
    <3>1. spec.ranges[k] \in Nat \X Nat
      BY <1>4
    <3> QED
      BY <3>1, LettersAssumption DEF Covers
  <2> QED
    BY <1>5, <2>2, <2>3
<1>6. CASE ~Letterwise(spec)
  BY <1>2, <1>3, <1>6 DEF Letterwise, SymbolTwice
<1> QED
  BY <1>5, <1>6

\* The invariant says what the run checks.
LEMMA PvHonest == ASSUME PvInv PROVE ProvisioningIsHonest
<1>1. AcceptedSpecsPartition
  BY AcceptedArePart DEF PvInv, HouseInv, AcceptedSpecsPartition
<1>2. HouseTellsItsCommand
  BY DEF PvInv, HouseInv, HouseTellsItsCommand, Told, Outcome
<1>3. RanIsDeployed
  <2>1. PICK e : e = pvBox.ended
    OBVIOUS
  <2>2. SUFFICES ASSUME e # 0, pvCmds[e].act = "spec" \/ pvCmds[e].scaled, pvCmds[e].status = "success"
                 PROVE  /\ pvBox.running = DOMAIN ShardServices(pvCmds[e].n) \cup {<<"gateway", 0>>}
                              \cup Sims \X {0} \cup {"control-api", "watchdog", "web-ui"} \X {0}
                        /\ ComposeIsWhole(pvCmds[e].n, {"providers"})
                        /\ RoutersAgree(pvCmds[e].n)
    BY <2>1, Zenon DEF RanIsDeployed
  <2>3. pvCmds[e].n \in 1 .. Letters /\ pvBox.running = Enabled(pvCmds[e].n, {})
    BY <2>1, <2>2 DEF PvInv, BoxInv, ValidCount
  <2> QED
    BY <2>3, UpStarts, UpIsWhole, FourRoutersAgree, Zenon
<1> QED
  BY <1>1, <1>2, <1>3 DEF ProvisioningIsHonest

\* No house, and nothing on the cluster.
LEMMA PvStarts == PvInit => PvInv
  BY DEF PvInit, PvStart, PvInv, CmdsInv, HouseInv, ReqsInv, BoxInv, BoxParts, NoSpec

\* routers/tickhouse.py, provisioner.py, backends.py: for every set of definitions and every
\* number of letters, an accepted definition sends no letter and no symbol to two shards, the
\* status of a house is what became of its last command, or, where a status request met a
\* request to provision or one for an earlier house of the number, of one of the commands, and
\* a cluster whose last command was reported as a success runs all its services, whatever
\* fails and whenever the agent dies.
THEOREM HousesAreToldOf == ProvisioningSpec => []ProvisioningIsHonest
<1>1. PvInv /\ [PvNext]_pvVars => PvInv'
  <2> SUFFICES ASSUME PvInv, [PvNext]_pvVars PROVE PvInv'
    OBVIOUS
  <2>1. CASE UNCHANGED pvVars
    BY <2>1 DEF pvVars, PvInv, CmdsInv, HouseInv, ReqsInv, BoxInv, BoxParts, Told
  <2>2. CASE PvNext
    BY <2>2, HouseKept, AskedKept, TakenKept, WorkKept DEF PvNext
  <2> QED
    BY <2>1, <2>2
<1>2. PvInv => ProvisioningIsHonest
  BY PvHonest
<1> QED
  BY <1>1, <1>2, PvStarts, PTL DEF ProvisioningSpec

-----------------------------------------------------------------------------
(* The gateway: what holds after every step *)

GwEnds == {GwFree, GwEnded, GwCaller, GwGuest}
GwSpecials == {"health", "lag", "metrics"}
GwCalls == [do : {"fetch", "open", "rows"}, of : GwKeys]
GwClients == [n : {0} \cup GwNumbers, at : {"idle", "calling", "defaulted"}, kind : GwSpecials, tries : 0 .. 2,
              faults : Nat]

\* What each variable is.
GwShape ==
    /\ gwFd \in [GwNumbers -> GwKeys \cup GwEnds]
    /\ DOMAIN gwConn \subseteq GwKeys /\ gwConn \in [DOMAIN gwConn -> GwNumbers]
    /\ gwStaff \in [up : SUBSET GwKeys, steady : [GwKeys -> 0 .. 2], reused : BOOLEAN]
    /\ gwCaller \in GwClients

\* Which number belongs to whom.
GwAstray(n) == gwFd[n] = GwCaller \/ (gwFd[n] = GwEnded /\ \A q \in DOMAIN gwConn : gwConn[q] # n)
GwLinks ==
    /\ \A n \in GwNumbers : gwFd[n] \in GwKeys => gwFd[n] \in DOMAIN gwConn /\ gwConn[gwFd[n]] = n
    /\ \A n \in GwNumbers : gwFd[n] = GwCaller => gwCaller.n = n
    /\ \A m, n \in GwNumbers : GwAstray(m) /\ GwAstray(n) => m = n
    /\ \A m, n \in GwNumbers : gwFd[m] = GwGuest /\ gwFd[n] = GwGuest => m = n
    /\ gwReq.at # "serving" => \A n \in GwNumbers : gwFd[n] \notin {GwEnded, GwGuest}
    /\ ~gwStaff.reused => \A p \in DOMAIN gwConn : gwFd[gwConn[p]] \in {p, GwFree, GwEnded}

GwSound(p) == p \in DOMAIN gwConn => gwFd[gwConn[p]] = p
GwUnasked(p) == gwReq.at = "serving" /\ gwReq.kind = "health"
              /\ \E k \in DOMAIN gwReq.todo : gwReq.todo[k].do = "fetch" /\ gwReq.todo[k].of = p

\* A process that has been up since it was last asked is known by a number that is its own.
GwFresh ==
    /\ \A p \in GwKeys : gwStaff.steady[p] # 0 => p \in gwStaff.up
    /\ ~gwStaff.reused =>
          \A p \in GwKeys : gwStaff.steady[p] = 2 \/ (gwStaff.steady[p] = 1 /\ ~GwUnasked(p)) => GwSound(p)

GwBroken == IF gwCaller.n # 0 /\ gwFd[gwCaller.n] # GwCaller THEN 1 ELSE 0
GwCall ==
    /\ gwCaller.faults >= GwBroken
    /\ gwCaller.at = "calling" => gwCaller.tries \in {0, 1} /\ gwCaller.faults >= gwCaller.tries + GwBroken
    /\ gwCaller.at = "defaulted" => gwCaller.faults >= 2 /\ gwCaller.n = 0

\* Every call for rows comes after that for its handle.
GwPrepared(todo, got) ==
    \A k \in DOMAIN todo : todo[k].do = "rows" =>
        todo[k].of \in got \/ \E j \in 1 .. k - 1 : todo[j].do = "open" /\ todo[j].of = todo[k].of

GwReqShape ==
    /\ gwReq.at \in {"idle", "serving", "answered"}
    /\ gwReq.at = "idle" => gwReq = GwIdle
    /\ gwReq.at # "idle" =>
          /\ gwReq = [at |-> gwReq.at, kind |-> gwReq.kind, from |-> gwReq.from, todo |-> gwReq.todo, held |-> gwReq.held,
                      got |-> gwReq.got, failed |-> gwReq.failed, ready |-> gwReq.ready, sound |-> gwReq.sound]
          /\ gwReq.kind \in GwSpecials \cup {"query"} /\ gwReq.from \in {0} \cup GwNumbers
          /\ gwReq.todo \in Seq(GwCalls) /\ gwReq.failed \in BOOLEAN /\ gwReq.sound \in BOOLEAN
          /\ \A k \in DOMAIN gwReq.todo : gwReq.todo[k].do # (IF gwReq.kind = "query" THEN "fetch" ELSE "rows")
          /\ GwPrepared(gwReq.todo, DOMAIN gwReq.held)

GwGot ==
    gwReq.at # "idle" =>
       /\ \A p \in DOMAIN gwReq.got : LET by == gwReq.got[p] IN
             /\ p \in GwKeys /\ by \in GwKeys \cup {GwEnded}
             /\ ~gwStaff.reused => by \in {p, GwEnded}
             /\ gwReq.kind # "query" /\ by # GwEnded => by[1] = p[1]
             /\ gwReq.kind = "health" /\ ~gwStaff.reused /\ gwStaff.steady[p] = 2 => by = p
             /\ gwReq.kind = "query" /\ ~gwStaff.reused /\ p \in gwReq.ready => by = p
       /\ gwReq.failed => gwReq.kind = "query" /\ (gwReq.sound => gwStaff.reused)

GwQuery ==
    gwReq.at = "serving" /\ gwReq.kind = "query" =>
       /\ gwReq.ready \subseteq gwStaff.up
       /\ gwReq.sound => \A p \in DOMAIN gwConn : GwSound(p)
       /\ \A p \in DOMAIN gwReq.held :
             \/ gwReq.held[p] = 0 /\ p \notin gwReq.ready
             \/ p \in DOMAIN gwConn /\ gwConn[p] = gwReq.held[p]

GwInv == GwShape /\ GwLinks /\ GwFresh /\ GwCall /\ GwReqShape /\ GwGot /\ GwQuery

-----------------------------------------------------------------------------
(* The gateway: its numbers, and the calls of a request in service *)

LEMMA GwKeysFinite == IsFiniteSet(GwKeys) /\ Cardinality(GwKeys) \in Nat /\ GwShardCount \in Nat \ {0}
    <1>1. GwShardCount \in Nat \ {0}
        BY GatewayAssumption, LettersAssumption DEF ValidCount
    <1>2. IsFiniteSet(ShardIds(GwShardCount))
        BY <1>1, FS_Interval DEF ShardIds
    <1>3. IsFiniteSet(ShardTiers)
        <2>1. IsFiniteSet({"tp"}) /\ IsFiniteSet({"tp", "wdb"}) /\ IsFiniteSet({"tp", "wdb", "rdb"})
                /\ IsFiniteSet({"tp", "wdb", "rdb", "idb"})
            <3>1. IsFiniteSet({"tp"})
                BY FS_Singleton
            <3>2. IsFiniteSet({"tp"} \cup {"wdb"})
                BY <3>1, FS_AddElement
            <3>3. IsFiniteSet(({"tp"} \cup {"wdb"}) \cup {"rdb"})
                BY <3>2, FS_AddElement
            <3>4. IsFiniteSet((({"tp"} \cup {"wdb"}) \cup {"rdb"}) \cup {"idb"})
                BY <3>3, FS_AddElement
            <3>5. /\ {"tp"} \cup {"wdb"} = {"tp", "wdb"}
                  /\ ({"tp"} \cup {"wdb"}) \cup {"rdb"} = {"tp", "wdb", "rdb"}
                  /\ (({"tp"} \cup {"wdb"}) \cup {"rdb"}) \cup {"idb"} = {"tp", "wdb", "rdb", "idb"}
                OBVIOUS
            <3> QED
                BY <3>1, <3>2, <3>3, <3>4, <3>5
        <2>2. IsFiniteSet({"tp", "wdb", "rdb", "idb"} \cup {"hdb"})
            BY <2>1, FS_AddElement
        <2>3. {"tp", "wdb", "rdb", "idb"} \cup {"hdb"} = ShardTiers
            BY DEF ShardTiers
        <2> QED
            BY <2>2, <2>3
    <1>4. IsFiniteSet(GwKeys)
        BY <1>2, <1>3, FS_Product DEF GwKeys
    <1> QED
        BY <1>1, <1>4, FS_CardinalityType

\* What a number is connected to: a process, nothing, or one of the others.
LEMMA EndsApart ==
    /\ GwEnds \cap GwKeys = {}
    /\ GwFree # GwEnded /\ GwFree # GwCaller /\ GwFree # GwGuest
    /\ GwEnded # GwCaller /\ GwEnded # GwGuest /\ GwCaller # GwGuest
    BY DEF GwEnds, GwKeys, ShardTiers, GwFree, GwEnded, GwCaller, GwGuest

LEMMA NumbersOf == GwNumbers \subseteq Nat \ {0} /\ IsFiniteSet(GwNumbers) /\ Cardinality(GwNumbers) = Cardinality(GwKeys) + 2
    <1>1. PICK n \in Nat : n = Cardinality(GwKeys) + 2
        BY GwKeysFinite
    <1>2. GwNumbers = 1 .. n
        BY <1>1, GatewayAssumption
    <1>3. IsFiniteSet(1 .. n) /\ Cardinality(1 .. n) = n
        BY <1>1, FS_Interval
    <1> QED
        BY <1>1, <1>2, <1>3

\* There is a number for the next connection, if somebody that could have one has none.
LEMMA SomeNumberIsFree ==
    ASSUME GwShape, GwLinks, NEW T \in SUBSET (GwKeys \cup {GwCaller, GwGuest}), T # GwKeys \cup {GwCaller, GwGuest},
           DOMAIN gwConn \subseteq T,
           \A n \in GwNumbers : GwAstray(n) => GwCaller \in T,
           \A n \in GwNumbers : gwFd[n] = GwGuest => GwGuest \in T
    PROVE  Lowest(gwFd) \in GwNumbers /\ gwFd[Lowest(gwFd)] = GwFree
    <1> DEFINE All == GwKeys \cup {GwCaller, GwGuest}
               F == {n \in GwNumbers : gwFd[n] = GwFree}
               f == [n \in GwNumbers |-> IF GwAstray(n) THEN GwCaller ELSE IF gwFd[n] = GwGuest THEN GwGuest
                                         ELSE CHOOSE q \in DOMAIN gwConn : gwConn[q] = n]
    <1>1. IsFiniteSet(All) /\ Cardinality(All) = Cardinality(GwKeys) + 2
        <2>1. GwCaller \notin GwKeys /\ GwGuest \notin GwKeys /\ GwGuest # GwCaller
            BY EndsApart DEF GwEnds
        <2>2. IsFiniteSet(GwKeys \cup {GwCaller}) /\ Cardinality(GwKeys \cup {GwCaller}) = Cardinality(GwKeys) + 1
            BY <2>1, GwKeysFinite, FS_AddElement
        <2>3. /\ IsFiniteSet((GwKeys \cup {GwCaller}) \cup {GwGuest})
              /\ Cardinality((GwKeys \cup {GwCaller}) \cup {GwGuest}) = Cardinality(GwKeys \cup {GwCaller}) + 1
            BY <2>1, <2>2, FS_AddElement
        <2>4. (GwKeys \cup {GwCaller}) \cup {GwGuest} = All
            OBVIOUS
        <2> QED
            BY <2>2, <2>3, <2>4, GwKeysFinite
    <1>2. IsFiniteSet(T) /\ Cardinality(T) < Cardinality(GwNumbers)
        <2>1. T \in SUBSET All /\ T # All
            OBVIOUS
        <2> HIDE DEF All
        <2>2. IsFiniteSet(T) /\ Cardinality(T) <= Cardinality(All) /\ Cardinality(T) # Cardinality(All)
            BY <1>1, <2>1, FS_Subset
        <2>3. Cardinality(T) \in Nat /\ Cardinality(All) \in Nat
            BY <1>1, <2>2, FS_CardinalityType
        <2> QED
            BY <1>1, <2>2, <2>3, NumbersOf
    <1>3. F # {}
        <2>1. SUFFICES ASSUME F = {} PROVE FALSE
            OBVIOUS
        <2>2. ASSUME NEW n \in GwNumbers, ~GwAstray(n), gwFd[n] # GwGuest
              PROVE  \E q \in DOMAIN gwConn : gwConn[q] = n
            <3>1. gwFd[n] \in GwKeys \cup {GwEnded}
                BY <2>1, <2>2 DEF GwShape, GwEnds, GwAstray
            <3> QED
                BY <2>2, <3>1 DEF GwLinks, GwAstray
        <2>3. f \in [GwNumbers -> T]
            <3>1. ASSUME NEW n \in GwNumbers PROVE f[n] \in T
                <4>1. CASE GwAstray(n)
                    BY <4>1
                <4>2. CASE ~GwAstray(n) /\ gwFd[n] = GwGuest
                    BY <4>2
                <4>3. CASE ~GwAstray(n) /\ gwFd[n] # GwGuest
                    <5>1. \E q \in DOMAIN gwConn : gwConn[q] = n
                        BY <2>2, <4>3
                    <5>2. (CHOOSE q \in DOMAIN gwConn : gwConn[q] = n) \in DOMAIN gwConn
                        BY <5>1
                    <5> QED
                        BY <4>3, <5>2
                <4> QED
                    BY <4>1, <4>2, <4>3
            <3> QED
                BY <3>1
        <2>4. PICK m \in GwNumbers, n \in GwNumbers : m # n /\ f[m] = f[n]
            <3> HIDE DEF f
            <3>1. PICK g : g = f
                OBVIOUS
            <3>2. g \in [GwNumbers -> T]
                BY <2>3, <3>1
            <3>3. IsFiniteSet(GwNumbers) /\ IsFiniteSet(T) /\ Cardinality(T) < Cardinality(GwNumbers)
                BY <1>2, NumbersOf
            <3>4. \E m, n \in GwNumbers : m # n /\ g[m] = g[n]
                BY <3>2, <3>3, FS_PigeonHole, Zenon
            <3> QED
                BY <3>1, <3>4
        <2>5. GwCaller \notin DOMAIN gwConn /\ GwGuest \notin DOMAIN gwConn /\ GwCaller # GwGuest
            BY EndsApart DEF GwShape, GwEnds
        <2>6. ASSUME NEW k \in GwNumbers
              PROVE  \/ GwAstray(k) /\ f[k] = GwCaller
                     \/ gwFd[k] = GwGuest /\ f[k] = GwGuest
                     \/ f[k] \in DOMAIN gwConn /\ gwConn[f[k]] = k
            <3>1. CASE ~GwAstray(k) /\ gwFd[k] # GwGuest
                <4>1. \E q \in DOMAIN gwConn : gwConn[q] = k
                    BY <2>2, <3>1
                <4>2. f[k] = CHOOSE q \in DOMAIN gwConn : gwConn[q] = k
                    BY <3>1
                <4> QED
                    BY <4>1, <4>2
            <3> QED
                BY <3>1
        <2> HIDE DEF f, F
        <2> QED
            BY <2>4, <2>5, <2>6 DEF GwLinks
    <1>4. F \subseteq Nat
        BY NumbersOf
    <1>5. PICK x \in F : \A y \in F : x <= y
        BY <1>3, <1>4, LeastNat
    <1>6. Lowest(gwFd) \in F
        <2>1. Lowest(gwFd) = CHOOSE m \in F : \A n \in F : m <= n
            BY DEF Lowest, Min
        <2> HIDE DEF F
        <2> QED
            BY <1>5, <2>1
    <1> QED
        BY <1>6

\* A request reaches a process that it had no number for, or forgets the number it had.
GwJoins(p) ==
    /\ Connects(p) /\ gwConn' = With(gwConn, p, Lowest(gwFd)) /\ gwFd' = [gwFd EXCEPT ![Lowest(gwFd)] = p]
    /\ gwStaff' = IF GivesAway(gwConn, gwFd) THEN [gwStaff EXCEPT !.reused = TRUE] ELSE gwStaff
    /\ UNCHANGED gwCaller
GwForgets(p) ==
    /\ p \in DOMAIN gwConn /\ gwConn' = Without(gwConn, p) /\ gwFd' = [gwFd EXCEPT ![gwConn[p]] = GwFree]
    /\ gwCaller' = Hung(gwConn[p]) /\ UNCHANGED gwStaff

LEMMA JoinFacts ==
    ASSUME GwShape, GwLinks, NEW p \in GwKeys, GwJoins(p)
    PROVE  \E n \in GwNumbers :
              /\ gwFd[n] = GwFree /\ gwFd' = [gwFd EXCEPT ![n] = p]
              /\ p \notin DOMAIN gwConn /\ DOMAIN gwConn' = DOMAIN gwConn \cup {p} /\ gwConn'[p] = n
              /\ \A q \in DOMAIN gwConn : gwConn'[q] = gwConn[q]
              /\ ~gwStaff'.reused => ~gwStaff.reused /\ \A q \in DOMAIN gwConn : gwConn[q] # n
              /\ gwStaff'.up = gwStaff.up /\ gwStaff'.steady = gwStaff.steady /\ gwStaff'.reused \in BOOLEAN
    <1>1. p \notin DOMAIN gwConn
        BY DEF GwJoins, Connects
    <1>2. Lowest(gwFd) \in GwNumbers /\ gwFd[Lowest(gwFd)] = GwFree
        <2> DEFINE T == (GwKeys \ {p}) \cup {GwCaller, GwGuest}
        <2>1. T \in SUBSET (GwKeys \cup {GwCaller, GwGuest}) /\ GwCaller \in T /\ GwGuest \in T
            OBVIOUS
        <2>2. T # GwKeys \cup {GwCaller, GwGuest}
            BY EndsApart DEF GwEnds
        <2>3. DOMAIN gwConn \subseteq T
            BY <1>1 DEF GwShape
        <2> HIDE DEF T
        <2> QED
            BY <2>1, <2>2, <2>3, SomeNumberIsFree
    <1>3. DOMAIN gwConn' = DOMAIN gwConn \cup {p} /\ gwConn'[p] = Lowest(gwFd)
            /\ \A q \in DOMAIN gwConn : gwConn'[q] = gwConn[q]
        BY <1>1 DEF GwJoins, With
    <1>4. /\ ~gwStaff'.reused => ~gwStaff.reused /\ \A q \in DOMAIN gwConn : gwConn[q] # Lowest(gwFd)
          /\ gwStaff'.up = gwStaff.up /\ gwStaff'.steady = gwStaff.steady /\ gwStaff'.reused \in BOOLEAN
        <2>1. CASE GivesAway(gwConn, gwFd)
            <3>1. gwStaff' = [gwStaff EXCEPT !.reused = TRUE]
                BY <2>1 DEF GwJoins
            <3> QED
                BY <3>1 DEF GwShape
        <2>2. CASE ~GivesAway(gwConn, gwFd)
            <3>1. gwStaff' = gwStaff
                BY <2>2 DEF GwJoins
            <3> QED
                BY <2>2, <3>1 DEF GwShape, GivesAway
        <2> QED
            BY <2>1, <2>2
    <1> QED
        BY <1>1, <1>2, <1>3, <1>4 DEF GwJoins

LEMMA JoinKeeps ==
    ASSUME GwShape, GwLinks, GwCall, NEW p \in GwKeys, GwJoins(p), gwReq.at = "serving", gwReq'.at = "serving"
    PROVE  GwShape' /\ GwLinks' /\ GwCall'
    <1>1. PICK n \in GwNumbers :
              /\ gwFd[n] = GwFree /\ gwFd' = [gwFd EXCEPT ![n] = p]
              /\ p \notin DOMAIN gwConn /\ DOMAIN gwConn' = DOMAIN gwConn \cup {p} /\ gwConn'[p] = n
              /\ \A q \in DOMAIN gwConn : gwConn'[q] = gwConn[q]
              /\ ~gwStaff'.reused => ~gwStaff.reused /\ \A q \in DOMAIN gwConn : gwConn[q] # n
              /\ gwStaff'.up = gwStaff.up /\ gwStaff'.steady = gwStaff.steady /\ gwStaff'.reused \in BOOLEAN
        BY JoinFacts
    <1>2. gwFd' \in [GwNumbers -> GwKeys \cup GwEnds]
        BY <1>1 DEF GwShape
    <1>3. \A k \in GwNumbers : gwFd'[k] = IF k = n THEN p ELSE gwFd[k]
        BY <1>1 DEF GwShape
    <1>4. p \notin GwEnds /\ UNCHANGED gwCaller
        BY EndsApart DEF GwJoins
    <1>5. GwShape'
        <2>1. gwConn' \in [DOMAIN gwConn' -> GwNumbers]
            <3>1. gwConn' = [q \in DOMAIN gwConn' |-> gwConn'[q]]
                BY DEF GwJoins, With
            <3>2. \A q \in DOMAIN gwConn' : gwConn'[q] \in GwNumbers
                BY <1>1 DEF GwShape
            <3> QED
                BY <3>1, <3>2
        <2>2. gwStaff' \in [up : SUBSET GwKeys, steady : [GwKeys -> 0 .. 2], reused : BOOLEAN]
            BY DEF GwShape, GwJoins
        <2> QED
            BY <1>1, <1>2, <1>4, <2>1, <2>2 DEF GwShape
    <1>6. GwLinks'
        <2>1. \A k \in GwNumbers : gwFd'[k] \in GwKeys => gwFd'[k] \in DOMAIN gwConn' /\ gwConn'[gwFd'[k]] = k
            BY <1>1, <1>3 DEF GwLinks
        <2>2. \A k \in GwNumbers : gwFd'[k] = GwCaller => gwCaller'.n = k
            BY <1>3, <1>4 DEF GwLinks, GwEnds
        <2>3. \A k \in GwNumbers : GwAstray(k)' => GwAstray(k)
            BY <1>1, <1>3, <1>4 DEF GwAstray, GwEnds
        <2>4. \A k, m \in GwNumbers : gwFd'[k] = GwGuest /\ gwFd'[m] = GwGuest => k = m
            BY <1>3, <1>4 DEF GwLinks, GwEnds
        <2>5. ~gwStaff'.reused => \A q \in DOMAIN gwConn' : gwFd'[gwConn'[q]] \in {q, GwFree, GwEnded}
            BY <1>1, <1>3 DEF GwLinks, GwShape
        <2> QED
            BY <2>1, <2>2, <2>3, <2>4, <2>5 DEF GwLinks
    <1>7. GwBroken' = GwBroken
        BY <1>1, <1>3, <1>4, EndsApart DEF GwBroken, GwShape, GwEnds, GwClients
    <1>8. GwCall'
        BY <1>4, <1>7 DEF GwCall
    <1> QED
        BY <1>5, <1>6, <1>8

LEMMA ForgetFacts ==
    ASSUME GwShape, NEW p \in GwKeys, GwForgets(p)
    PROVE  /\ p \in DOMAIN gwConn /\ gwConn[p] \in GwNumbers
           /\ gwFd' = [k \in GwNumbers |-> IF k = gwConn[p] THEN GwFree ELSE gwFd[k]]
           /\ DOMAIN gwConn' = DOMAIN gwConn \ {p} /\ gwConn' \in [DOMAIN gwConn' -> GwNumbers]
           /\ \A q \in DOMAIN gwConn' : gwConn'[q] = gwConn[q]
           /\ UNCHANGED gwStaff
           /\ gwCaller' = IF gwFd[gwConn[p]] = GwCaller THEN [gwCaller EXCEPT !.faults = @ + 1] ELSE gwCaller
    BY DEF GwShape, GwForgets, Without, Hung

LEMMA ForgetKeeps ==
    ASSUME GwShape, GwLinks, GwCall, NEW p \in GwKeys, GwForgets(p), gwReq.at = "serving", gwReq'.at = "serving"
    PROVE  GwShape' /\ GwLinks' /\ GwCall'
    <1>1. PICK n \in GwNumbers : n = gwConn[p]
        BY ForgetFacts
    <1>2. /\ p \in DOMAIN gwConn /\ gwFd' = [k \in GwNumbers |-> IF k = n THEN GwFree ELSE gwFd[k]]
          /\ DOMAIN gwConn' = DOMAIN gwConn \ {p} /\ gwConn' \in [DOMAIN gwConn' -> GwNumbers]
          /\ \A q \in DOMAIN gwConn' : gwConn'[q] = gwConn[q]
          /\ UNCHANGED gwStaff
          /\ gwCaller' = IF gwFd[n] = GwCaller THEN [gwCaller EXCEPT !.faults = @ + 1] ELSE gwCaller
        BY <1>1, ForgetFacts
    <1>3. GwShape'
        <2>1. gwFd' \in [GwNumbers -> GwKeys \cup GwEnds]
            BY <1>2 DEF GwShape, GwEnds
        <2>2. gwCaller' \in GwClients
            BY <1>2 DEF GwShape, GwClients
        <2> QED
            BY <1>2, <2>1, <2>2 DEF GwShape
    <1>4. GwLinks'
        <2>1. \A k \in GwNumbers : gwFd'[k] \in GwKeys => gwFd'[k] \in DOMAIN gwConn' /\ gwConn'[gwFd'[k]] = k
            BY <1>1, <1>2, EndsApart DEF GwLinks, GwEnds
        <2>2. gwCaller'.n = gwCaller.n
            BY <1>2 DEF GwShape
        <2>3. \A k \in GwNumbers : gwFd'[k] = GwCaller => gwCaller'.n = k
            BY <1>2, <2>2, EndsApart DEF GwLinks
        <2>4. \A k \in GwNumbers : GwAstray(k)' => GwAstray(k)
            BY <1>1, <1>2, EndsApart DEF GwAstray
        <2>5. \A k, m \in GwNumbers : gwFd'[k] = GwGuest /\ gwFd'[m] = GwGuest => k = m
            BY <1>2, EndsApart DEF GwLinks
        <2>6. ~gwStaff'.reused => \A q \in DOMAIN gwConn' : gwFd'[gwConn'[q]] \in {q, GwFree, GwEnded}
            BY <1>2 DEF GwLinks, GwShape
        <2> QED
            BY <2>1, <2>3, <2>4, <2>5, <2>6 DEF GwLinks
    <1>5. GwCall'
        <2>1. CASE gwFd[n] = GwCaller
            <3>1. gwCaller' = [gwCaller EXCEPT !.faults = @ + 1]
                BY <1>2, <2>1
            <3>2. gwCaller.n = n /\ gwCaller.n # 0
                BY <2>1, NumbersOf DEF GwLinks
            <3>3. GwBroken = 0 /\ GwBroken' \in {0, 1}
                BY <2>1, <3>2 DEF GwBroken
            <3> QED
                BY <3>1, <3>3 DEF GwCall, GwShape, GwClients
        <2>2. CASE gwFd[n] # GwCaller
            <3>1. UNCHANGED gwCaller
                BY <1>2, <2>2
            <3>2. GwBroken' = GwBroken
                BY <1>2, <2>2, <3>1, EndsApart DEF GwBroken, GwShape, GwClients
            <3> QED
                BY <3>1, <3>2 DEF GwCall
        <2> QED
            BY <2>1, <2>2
    <1> QED
        BY <1>3, <1>4, <1>5

\* The next call of a request, and the calls that remain.
LEMMA NextCall ==
    ASSUME GwReqShape, gwReq.at = "serving", gwReq.todo # <<>>
    PROVE  /\ GwNow(gwReq) \in GwCalls /\ GwNow(gwReq) = gwReq.todo[1] /\ 1 \in DOMAIN gwReq.todo
           /\ Tail(gwReq.todo) \in Seq(GwCalls)
           /\ \A k \in DOMAIN Tail(gwReq.todo) : k \in Nat /\ k + 1 \in DOMAIN gwReq.todo /\ Tail(gwReq.todo)[k] = gwReq.todo[k + 1]
           /\ \A k \in DOMAIN gwReq.todo : k # 1 => k - 1 \in DOMAIN Tail(gwReq.todo) /\ Tail(gwReq.todo)[k - 1] = gwReq.todo[k]
    <1>1. PICK s \in Seq(GwCalls) : s = gwReq.todo
        BY DEF GwReqShape
    <1>2. s # <<>>
        BY <1>1
    <1>3. /\ Head(s) \in GwCalls /\ Head(s) = s[1] /\ 1 \in DOMAIN s
          /\ Tail(s) \in Seq(GwCalls)
          /\ \A k \in DOMAIN Tail(s) : k \in Nat /\ k + 1 \in DOMAIN s /\ Tail(s)[k] = s[k + 1]
          /\ \A k \in DOMAIN s : k # 1 => k - 1 \in DOMAIN Tail(s) /\ Tail(s)[k - 1] = s[k]
        <2>1. Len(s) \in Nat \ {0} /\ DOMAIN s = 1 .. Len(s) /\ DOMAIN Tail(s) = 1 .. Len(s) - 1
            BY <1>2
        <2> QED
            BY <1>2, <2>1
    <1> QED
        BY <1>1, <1>3 DEF GwNow

LEMMA PreparedGoes ==
    ASSUME GwReqShape, gwReq.at = "serving", gwReq.todo # <<>>, NEW H, DOMAIN gwReq.held \subseteq H,
           GwNow(gwReq).do = "open" => GwNow(gwReq).of \in H
    PROVE  GwPrepared(Tail(gwReq.todo), H)
    <1>0. PICK s \in Seq(GwCalls) : s = gwReq.todo
        BY DEF GwReqShape
    <1>1. PICK t : s = gwReq.todo /\ t = Tail(s)
        BY <1>0
    <1>2. /\ GwNow(gwReq) = s[1]
          /\ \A k \in DOMAIN t : k \in Nat /\ k + 1 \in DOMAIN s /\ t[k] = s[k + 1]
          /\ \A k \in DOMAIN s : k # 1 => k - 1 \in DOMAIN t /\ t[k - 1] = s[k]
        BY <1>1, NextCall
    <1>3. GwPrepared(s, DOMAIN gwReq.held)
        BY <1>1 DEF GwReqShape
    <1>4. ASSUME NEW k \in DOMAIN t, t[k].do = "rows", t[k].of \notin H
          PROVE  \E j \in 1 .. k - 1 : t[j].do = "open" /\ t[j].of = t[k].of
        <2>1. k \in Nat /\ k + 1 \in DOMAIN s /\ t[k] = s[k + 1]
            BY <1>2
        <2>2. PICK j \in 1 .. (k + 1) - 1 : s[j].do = "open" /\ s[j].of = t[k].of
            BY <1>3, <1>4, <2>1 DEF GwPrepared
        <2>3. j # 1
            BY <1>1, <1>2, <1>4, <2>2
        <2>4. j \in DOMAIN s
            <3>1. DOMAIN s = 1 .. Len(s) /\ Len(s) \in Nat
                OBVIOUS
            <3>2. PICK n \in Nat : n = Len(s)
                BY <3>1
            <3> QED
                BY <2>1, <2>2, <3>1, <3>2
        <2>5. j - 1 \in DOMAIN t /\ t[j - 1] = s[j]
            BY <1>2, <2>3, <2>4
        <2>6. j - 1 \in 1 .. k - 1
            BY <2>1, <2>2, <2>3
        <2> QED
            BY <2>2, <2>5, <2>6
    <1> QED
        BY <1>1, <1>4 DEF GwPrepared

\* A request has made a call: it goes on to the next one.
LEMMA RequestGoes ==
    ASSUME GwReqShape, gwReq.at = "serving", gwReq.todo # <<>>, NEW H, NEW G,
           gwReq' = [gwReq EXCEPT !.todo = Tail(@), !.held = H, !.got = G],
           DOMAIN gwReq.held \subseteq DOMAIN H, GwNow(gwReq).do = "open" => GwNow(gwReq).of \in DOMAIN H
    PROVE  /\ GwReqShape'
           /\ gwReq'.at = "serving" /\ gwReq'.kind = gwReq.kind /\ gwReq'.held = H /\ gwReq'.got = G
           /\ gwReq'.failed = gwReq.failed /\ gwReq'.ready = gwReq.ready /\ gwReq'.sound = gwReq.sound
           /\ \A q : GwUnasked(q) /\ (GwNow(gwReq).do # "fetch" \/ GwNow(gwReq).of # q) => GwUnasked(q)'
    <1>1. gwReq' = [at |-> "serving", kind |-> gwReq.kind, from |-> gwReq.from, todo |-> Tail(gwReq.todo), held |-> H,
                    got |-> G, failed |-> gwReq.failed, ready |-> gwReq.ready, sound |-> gwReq.sound]
        BY DEF GwReqShape
    <1>2. GwPrepared(Tail(gwReq.todo), DOMAIN H)
        BY PreparedGoes
    <1>3. \A k \in DOMAIN Tail(gwReq.todo) :
             Tail(gwReq.todo)[k].do # (IF gwReq.kind = "query" THEN "fetch" ELSE "rows")
        BY NextCall DEF GwReqShape
    <1>4. GwReqShape'
        BY <1>1, <1>2, <1>3, NextCall DEF GwReqShape
    <1>5. ASSUME NEW q, GwUnasked(q), GwNow(gwReq).do # "fetch" \/ GwNow(gwReq).of # q PROVE GwUnasked(q)'
        <2>1. PICK k \in DOMAIN gwReq.todo : gwReq.todo[k].do = "fetch" /\ gwReq.todo[k].of = q
            BY <1>5 DEF GwUnasked
        <2>2. k # 1
            BY <1>5, <2>1, NextCall
        <2>3. k - 1 \in DOMAIN Tail(gwReq.todo) /\ Tail(gwReq.todo)[k - 1] = gwReq.todo[k]
            BY <2>2, NextCall
        <2>4. gwReq'.at = "serving" /\ gwReq'.kind = "health" /\ gwReq'.todo = Tail(gwReq.todo)
            BY <1>1, <1>5 DEF GwUnasked
        <2> QED
            BY <2>1, <2>3, <2>4 DEF GwUnasked
    <1> QED
        BY <1>1, <1>4, <1>5

\* Three things that a call can do to the handles, and what they leave of the processes that
\* have been asked.
LEMMA JoinFresh ==
    ASSUME GwShape, GwLinks, GwFresh, NEW p \in GwKeys, GwJoins(p),
           \A q : q # p /\ GwUnasked(q) => GwUnasked(q)'
    PROVE  GwFresh'
    <1>1. PICK n \in GwNumbers :
              /\ gwFd[n] = GwFree /\ gwFd' = [gwFd EXCEPT ![n] = p]
              /\ p \notin DOMAIN gwConn /\ DOMAIN gwConn' = DOMAIN gwConn \cup {p} /\ gwConn'[p] = n
              /\ \A q \in DOMAIN gwConn : gwConn'[q] = gwConn[q]
              /\ ~gwStaff'.reused => ~gwStaff.reused /\ \A q \in DOMAIN gwConn : gwConn[q] # n
              /\ gwStaff'.up = gwStaff.up /\ gwStaff'.steady = gwStaff.steady /\ gwStaff'.reused \in BOOLEAN
        BY JoinFacts
    <1>2. \A k \in GwNumbers : gwFd'[k] = IF k = n THEN p ELSE gwFd[k]
        BY <1>1 DEF GwShape
    <1>3. GwSound(p)'
        BY <1>1, <1>2 DEF GwSound
    <1>4. ASSUME NEW q \in GwKeys, q # p, ~gwStaff'.reused, GwSound(q) PROVE GwSound(q)'
        BY <1>1, <1>2, <1>4 DEF GwSound, GwShape
    <1> QED
        BY <1>1, <1>3, <1>4 DEF GwFresh

LEMMA SameFresh ==
    ASSUME GwShape, GwFresh, UNCHANGED <<gwConn, gwFd, gwStaff>>, NEW p, ~gwStaff.reused => GwSound(p),
           \A q : q # p /\ GwUnasked(q) => GwUnasked(q)'
    PROVE  GwFresh'
    <1>1. \A q : GwSound(q) => GwSound(q)'
        BY DEF GwSound
    <1> QED
        BY <1>1 DEF GwFresh

LEMMA ForgetFresh ==
    ASSUME GwShape, GwLinks, GwFresh, NEW p \in GwKeys, GwForgets(p),
           \A q : q # p /\ GwUnasked(q) => GwUnasked(q)'
    PROVE  GwFresh'
    <1>1. /\ p \in DOMAIN gwConn /\ gwConn[p] \in GwNumbers
          /\ gwFd' = [k \in GwNumbers |-> IF k = gwConn[p] THEN GwFree ELSE gwFd[k]]
          /\ DOMAIN gwConn' = DOMAIN gwConn \ {p}
          /\ \A q \in DOMAIN gwConn' : gwConn'[q] = gwConn[q]
          /\ UNCHANGED gwStaff
        BY ForgetFacts
    <1>2. GwSound(p)'
        BY <1>1 DEF GwSound
    <1>3. ASSUME NEW q \in GwKeys, q # p, ~gwStaff.reused, GwSound(q) PROVE GwSound(q)'
        <2>1. SUFFICES ASSUME q \in DOMAIN gwConn' PROVE gwFd'[gwConn'[q]] = q
            BY DEF GwSound
        <2>2. q \in DOMAIN gwConn /\ gwConn'[q] = gwConn[q] /\ gwFd[gwConn[q]] = q /\ gwConn[q] \in GwNumbers
            BY <1>1, <1>3, <2>1 DEF GwSound, GwShape
        <2>3. gwConn[q] # gwConn[p]
            BY <1>1, <1>3, <2>2, EndsApart DEF GwLinks, GwEnds
        <2> QED
            BY <1>1, <2>2, <2>3
    <1> QED
        BY <1>1, <1>2, <1>3 DEF GwFresh

\* What a call has found is shown for the process that it was made to.
LEMMA GotGoes ==
    ASSUME GwGot, gwReq.at # "idle", gwReq'.at # "idle", gwReq'.kind = gwReq.kind, gwReq'.failed = gwReq.failed,
           gwReq'.ready = gwReq.ready, gwReq'.sound = gwReq.sound, gwStaff'.steady = gwStaff.steady,
           ~gwStaff'.reused => ~gwStaff.reused, NEW p \in GwKeys, NEW by,
           gwReq'.got = gwReq.got \/ gwReq'.got = With(gwReq.got, p, by),
           gwReq'.got # gwReq.got =>
               /\ by \in GwKeys \cup {GwEnded}
               /\ ~gwStaff'.reused => by \in {p, GwEnded}
               /\ gwReq.kind # "query" /\ by # GwEnded => by[1] = p[1]
               /\ gwReq.kind = "health" /\ ~gwStaff'.reused /\ gwStaff.steady[p] = 2 => by = p
               /\ gwReq.kind = "query" /\ ~gwStaff'.reused /\ p \in gwReq.ready => by = p
    PROVE  GwGot'
    <1>1. ASSUME NEW q \in DOMAIN gwReq'.got
          PROVE  \/ q \in DOMAIN gwReq.got /\ gwReq'.got[q] = gwReq.got[q]
                 \/ q = p /\ gwReq'.got[q] = by /\ gwReq'.got # gwReq.got
        BY DEF With
    <1>2. ASSUME NEW q \in DOMAIN gwReq'.got, NEW b, b = gwReq'.got[q]
          PROVE  /\ q \in GwKeys /\ b \in GwKeys \cup {GwEnded}
                 /\ ~gwStaff'.reused => b \in {q, GwEnded}
                 /\ gwReq.kind # "query" /\ b # GwEnded => b[1] = q[1]
                 /\ gwReq.kind = "health" /\ ~gwStaff'.reused /\ gwStaff.steady[q] = 2 => b = q
                 /\ gwReq.kind = "query" /\ ~gwStaff'.reused /\ q \in gwReq.ready => b = q
        <2>1. CASE q \in DOMAIN gwReq.got /\ gwReq'.got[q] = gwReq.got[q]
            BY <1>2, <2>1 DEF GwGot
        <2>2. CASE q = p /\ gwReq'.got[q] = by /\ gwReq'.got # gwReq.got
            BY <1>2, <2>2
        <2> QED
            BY <1>1, <2>1, <2>2
    <1>3. gwReq'.failed => gwReq'.kind = "query" /\ (gwReq'.sound => gwStaff'.reused)
        BY DEF GwGot
    <1> QED
        BY <1>2, <1>3 DEF GwGot

\* A call leaves the handles, makes one or forgets one.
LEMMA HandlesStay ==
    ASSUME GwShape, GwLinks, GwCall, UNCHANGED <<gwConn, gwFd, gwStaff, gwCaller>>, gwReq'.at = "serving"
    PROVE  GwShape' /\ GwLinks' /\ GwCall'
    <1>1. \A n \in GwNumbers : GwAstray(n)' <=> GwAstray(n)
        BY DEF GwAstray
    <1>2. GwLinks'
        BY <1>1 DEF GwLinks
    <1>3. GwBroken' = GwBroken
        BY DEF GwBroken
    <1> QED
        BY <1>2, <1>3 DEF GwShape, GwCall

\* A query goes on with the handles that it has.
LEMMA QueryJoins ==
    ASSUME GwShape, GwLinks, GwQuery, gwReq.at = "serving", NEW p \in GwKeys, GwJoins(p), gwReq'.kind = gwReq.kind,
           gwReq'.ready = gwReq.ready, gwReq'.sound = gwReq.sound, gwReq'.held = With(gwReq.held, p, gwConn'[p])
    PROVE  GwQuery'
    <1>1. PICK n \in GwNumbers :
              /\ gwFd[n] = GwFree /\ gwFd' = [gwFd EXCEPT ![n] = p]
              /\ p \notin DOMAIN gwConn /\ DOMAIN gwConn' = DOMAIN gwConn \cup {p} /\ gwConn'[p] = n
              /\ \A q \in DOMAIN gwConn : gwConn'[q] = gwConn[q]
              /\ ~gwStaff'.reused => ~gwStaff.reused /\ \A q \in DOMAIN gwConn : gwConn[q] # n
              /\ gwStaff'.up = gwStaff.up /\ gwStaff'.steady = gwStaff.steady /\ gwStaff'.reused \in BOOLEAN
        BY JoinFacts
    <1>2. \A k \in GwNumbers : gwFd'[k] = IF k = n THEN p ELSE gwFd[k]
        BY <1>1 DEF GwShape
    <1>3. SUFFICES ASSUME gwReq.kind = "query" PROVE GwQuery'
        BY DEF GwQuery
    <1>4. ASSUME gwReq.sound, NEW q \in DOMAIN gwConn' PROVE GwSound(q)'
        <2>1. CASE q = p
            BY <1>1, <1>2, <2>1 DEF GwSound
        <2>2. CASE q # p
            <3>1. q \in DOMAIN gwConn /\ gwFd[gwConn[q]] = q /\ q \in GwKeys /\ gwConn[q] \in GwNumbers
                BY <1>1, <1>3, <1>4, <2>2 DEF GwQuery, GwSound, GwShape
            <3>2. gwConn[q] # n
                BY <1>1, <3>1, EndsApart DEF GwEnds
            <3> QED
                BY <1>1, <1>2, <3>1, <3>2 DEF GwSound
        <2> QED
            BY <2>1, <2>2
    <1>5. ASSUME NEW q \in DOMAIN gwReq'.held
          PROVE  \/ gwReq'.held[q] = 0 /\ q \notin gwReq.ready
                 \/ q \in DOMAIN gwConn' /\ gwConn'[q] = gwReq'.held[q]
        <2>1. CASE q = p
            <3>1. gwReq'.held[q] = gwConn'[q]
                BY <2>1 DEF With
            <3> QED
                BY <1>1, <2>1, <3>1
        <2>2. CASE q # p
            <3>1. q \in DOMAIN gwReq.held /\ gwReq'.held[q] = gwReq.held[q]
                BY <2>2 DEF With
            <3> QED
                BY <1>1, <1>3, <3>1 DEF GwQuery
        <2> QED
            BY <2>1, <2>2
    <1> QED
        BY <1>1, <1>3, <1>4, <1>5 DEF GwQuery

LEMMA QueryStays ==
    ASSUME GwQuery, gwReq.at = "serving", UNCHANGED <<gwConn, gwFd, gwStaff>>, gwReq'.kind = gwReq.kind,
           gwReq'.ready = gwReq.ready, gwReq'.sound = gwReq.sound, NEW p, NEW n,
           gwReq'.held = gwReq.held \/ gwReq'.held = With(gwReq.held, p, n),
           gwReq'.held # gwReq.held => (n = 0 /\ p \notin gwReq.ready) \/ (p \in DOMAIN gwConn /\ gwConn[p] = n)
    PROVE  GwQuery'
    <1>1. SUFFICES ASSUME gwReq.kind = "query" PROVE GwQuery'
        BY DEF GwQuery
    <1>2. \A q : GwSound(q) => GwSound(q)'
        BY DEF GwSound
    <1>3. ASSUME NEW q \in DOMAIN gwReq'.held
          PROVE  \/ gwReq'.held[q] = 0 /\ q \notin gwReq.ready
                 \/ q \in DOMAIN gwConn /\ gwConn[q] = gwReq'.held[q]
        <2>1. CASE gwReq'.held = gwReq.held
            BY <1>1, <1>3, <2>1 DEF GwQuery
        <2>2. CASE gwReq'.held # gwReq.held /\ q = p
            <3>1. gwReq'.held[q] = n
                BY <2>2 DEF With
            <3> QED
                BY <2>2, <3>1
        <2>3. CASE gwReq'.held # gwReq.held /\ q # p
            <3>1. q \in DOMAIN gwReq.held /\ gwReq'.held[q] = gwReq.held[q]
                BY <1>3, <2>3 DEF With
            <3> QED
                BY <1>1, <3>1 DEF GwQuery
        <2> QED
            BY <2>1, <2>2, <2>3
    <1> QED
        BY <1>1, <1>2, <1>3 DEF GwQuery

LEMMA OpenHandleGoes == ASSUME GwInv, OpenHandle PROVE GwInv'
    <1>1. /\ GwShape /\ GwLinks /\ GwFresh /\ GwCall /\ GwReqShape /\ GwGot /\ GwQuery
          /\ gwReq.at = "serving" /\ gwReq.todo # <<>> /\ GwNow(gwReq).do = "open"
        BY DEF GwInv, OpenHandle, InService
    <1>2. PICK p \in GwKeys : p = GwNow(gwReq).of
        BY <1>1, NextCall DEF GwCalls
    <1>3. PICK h : h = HandleOf(p)
        OBVIOUS
    <1>4. /\ gwReq' = [gwReq EXCEPT !.todo = Tail(@), !.held = With(@, p, h)]
          /\ gwConn' = ConnAfter(p) /\ gwFd' = FdAfter(p) /\ gwStaff' = StaffAfter(p) /\ UNCHANGED gwCaller
        BY <1>2, <1>3 DEF OpenHandle
    <1>5. PICK H : H = With(gwReq.held, p, h)
        OBVIOUS
    <1>6. gwReq' = [gwReq EXCEPT !.todo = Tail(@), !.held = H, !.got = gwReq.got]
        BY <1>1, <1>4, <1>5 DEF GwReqShape
    <1>7. DOMAIN H = DOMAIN gwReq.held \cup {p}
        BY <1>5 DEF With
    <1>8. /\ GwReqShape'
          /\ gwReq'.at = "serving" /\ gwReq'.kind = gwReq.kind /\ gwReq'.held = H /\ gwReq'.got = gwReq.got
          /\ gwReq'.failed = gwReq.failed /\ gwReq'.ready = gwReq.ready /\ gwReq'.sound = gwReq.sound
          /\ \A q : GwUnasked(q) => GwUnasked(q)'
        BY <1>1, <1>2, <1>6, <1>7, RequestGoes
    <1>9. CASE Connects(p)
        <2>1. GwJoins(p)
            BY <1>4, <1>9 DEF GwJoins, ConnAfter, FdAfter, StaffAfter
        <2>2. GwShape' /\ GwLinks' /\ GwCall'
            BY <1>1, <1>8, <2>1, JoinKeeps
        <2>3. GwFresh'
            BY <1>1, <1>8, <2>1, JoinFresh
        <2>4. gwStaff'.steady = gwStaff.steady /\ (~gwStaff'.reused => ~gwStaff.reused)
                /\ p \in DOMAIN gwConn'
            BY <1>1, <2>1, JoinFacts
        <2>5. GwGot'
            BY <1>1, <1>8, <2>4, GotGoes
        <2>6. h = gwConn'[p]
            BY <1>3, <1>4, <2>4 DEF HandleOf
        <2>7. GwQuery'
            BY <1>1, <1>5, <1>8, <2>1, <2>6, QueryJoins
        <2> QED
            BY <1>8, <2>2, <2>3, <2>5, <2>7 DEF GwInv
    <1>10. CASE ~Connects(p)
        <2>1. UNCHANGED <<gwConn, gwFd, gwStaff, gwCaller>>
            BY <1>4, <1>10 DEF ConnAfter, FdAfter, StaffAfter
        <2>2. GwShape' /\ GwLinks' /\ GwCall'
            BY <1>1, <1>8, <2>1, HandlesStay
        <2>3. GwFresh'
            <3>1. \A q : GwSound(q) => GwSound(q)'
                BY <2>1 DEF GwSound
            <3> QED
                BY <1>1, <1>8, <2>1, <3>1 DEF GwFresh
        <2>4. GwGot'
            BY <1>1, <1>8, <2>1, GotGoes
        <2>5. h = IF p \in DOMAIN gwConn THEN gwConn[p] ELSE 0
            BY <1>3, <1>10 DEF HandleOf, ConnAfter
        <2>6. gwReq.kind = "query" => (h = 0 /\ p \notin gwReq.ready) \/ (p \in DOMAIN gwConn /\ gwConn[p] = h)
            BY <1>1, <1>10, <2>5 DEF Connects, GwQuery
        <2>7. GwQuery'
            <3>1. CASE gwReq.kind = "query"
                BY <1>1, <1>5, <1>8, <2>1, <2>6, <3>1, QueryStays
            <3>2. CASE gwReq.kind # "query"
                BY <1>8, <3>2 DEF GwQuery
            <3> QED
                BY <3>1, <3>2
        <2> QED
            BY <1>8, <2>2, <2>3, <2>4, <2>7 DEF GwInv
    <1> QED
        BY <1>9, <1>10

LEMMA FetchGoes == ASSUME GwInv, Fetch PROVE GwInv'
    <1>1. /\ GwShape /\ GwLinks /\ GwFresh /\ GwCall /\ GwReqShape /\ GwGot /\ GwQuery
          /\ gwReq.at = "serving" /\ gwReq.todo # <<>> /\ GwNow(gwReq).do = "fetch"
        BY DEF GwInv, Fetch, InService
    <1>2. PICK p \in GwKeys : p = GwNow(gwReq).of
        BY <1>1, NextCall DEF GwCalls
    <1>3. gwReq.kind # "query"
        BY <1>1, NextCall DEF GwReqShape
    <1>4. PICK n : n = HandleOf(p)
        OBVIOUS
    <1>5. PICK end : end = IF n = 0 THEN GwEnded ELSE FdAfter(p)[n]
        OBVIOUS
    <1>6. ASSUME NEW by, gwReq' = Went(gwReq, by)
          PROVE  /\ GwReqShape'
                 /\ gwReq'.at = "serving" /\ gwReq'.kind = gwReq.kind /\ gwReq'.got = With(gwReq.got, p, by)
                 /\ gwReq'.failed = gwReq.failed /\ gwReq'.ready = gwReq.ready /\ gwReq'.sound = gwReq.sound
                 /\ \A q : q # p /\ GwUnasked(q) => GwUnasked(q)'
        <2>1. PICK G : G = With(gwReq.got, p, by)
            OBVIOUS
        <2>2. gwReq' = [gwReq EXCEPT !.todo = Tail(@), !.held = gwReq.held, !.got = G]
            BY <1>1, <1>2, <1>6, <2>1 DEF Went, GwReqShape
        <2> QED
            BY <1>1, <1>2, <2>1, <2>2, RequestGoes
    <1>7. CASE n = 0 \/ CanAnswer("fetch", p, end)
        <2>1. /\ gwReq' = Went(gwReq, end)
              /\ gwConn' = ConnAfter(p) /\ gwFd' = FdAfter(p) /\ gwStaff' = StaffAfter(p) /\ UNCHANGED gwCaller
            BY <1>2, <1>4, <1>5, <1>7 DEF Fetch
        <2>2. GwQuery'
            BY <1>3, <1>6, <2>1 DEF GwQuery
        <2>3. CASE Connects(p)
            <3>1. GwJoins(p)
                BY <2>1, <2>3 DEF GwJoins, ConnAfter, FdAfter, StaffAfter
            <3>2. GwShape' /\ GwLinks' /\ GwCall'
                BY <1>1, <1>6, <2>1, <3>1, JoinKeeps
            <3>3. GwFresh'
                BY <1>1, <1>6, <2>1, <3>1, JoinFresh
            <3>4. PICK k \in GwNumbers :
                    /\ gwFd' = [gwFd EXCEPT ![k] = p] /\ p \in DOMAIN gwConn' /\ gwConn'[p] = k
                    /\ gwStaff'.steady = gwStaff.steady /\ (~gwStaff'.reused => ~gwStaff.reused)
                BY <1>1, <3>1, JoinFacts
            <3>5. n = k /\ n # 0
                BY <1>4, <2>1, <3>4, NumbersOf DEF HandleOf
            <3>6. end = p
                BY <1>1, <1>5, <2>1, <3>4, <3>5 DEF GwShape
            <3>7. GwGot'
                BY <1>1, <1>6, <2>1, <3>4, <3>6, GotGoes
            <3> QED
                BY <1>6, <2>1, <2>2, <3>2, <3>3, <3>7 DEF GwInv
        <2>4. CASE ~Connects(p)
            <3>1. UNCHANGED <<gwConn, gwFd, gwStaff, gwCaller>>
                BY <2>1, <2>4 DEF ConnAfter, FdAfter, StaffAfter
            <3>2. GwShape' /\ GwLinks' /\ GwCall'
                BY <1>1, <1>6, <2>1, <3>1, HandlesStay
            <3>3. n = IF p \in DOMAIN gwConn THEN gwConn[p] ELSE 0
                BY <1>4, <2>4 DEF HandleOf, ConnAfter
            <3>4. p \in DOMAIN gwConn =>
                     /\ n # 0 /\ end = gwFd[gwConn[p]] /\ end \in GwKeys /\ end[1] = p[1]
                     /\ (~gwStaff.reused => end = p)
                <4>1. SUFFICES ASSUME p \in DOMAIN gwConn
                               PROVE  /\ n # 0 /\ end = gwFd[gwConn[p]] /\ end \in GwKeys /\ end[1] = p[1]
                                      /\ (~gwStaff.reused => end = p)
                    OBVIOUS
                <4>2. n = gwConn[p] /\ n \in GwNumbers /\ n # 0
                    BY <1>1, <3>3, <4>1, NumbersOf DEF GwShape
                <4>3. end = gwFd[n]
                    BY <1>5, <2>4, <4>2 DEF FdAfter
                <4>4. end \in GwKeys /\ end[1] = p[1]
                    BY <1>7, <4>2 DEF CanAnswer
                <4> QED
                    BY <1>1, <4>1, <4>2, <4>3, <4>4, EndsApart DEF GwLinks, GwEnds
            <3>5. ~gwStaff.reused => GwSound(p)
                BY <3>4 DEF GwSound
            <3>6. GwFresh'
                BY <1>1, <1>6, <2>1, <3>1, <3>5, SameFresh
            <3>7. p \notin DOMAIN gwConn => end = GwEnded /\ gwStaff.steady[p] # 2
                BY <1>1, <1>5, <2>4, <3>3 DEF Connects, GwFresh
            <3>8. /\ end \in GwKeys \cup {GwEnded}
                  /\ ~gwStaff.reused => end \in {p, GwEnded}
                  /\ end # GwEnded => end[1] = p[1]
                  /\ ~gwStaff.reused /\ gwStaff.steady[p] = 2 => end = p
                BY <3>4, <3>7
            <3>9. GwGot'
                BY <1>1, <1>3, <1>6, <2>1, <3>1, <3>8, GotGoes
            <3> QED
                BY <1>6, <2>1, <2>2, <3>2, <3>6, <3>9 DEF GwInv
        <2> QED
            BY <2>3, <2>4
    <1>8. CASE ~(n = 0 \/ CanAnswer("fetch", p, end))
        <2>1. /\ gwReq' = Went(gwReq, GwEnded)
              /\ gwConn' = Without(gwConn, p) /\ gwFd' = [gwFd EXCEPT ![n] = GwFree]
              /\ gwCaller' = Hung(n) /\ UNCHANGED gwStaff
            BY <1>2, <1>4, <1>5, <1>8 DEF Fetch
        <2>2. ~Connects(p)
            <3>1. SUFFICES ASSUME Connects(p) PROVE FALSE
                OBVIOUS
            <3>2. PICK T : T = (GwKeys \ {p}) \cup {GwCaller, GwGuest}
                OBVIOUS
            <3>3. T \in SUBSET (GwKeys \cup {GwCaller, GwGuest}) /\ GwCaller \in T /\ GwGuest \in T
                    /\ T # GwKeys \cup {GwCaller, GwGuest} /\ DOMAIN gwConn \subseteq T
                BY <1>1, <3>1, <3>2, EndsApart DEF GwEnds, GwShape, Connects
            <3>4. Lowest(gwFd) \in GwNumbers
                BY <1>1, <3>3, SomeNumberIsFree
            <3>5. n = Lowest(gwFd)
                BY <1>4, <3>1 DEF HandleOf, ConnAfter, With, Connects
            <3>6. end = p
                BY <1>1, <1>5, <1>8, <3>1, <3>4, <3>5 DEF FdAfter, GwShape
            <3> QED
                BY <1>8, <3>6 DEF CanAnswer
        <2>3. p \in DOMAIN gwConn /\ n = gwConn[p]
            BY <1>4, <1>8, <2>2 DEF HandleOf, ConnAfter
        <2>4. GwForgets(p)
            BY <2>1, <2>3 DEF GwForgets
        <2>5. GwShape' /\ GwLinks' /\ GwCall'
            BY <1>1, <1>6, <2>1, <2>4, ForgetKeeps
        <2>6. GwFresh'
            BY <1>1, <1>6, <2>1, <2>4, ForgetFresh
        <2>7. ~gwStaff.reused => gwStaff.steady[p] # 2
            <3>1. SUFFICES ASSUME ~gwStaff.reused, gwStaff.steady[p] = 2 PROVE FALSE
                OBVIOUS
            <3>2. gwFd[n] = p /\ n \in GwNumbers /\ n # 0
                BY <1>1, <1>8, <2>3, <3>1 DEF GwFresh, GwSound, GwShape
            <3>3. end = p
                BY <1>5, <2>2, <3>2 DEF FdAfter
            <3> QED
                BY <1>8, <3>3 DEF CanAnswer
        <2>8. GwGot'
            BY <1>1, <1>3, <1>6, <2>1, <2>7, GotGoes
        <2>9. GwQuery'
            BY <1>3, <1>6, <2>1 DEF GwQuery
        <2> QED
            BY <1>6, <2>1, <2>5, <2>6, <2>8, <2>9 DEF GwInv
    <1> QED
        BY <1>7, <1>8

LEMMA RowsGoes == ASSUME GwInv, Rows PROVE GwInv'
    <1>1. /\ GwShape /\ GwLinks /\ GwFresh /\ GwCall /\ GwReqShape /\ GwGot /\ GwQuery
          /\ gwReq.at = "serving" /\ gwReq.todo # <<>> /\ GwNow(gwReq).do = "rows"
          /\ UNCHANGED <<gwConn, gwFd, gwStaff, gwCaller>>
        BY DEF GwInv, Rows, InService
    <1>2. PICK p \in GwKeys : p = GwNow(gwReq).of
        BY <1>1, NextCall DEF GwCalls
    <1>3. gwReq.kind = "query"
        BY <1>1, NextCall DEF GwReqShape
    <1>4. p \in DOMAIN gwReq.held
        BY <1>1, <1>2, NextCall DEF GwReqShape, GwPrepared
    <1>5. PICK n : n = gwReq.held[p]
        OBVIOUS
    <1>6. (n = 0 /\ p \notin gwReq.ready) \/ (p \in DOMAIN gwConn /\ gwConn[p] = n)
        BY <1>1, <1>3, <1>4, <1>5 DEF GwQuery
    <1>7. p \in DOMAIN gwConn /\ gwConn[p] = n => n # 0 /\ n \in GwNumbers
        BY <1>1, NumbersOf DEF GwShape
    <1>8. GwFresh /\ (~\E q : GwUnasked(q))
        BY <1>1, <1>3 DEF GwUnasked
    <1>9. \A q : GwSound(q)' <=> GwSound(q)
        BY <1>1 DEF GwSound
    <1>10. ASSUME NEW by, gwReq' = Went(gwReq, by), by \in GwKeys \cup {GwEnded},
                  ~gwStaff.reused => by \in {p, GwEnded}, ~gwStaff.reused /\ p \in gwReq.ready => by = p
           PROVE  GwInv'
        <2>1. PICK G : G = With(gwReq.got, p, by)
            OBVIOUS
        <2>2. gwReq' = [gwReq EXCEPT !.todo = Tail(@), !.held = gwReq.held, !.got = G]
            BY <1>1, <1>2, <1>10, <2>1 DEF Went, GwReqShape
        <2>3. /\ GwReqShape'
              /\ gwReq'.at = "serving" /\ gwReq'.kind = gwReq.kind /\ gwReq'.held = gwReq.held /\ gwReq'.got = G
              /\ gwReq'.failed = gwReq.failed /\ gwReq'.ready = gwReq.ready /\ gwReq'.sound = gwReq.sound
            BY <1>1, <2>2, RequestGoes
        <2>4. GwShape' /\ GwLinks' /\ GwCall'
            BY <1>1, <2>3, HandlesStay
        <2>5. GwFresh'
            BY <1>1, <1>8, <1>9 DEF GwFresh
        <2>6. GwGot'
            BY <1>1, <1>3, <1>10, <2>1, <2>3, GotGoes
        <2>7. GwQuery'
            BY <1>1, <1>9, <2>3 DEF GwQuery
        <2> QED
            BY <2>3, <2>4, <2>5, <2>6, <2>7 DEF GwInv
    <1>11. CASE n = 0
        <2>1. gwReq' = Went(gwReq, GwEnded)
            BY <1>2, <1>5, <1>11 DEF Rows
        <2>2. p \notin gwReq.ready
            BY <1>6, <1>7, <1>11
        <2> QED
            BY <1>10, <2>1, <2>2
    <1>12. CASE n # 0 /\ CanAnswer("rows", p, gwFd[n])
        <2>1. gwReq' = Went(gwReq, gwFd[n])
            BY <1>2, <1>5, <1>12 DEF Rows
        <2>2. gwFd[n] \in GwKeys
            BY <1>12 DEF CanAnswer
        <2>3. ~gwStaff.reused => gwFd[n] = p
            BY <1>1, <1>6, <1>12, <2>2, EndsApart DEF GwLinks, GwEnds
        <2> QED
            BY <1>10, <2>1, <2>2, <2>3
    <1>13. CASE n # 0 /\ ~CanAnswer("rows", p, gwFd[n])
        <2>1. gwReq' = [gwReq EXCEPT !.todo = <<>>, !.failed = TRUE]
            BY <1>2, <1>5, <1>13 DEF Rows
        <2>2. gwReq' = [at |-> "serving", kind |-> "query", from |-> gwReq.from, todo |-> <<>>, held |-> gwReq.held,
                        got |-> gwReq.got, failed |-> TRUE, ready |-> gwReq.ready, sound |-> gwReq.sound]
            BY <1>1, <1>3, <2>1 DEF GwReqShape
        <2>3. ~gwReq.sound
            <3>1. gwFd[n] # p
                BY <1>13 DEF CanAnswer
            <3> QED
                BY <1>1, <1>3, <1>6, <1>13, <3>1 DEF GwQuery, GwSound
        <2>4. GwReqShape'
            <3>1. <<>> \in Seq(GwCalls) /\ GwPrepared(<<>>, DOMAIN gwReq.held)
                BY DEF GwPrepared
            <3>2. \A k \in DOMAIN <<>> : FALSE
                OBVIOUS
            <3> QED
                BY <1>1, <2>2, <3>1, <3>2 DEF GwReqShape
        <2>5. GwShape' /\ GwLinks' /\ GwCall'
            BY <1>1, <2>2, HandlesStay
        <2>6. GwFresh'
            BY <1>1, <1>8, <1>9 DEF GwFresh
        <2>7. GwGot'
            BY <1>1, <1>3, <2>2, <2>3 DEF GwGot
        <2>8. GwQuery'
            BY <1>1, <1>3, <1>9, <2>2 DEF GwQuery
        <2> QED
            BY <2>4, <2>5, <2>6, <2>7, <2>8 DEF GwInv
    <1> QED
        BY <1>11, <1>12, <1>13

\* q has looked at its connections: none has ended unnoticed, the guest's is gone.
LEMMA LookedKeeps ==
    ASSUME GwShape, GwLinks, UNCHANGED <<gwConn, gwStaff>>, gwCaller'.n = gwCaller.n,
           gwFd' = [n \in GwNumbers |-> IF gwFd[n] = GwGuest THEN GwFree ELSE Looked(gwFd)[n]]
    PROVE  /\ GwLinks' /\ gwFd' \in [GwNumbers -> GwKeys \cup GwEnds]
           /\ \A n \in GwNumbers : gwFd'[n] = IF gwFd[n] \in {GwGuest, GwEnded} THEN GwFree ELSE gwFd[n]
           /\ \A p \in GwKeys : GwSound(p) => GwSound(p)'
           /\ GwBroken' = GwBroken
    <1>1. gwFd' \in [GwNumbers -> GwKeys \cup GwEnds]
        BY DEF GwShape, GwEnds, Looked
    <1>2. \A n \in GwNumbers : gwFd'[n] = IF gwFd[n] \in {GwGuest, GwEnded} THEN GwFree ELSE gwFd[n]
        BY DEF Looked
    <1>3. \A p \in DOMAIN gwConn : gwConn[p] \in GwNumbers /\ p \in GwKeys
        BY DEF GwShape
    <1>4. GwLinks'
        <2>1. \A n \in GwNumbers : gwFd'[n] \in GwKeys => gwFd'[n] \in DOMAIN gwConn' /\ gwConn'[gwFd'[n]] = n
            BY <1>2, EndsApart DEF GwLinks, GwEnds
        <2>2. \A n \in GwNumbers : gwFd'[n] = GwCaller => gwCaller'.n = n
            BY <1>2, EndsApart DEF GwLinks
        <2>3. \A n \in GwNumbers : GwAstray(n)' => GwAstray(n)
            BY <1>2, EndsApart DEF GwAstray
        <2>4. \A n \in GwNumbers : gwFd'[n] \notin {GwEnded, GwGuest}
            BY <1>2, EndsApart
        <2>5. ~gwStaff'.reused => \A p \in DOMAIN gwConn' : gwFd'[gwConn'[p]] \in {p, GwFree, GwEnded}
            BY <1>2, <1>3, EndsApart DEF GwLinks
        <2> QED
            BY <2>1, <2>2, <2>3, <2>4, <2>5 DEF GwLinks
    <1>5. \A p \in GwKeys : GwSound(p) => GwSound(p)'
        BY <1>2, <1>3, EndsApart DEF GwSound, GwEnds
    <1>6. GwBroken' = GwBroken
        BY <1>2, EndsApart DEF GwBroken, GwShape, GwClients
    <1> QED
        BY <1>1, <1>2, <1>4, <1>5, <1>6

LEMMA ReplyGoes == ASSUME GwInv, Reply PROVE GwInv'
    <1>1. /\ GwShape /\ GwLinks /\ GwFresh /\ GwCall /\ GwReqShape /\ GwGot /\ GwQuery
          /\ gwReq.at = "serving" /\ gwReq.todo = <<>>
          /\ gwReq' = [gwReq EXCEPT !.at = "answered"]
          /\ gwFd' = [n \in GwNumbers |-> IF gwFd[n] = GwGuest THEN GwFree ELSE Looked(gwFd)[n]]
          /\ gwCaller' = IF gwReq.from # 0 /\ gwFd[gwReq.from] = GwCaller /\ gwCaller.n = gwReq.from
                         THEN [gwCaller EXCEPT !.at = "idle", !.faults = 0] ELSE gwCaller
          /\ UNCHANGED <<gwConn, gwStaff>>
        BY DEF GwInv, Reply
    <1>2. gwCaller'.n = gwCaller.n /\ gwCaller' \in GwClients
        BY <1>1 DEF GwShape, GwClients
    <1>3. /\ GwLinks' /\ gwFd' \in [GwNumbers -> GwKeys \cup GwEnds]
          /\ \A p \in GwKeys : GwSound(p) => GwSound(p)'
          /\ GwBroken' = GwBroken
        BY <1>1, <1>2, LookedKeeps
    <1>4. GwShape'
        BY <1>1, <1>2, <1>3 DEF GwShape
    <1>5. GwCall'
        <2>1. CASE gwReq.from # 0 /\ gwFd[gwReq.from] = GwCaller /\ gwCaller.n = gwReq.from
            <3>1. gwCaller' = [gwCaller EXCEPT !.at = "idle", !.faults = 0] /\ GwBroken = 0
                BY <1>1, <2>1 DEF GwBroken
            <3> QED
                BY <1>1, <1>3, <3>1 DEF GwCall, GwShape, GwClients
        <2>2. CASE ~(gwReq.from # 0 /\ gwFd[gwReq.from] = GwCaller /\ gwCaller.n = gwReq.from)
            <3>1. UNCHANGED gwCaller
                BY <1>1, <2>2
            <3> QED
                BY <1>1, <1>3, <3>1 DEF GwCall
        <2> QED
            BY <2>1, <2>2
    <1>6. gwReq' = [at |-> "answered", kind |-> gwReq.kind, from |-> gwReq.from, todo |-> gwReq.todo, held |-> gwReq.held,
                    got |-> gwReq.got, failed |-> gwReq.failed, ready |-> gwReq.ready, sound |-> gwReq.sound]
        BY <1>1 DEF GwReqShape
    <1>7. GwReqShape' /\ GwGot' /\ GwQuery'
        <2>1. GwReqShape'
            BY <1>1, <1>6 DEF GwReqShape
        <2>2. GwGot'
            BY <1>1, <1>6 DEF GwGot
        <2>3. GwQuery'
            BY <1>6 DEF GwQuery
        <2> QED
            BY <2>1, <2>2, <2>3
    <1>8. GwFresh'
        <2>1. \A p : ~GwUnasked(p)
            BY <1>1 DEF GwUnasked
        <2> QED
            BY <1>1, <1>3, <2>1 DEF GwFresh
    <1> QED
        BY <1>3, <1>4, <1>5, <1>7, <1>8 DEF GwInv

\* Nothing happens to the handles: the request is over, or the control API moves.
LEMMA OthersMove ==
    ASSUME GwInv, UNCHANGED <<gwConn, gwFd, gwReq, gwStaff>>, gwCaller'.n = gwCaller.n \/ (gwCaller'.n = 0 /\ ~CallerLinked),
           gwCaller' \in GwClients, GwCall'
    PROVE  GwInv'
    <1>1. GwShape' /\ GwReqShape' /\ GwGot'
        BY DEF GwInv, GwShape, GwReqShape, GwGot
    <1>2. GwLinks'
        <2>1. \A n \in GwNumbers : GwAstray(n)' <=> GwAstray(n)
            BY DEF GwAstray
        <2>2. \A n \in GwNumbers : gwFd'[n] = GwCaller => gwCaller'.n = n
            BY NumbersOf DEF GwInv, GwLinks, CallerLinked
        <2> QED
            BY <2>1, <2>2 DEF GwInv, GwLinks
    <1>3. (\A p : GwSound(p)' <=> GwSound(p)) /\ (\A p : GwUnasked(p)' <=> GwUnasked(p))
        BY DEF GwSound, GwUnasked
    <1>4. GwFresh' /\ GwQuery'
        BY <1>3 DEF GwInv, GwFresh, GwQuery
    <1> QED
        BY <1>1, <1>2, <1>4 DEF GwInv

LEMMA GwDoneGoes == ASSUME GwInv, GwDone PROVE GwInv'
    <1>1. /\ GwShape /\ GwLinks /\ GwFresh /\ GwCall
          /\ gwReq.at = "answered" /\ gwReq' = GwIdle /\ gwReq'.at = "idle"
          /\ UNCHANGED <<gwConn, gwFd, gwStaff, gwCaller>>
        BY DEF GwInv, GwDone, GwIdle
    <1>2. \A p : GwSound(p)' <=> GwSound(p)
        BY <1>1 DEF GwSound
    <1>3. \A p : ~GwUnasked(p)
        BY <1>1 DEF GwUnasked
    <1>4. GwFresh'
        BY <1>1, <1>2, <1>3 DEF GwFresh
    <1>5. GwLinks'
        <2>1. \A n \in GwNumbers : GwAstray(n)' <=> GwAstray(n)
            BY <1>1 DEF GwAstray
        <2> QED
            BY <1>1, <2>1 DEF GwLinks
    <1>6. GwBroken' = GwBroken
        BY <1>1 DEF GwBroken
    <1>7. GwShape' /\ GwCall' /\ GwReqShape' /\ GwGot' /\ GwQuery'
        BY <1>1, <1>6 DEF GwShape, GwCall, GwReqShape, GwGot, GwQuery
    <1> QED
        BY <1>4, <1>5, <1>7 DEF GwInv

LEMMA GwClientOf ==
    ASSUME NEW n \in {0} \cup GwNumbers, NEW at \in {"idle", "calling", "defaulted"}, NEW kind \in GwSpecials,
           NEW tries \in 0 .. 2, NEW faults \in Nat
    PROVE  [n |-> n, at |-> at, kind |-> kind, tries |-> tries, faults |-> faults] \in GwClients
    BY DEF GwClients

LEMMA GwClientIs ==
    ASSUME GwShape
    PROVE  /\ gwCaller = [n |-> gwCaller.n, at |-> gwCaller.at, kind |-> gwCaller.kind, tries |-> gwCaller.tries,
                          faults |-> gwCaller.faults]
           /\ gwCaller.n \in {0} \cup GwNumbers /\ gwCaller.at \in {"idle", "calling", "defaulted"}
           /\ gwCaller.kind \in GwSpecials /\ gwCaller.tries \in 0 .. 2 /\ gwCaller.faults \in Nat
    BY DEF GwShape, GwClients

LEMMA CallerCallsGoes == ASSUME GwInv, NEW kind \in GwSpecials, CallerCalls(kind) PROVE GwInv'
    <1>1. gwCaller' = [gwCaller EXCEPT !.at = "calling", !.kind = kind, !.tries = 0]
            /\ UNCHANGED <<gwConn, gwFd, gwReq, gwStaff>>
        BY DEF CallerCalls
    <1>2. gwCaller' = [n |-> gwCaller.n, at |-> "calling", kind |-> kind, tries |-> 0, faults |-> gwCaller.faults]
        BY <1>1, GwClientIs DEF GwInv
    <1>3. gwCaller' \in GwClients
        BY <1>2, GwClientIs, GwClientOf DEF GwInv
    <1>4. GwBroken' = GwBroken /\ GwBroken \in {0, 1}
        BY <1>1, <1>2 DEF GwBroken
    <1>5. GwCall'
        BY <1>2, <1>4, GwClientIs DEF GwInv, GwCall
    <1> QED
        BY <1>1, <1>2, <1>3, <1>5, OthersMove

LEMMA CallerEndsGoes == ASSUME GwInv, CallerRefused \/ CallerGetsDefault PROVE GwInv'
    <1>1. gwCaller' = [gwCaller EXCEPT !.at = "idle", !.faults = 0] /\ gwCaller.n = 0
            /\ UNCHANGED <<gwConn, gwFd, gwReq, gwStaff>>
        BY DEF CallerRefused, CallerGetsDefault, GwInv, GwCall
    <1>2. gwCaller' = [n |-> 0, at |-> "idle", kind |-> gwCaller.kind, tries |-> gwCaller.tries, faults |-> 0]
        BY <1>1, GwClientIs DEF GwInv
    <1>3. gwCaller' \in GwClients
        BY <1>2, GwClientIs, GwClientOf DEF GwInv
    <1>4. GwBroken' = 0
        BY <1>2 DEF GwBroken
    <1>5. GwCall'
        BY <1>2, <1>4 DEF GwCall
    <1> QED
        BY <1>1, <1>2, <1>3, <1>5, OthersMove

LEMMA RaisesFacts ==
    ASSUME NEW c \in GwClients, c.at = "calling", c.tries \in {0, 1}
    PROVE  /\ CallRaises(c) \in GwClients
           /\ CallRaises(c).n = 0 /\ CallRaises(c).faults = c.faults /\ CallRaises(c).tries = c.tries + 1
           /\ CallRaises(c).at = IF c.tries = 1 THEN "defaulted" ELSE "calling"
    <1>1. c = [n |-> c.n, at |-> c.at, kind |-> c.kind, tries |-> c.tries, faults |-> c.faults]
            /\ c.kind \in GwSpecials /\ c.faults \in Nat
        BY DEF GwClients
    <1>2. CASE c.tries = 1
        <2>1. CallRaises(c) = [n |-> 0, at |-> "defaulted", kind |-> c.kind, tries |-> 2, faults |-> c.faults]
            BY <1>1, <1>2 DEF CallRaises
        <2> QED
            BY <1>1, <1>2, <2>1, GwClientOf
    <1>3. CASE c.tries = 0
        <2>1. CallRaises(c) = [n |-> 0, at |-> "calling", kind |-> c.kind, tries |-> 1, faults |-> c.faults]
            <3>1. CallRaises(c) = [c EXCEPT !.n = 0, !.tries = 1]
                BY <1>3 DEF CallRaises
            <3> QED
                BY <1>1, <3>1
        <2> QED
            BY <1>1, <1>3, <2>1, GwClientOf
    <1> QED
        BY <1>2, <1>3

LEMMA CallerFindsGoes == ASSUME GwInv, CallerFinds PROVE GwInv'
    <1>1. gwCaller.at = "calling" /\ gwCaller.n # 0 /\ ~CallerLinked /\ gwCaller' = CallRaises(gwCaller)
            /\ UNCHANGED <<gwConn, gwFd, gwReq, gwStaff>>
        BY DEF CallerFinds
    <1>2. gwCaller.tries \in {0, 1} /\ GwBroken = 1 /\ gwCaller.faults >= gwCaller.tries + GwBroken
        BY <1>1 DEF GwInv, GwCall, GwBroken, CallerLinked
    <1>3. PICK c : c = gwCaller
        OBVIOUS
    <1>4. /\ gwCaller' \in GwClients
          /\ gwCaller'.n = 0 /\ gwCaller'.faults = gwCaller.faults /\ gwCaller'.tries = gwCaller.tries + 1
          /\ gwCaller'.at = IF gwCaller.tries = 1 THEN "defaulted" ELSE "calling"
        <2>1. c \in GwClients /\ c.at = "calling" /\ c.tries \in {0, 1}
            BY <1>1, <1>2, <1>3 DEF GwInv, GwShape
        <2>2. gwCaller' = CallRaises(c)
            BY <1>1, <1>3
        <2> QED
            BY <1>3, <2>1, <2>2, RaisesFacts
    <1>5. GwBroken' = 0
        BY <1>4 DEF GwBroken
    <1>6. gwCaller.tries \in Nat /\ gwCaller.faults \in Nat
        BY GwClientIs DEF GwInv
    <1>7. gwCaller'.faults >= gwCaller'.tries /\ (gwCaller'.at = "defaulted" => gwCaller'.tries = 2)
            /\ (gwCaller'.at = "calling" => gwCaller'.tries = 1)
        BY <1>2, <1>4, <1>6
    <1>8. GwCall'
        BY <1>4, <1>5, <1>6, <1>7 DEF GwCall
    <1> QED
        BY <1>1, <1>4, <1>8, OthersMove

-----------------------------------------------------------------------------
(* The gateway: the calls that a request is made of *)

\* Concatenation stays in C, and in D when one part is there.
ClosedUnder(C) == \A a, b \in C : a \o b \in C
KeptBy(C, D) == \A a \in C, b \in D : a \o b \in D /\ b \o a \in D

\* FlattenSeq concatenates one sequence after the other.
LEMMA FlattenRecurs ==
    ASSUME NEW C, ClosedUnder(C), NEW n \in Nat \ {0}, NEW s \in [1 .. n -> C]
    PROVE  \E f \in [1 .. n -> C] :
              FlattenSeq(s) = f[n] /\ \A i \in 1 .. n : f[i] = IF i = 1 THEN s[i] ELSE f[i - 1] \o s[i]
    <1> DEFINE Rec(f, m) == [i \in 1 .. m |-> IF i = 1 THEN s[i] ELSE f[i - 1] \o s[i]]
               Has(m) == \E f \in [1 .. m -> C] : f = Rec(f, m)
               Missing == {m \in 1 .. n : ~Has(m)}
    <1>1. Missing = {}
        <2>1. SUFFICES ASSUME Missing # {} PROVE FALSE
            OBVIOUS
        <2>2. Missing \in SUBSET Nat
            <3> HIDE DEF Has
            <3> QED
                OBVIOUS
        <2>3. PICK m \in Missing : \A k \in Missing : m <= k
            <3> HIDE DEF Missing
            <3> QED
                BY <2>1, <2>2, LeastNat
        <2>4. m \in 1 .. n /\ ~Has(m)
            <3> HIDE DEF Has
            <3> QED
                OBVIOUS
        <2>5. CASE m = 1
            <3> DEFINE f == [i \in 1 .. 1 |-> s[1]]
            <3>1. f \in [1 .. m -> C] /\ f = Rec(f, m)
                BY <2>4, <2>5
            <3> QED
                BY <2>4, <3>1
        <2>6. CASE m # 1
            <3>1. Has(m - 1)
                <4> HIDE DEF Has
                <4>1. m - 1 \in 1 .. n /\ ~(m <= m - 1)
                    BY <2>4, <2>6
                <4> QED
                    BY <2>3, <4>1
            <3>2. PICK g \in [1 .. m - 1 -> C] : g = Rec(g, m - 1)
                BY <3>1
            <3> DEFINE f == [i \in 1 .. m |-> IF i = m THEN g[m - 1] \o s[m] ELSE g[i]]
            <3>3. f \in [1 .. m -> C]
                <4>1. s[m] \in C /\ g[m - 1] \in C
                    BY <2>4, <2>6
                <4>2. g[m - 1] \o s[m] \in C
                    BY <4>1 DEF ClosedUnder
                <4> QED
                    BY <4>2
            <3>4. ASSUME NEW i \in 1 .. m PROVE f[i] = IF i = 1 THEN s[i] ELSE f[i - 1] \o s[i]
                <4>1. CASE i = m
                    <5>1. f[m] = g[m - 1] \o s[m] /\ f[m - 1] = g[m - 1]
                        BY <2>4, <2>6
                    <5> HIDE DEF f
                    <5> QED
                        BY <2>6, <4>1, <5>1
                <4>2. CASE i # m
                    <5>1. i \in 1 .. m - 1 /\ f[i] = g[i]
                        BY <2>4, <4>2
                    <5>2. g[i] = IF i = 1 THEN s[i] ELSE g[i - 1] \o s[i]
                        BY <3>2, <5>1
                    <5>3. i # 1 => f[i - 1] = g[i - 1]
                        BY <2>4, <5>1
                    <5> HIDE DEF f
                    <5> QED
                        BY <5>1, <5>2, <5>3
                <4> QED
                    BY <4>1, <4>2
            <3>5. f = Rec(f, m)
                BY <3>4
            <3> QED
                BY <2>4, <3>3, <3>5
        <2> QED
            BY <2>5, <2>6
    <1> DEFINE g == CHOOSE f : f = Rec(f, n)
    <1>2. PICK h \in [1 .. n -> C] : h = Rec(h, n)
        <2>1. Has(n)
            <3> HIDE DEF Has
            <3> QED
                BY <1>1
        <2> QED
            BY <2>1
    <1>3. g = Rec(g, n)
        <2> HIDE DEF Rec
        <2> QED
            BY <1>2
    <1>4. FlattenSeq(s) = g[n]
        <2>1. Len(s) = n /\ n # 0
            OBVIOUS
        <2> QED
            BY <2>1 DEF FlattenSeq
    <1> HIDE DEF g
    <1>5. \A i \in 1 .. n : g[i] = IF i = 1 THEN s[i] ELSE g[i - 1] \o s[i]
        BY <1>3
    <1>6. \A i \in 1 .. n : g[i] \in C
        <2> DEFINE Bad == {i \in 1 .. n : g[i] \notin C}
        <2>1. SUFFICES ASSUME Bad # {} PROVE FALSE
            OBVIOUS
        <2>2. Bad \in SUBSET Nat
            OBVIOUS
        <2>3. PICK i \in Bad : \A k \in Bad : i <= k
            <3> HIDE DEF Bad
            <3> QED
                BY <2>1, <2>2, LeastNat
        <2>4. i \in 1 .. n /\ g[i] \notin C
            OBVIOUS
        <2>5. i # 1
            BY <1>5, <2>4
        <2>6. i - 1 \in 1 .. n /\ g[i - 1] \in C
            BY <2>3, <2>4, <2>5
        <2> QED
            BY <1>5, <2>4, <2>5, <2>6 DEF ClosedUnder
    <1>7. g \in [1 .. n -> C]
        <2>1. g = [i \in 1 .. n |-> g[i]]
            BY <1>3
        <2> QED
            BY <1>6, <2>1
    <1> QED
        BY <1>4, <1>5, <1>7

LEMMA FlattenIn ==
    ASSUME NEW C, ClosedUnder(C), NEW n \in Nat \ {0}, NEW s \in [1 .. n -> C]
    PROVE  FlattenSeq(s) \in C
    <1>1. PICK f \in [1 .. n -> C] : FlattenSeq(s) = f[n]
        BY FlattenRecurs
    <1> QED
        BY <1>1

\* What one of them has, and concatenation keeps, all of them have.
LEMMA FlattenHas ==
    ASSUME NEW C, ClosedUnder(C), NEW n \in Nat \ {0}, NEW s \in [1 .. n -> C],
           NEW D \in SUBSET C, KeptBy(C, D), NEW d \in 1 .. n, s[d] \in D
    PROVE  FlattenSeq(s) \in D
    <1>1. PICK f \in [1 .. n -> C] :
             FlattenSeq(s) = f[n] /\ \A i \in 1 .. n : f[i] = IF i = 1 THEN s[i] ELSE f[i - 1] \o s[i]
        BY FlattenRecurs
    <1> DEFINE Bad == {i \in d .. n : f[i] \notin D}
    <1>2. SUFFICES ASSUME Bad # {} PROVE FALSE
        BY <1>1
    <1>3. Bad \in SUBSET Nat
        OBVIOUS
    <1>4. PICK i \in Bad : \A k \in Bad : i <= k
        <2> HIDE DEF Bad
        <2> QED
            BY <1>2, <1>3, LeastNat
    <1>5. i \in d .. n /\ f[i] \notin D /\ i \in 1 .. n
        OBVIOUS
    <1>6. f[d] \in D
        <2>1. CASE d = 1
            BY <1>1, <2>1
        <2>2. CASE d # 1
            <3>1. d - 1 \in 1 .. n /\ f[d - 1] \in C
                BY <2>2
            <3> QED
                BY <1>1, <2>2, <3>1 DEF KeptBy
        <2> QED
            BY <2>1, <2>2
    <1>7. i # d /\ i - 1 \in d .. n /\ i # 1
        BY <1>5, <1>6
    <1>8. f[i - 1] \in D
        BY <1>4, <1>5, <1>7
    <1>9. f[i] = f[i - 1] \o s[i] /\ s[i] \in C
        BY <1>1, <1>5, <1>7
    <1> QED
        BY <1>5, <1>8, <1>9 DEF KeptBy

\* The calls of a query, and those of the control API.
GwQueryCalls == {s \in Seq(GwCalls) : (\A k \in DOMAIN s : s[k].do # "fetch") /\ GwPrepared(s, {})}
GwAskCalls == {s \in Seq(GwCalls) : \A k \in DOMAIN s : s[k].do # "rows"}

LEMMA CallsJoined ==
    ASSUME NEW a \in Seq(GwCalls), NEW b \in Seq(GwCalls)
    PROVE  /\ a \o b \in Seq(GwCalls)
           /\ \A k \in DOMAIN a : k \in DOMAIN (a \o b) /\ (a \o b)[k] = a[k]
           /\ \A k \in DOMAIN b : Len(a) + k \in DOMAIN (a \o b) /\ (a \o b)[Len(a) + k] = b[k]
           /\ \A k \in DOMAIN (a \o b) : k \in DOMAIN a \/ (k - Len(a) \in DOMAIN b /\ k = Len(a) + (k - Len(a)))
    <1>1. PICK m \in Nat, n \in Nat : m = Len(a) /\ n = Len(b)
        OBVIOUS
    <1>2. DOMAIN a = 1 .. m /\ DOMAIN b = 1 .. n /\ DOMAIN (a \o b) = 1 .. m + n
        BY <1>1
    <1>3. \A k \in 1 .. m + n : (a \o b)[k] = IF k <= m THEN a[k] ELSE b[k - m]
        BY <1>1
    <1>4. a \o b \in Seq(GwCalls)
        OBVIOUS
    <1>5. ASSUME NEW k \in 1 .. m PROVE k \in 1 .. m + n /\ (a \o b)[k] = a[k]
        <2>1. k \in 1 .. m + n /\ k <= m
            OBVIOUS
        <2> QED
            BY <1>3, <2>1
    <1>6. ASSUME NEW k \in 1 .. n PROVE m + k \in 1 .. m + n /\ (a \o b)[m + k] = b[k]
        <2>1. m + k \in 1 .. m + n /\ ~(m + k <= m) /\ (m + k) - m = k
            OBVIOUS
        <2> QED
            BY <1>3, <2>1
    <1>7. \A k \in 1 .. m + n : k \in 1 .. m \/ (k - m \in 1 .. n /\ k = m + (k - m))
        OBVIOUS
    <1> QED
        BY <1>1, <1>2, <1>4, <1>5, <1>6, <1>7

LEMMA AskCallsClosed == ClosedUnder(GwAskCalls)
    <1>1. ASSUME NEW a \in GwAskCalls, NEW b \in GwAskCalls PROVE a \o b \in GwAskCalls
        <2>1. ASSUME NEW k \in DOMAIN (a \o b) PROVE (a \o b)[k].do # "rows"
            <3>1. PICK c : c = k - Len(a)
                OBVIOUS
            <3>2. \/ k \in DOMAIN a /\ (a \o b)[k] = a[k]
                  \/ c \in DOMAIN b /\ (a \o b)[k] = b[c]
                BY <3>1, CallsJoined DEF GwAskCalls
            <3> QED
                BY <3>2 DEF GwAskCalls
        <2> QED
            BY <2>1, CallsJoined DEF GwAskCalls
    <1> QED
        BY <1>1 DEF ClosedUnder

LEMMA QueryCallsClosed == ClosedUnder(GwQueryCalls)
    <1>1. ASSUME NEW a \in GwQueryCalls, NEW b \in GwQueryCalls PROVE a \o b \in GwQueryCalls
        <2>1. a \in Seq(GwCalls) /\ b \in Seq(GwCalls)
            BY DEF GwQueryCalls
        <2>2. PICK m \in Nat : m = Len(a)
            BY <2>1
        <2>3. /\ \A k \in DOMAIN a : k \in DOMAIN (a \o b) /\ (a \o b)[k] = a[k]
              /\ \A k \in DOMAIN b : m + k \in DOMAIN (a \o b) /\ (a \o b)[m + k] = b[k]
              /\ \A k \in DOMAIN (a \o b) : k \in DOMAIN a \/ (k - m \in DOMAIN b /\ k = m + (k - m))
              /\ a \o b \in Seq(GwCalls)
            BY <2>1, <2>2, CallsJoined
        <2>4. ASSUME NEW k \in DOMAIN (a \o b)
              PROVE  /\ (a \o b)[k].do # "fetch"
                     /\ (a \o b)[k].do = "rows" =>
                           \E j \in 1 .. k - 1 : (a \o b)[j].do = "open" /\ (a \o b)[j].of = (a \o b)[k].of
            <3>1. CASE k \in DOMAIN a
                <4>1. (a \o b)[k] = a[k] /\ a[k].do # "fetch"
                    BY <2>3, <3>1 DEF GwQueryCalls
                <4>2. ASSUME a[k].do = "rows"
                      PROVE  \E j \in 1 .. k - 1 : (a \o b)[j].do = "open" /\ (a \o b)[j].of = a[k].of
                    <5>1. PICK j \in 1 .. k - 1 : a[j].do = "open" /\ a[j].of = a[k].of
                        BY <3>1, <4>2 DEF GwQueryCalls, GwPrepared
                    <5>2. DOMAIN a = 1 .. m
                        BY <2>1, <2>2
                    <5>3. j \in DOMAIN a
                        BY <3>1, <5>2
                    <5> QED
                        BY <2>3, <5>1, <5>3
                <4> QED
                    BY <4>1, <4>2
            <3>2. CASE k \notin DOMAIN a
                <4>1. PICK c \in DOMAIN b : k = m + c
                    BY <2>3, <3>2
                <4>2. (a \o b)[k] = b[c] /\ b[c].do # "fetch"
                    BY <2>3, <4>1 DEF GwQueryCalls
                <4>3. ASSUME b[c].do = "rows"
                      PROVE  \E j \in 1 .. k - 1 : (a \o b)[j].do = "open" /\ (a \o b)[j].of = b[c].of
                    <5>1. PICK i \in 1 .. c - 1 : b[i].do = "open" /\ b[i].of = b[c].of
                        BY <4>1, <4>3 DEF GwQueryCalls, GwPrepared
                    <5>2. PICK n \in Nat : DOMAIN b = 1 .. n
                        BY <2>1
                    <5>3. i \in DOMAIN b /\ m + i \in 1 .. k - 1
                        BY <4>1, <5>2
                    <5> QED
                        BY <2>3, <5>1, <5>3
                <4> QED
                    BY <4>2, <4>3
            <3> QED
                BY <3>1, <3>2
        <2> QED
            BY <2>3, <2>4 DEF GwQueryCalls, GwPrepared
    <1> QED
        BY <1>1 DEF ClosedUnder

LEMMA EachCalls ==
    ASSUME NEW do \in {"fetch", "open", "rows"}, NEW tiers \in Seq(ShardTiers), NEW i \in ShardIds(GwShardCount)
    PROVE  /\ Each(do, tiers, i) \in Seq(GwCalls) /\ DOMAIN Each(do, tiers, i) = DOMAIN tiers
           /\ \A k \in DOMAIN tiers : Each(do, tiers, i)[k] = [do |-> do, of |-> <<tiers[k], i>>]
    <1>1. PICK n \in Nat : n = Len(tiers) /\ DOMAIN tiers = 1 .. n
        OBVIOUS
    <1>2. Each(do, tiers, i) = [k \in 1 .. n |-> [do |-> do, of |-> <<tiers[k], i>>]]
        BY <1>1 DEF Each, GwStep
    <1>3. \A k \in 1 .. n : [do |-> do, of |-> <<tiers[k], i>>] \in GwCalls
        BY <1>1 DEF GwCalls, GwKeys
    <1> QED
        BY <1>1, <1>2, <1>3

LEMMA RowsCalls == ASSUME NEW i \in ShardIds(GwShardCount) PROVE RowsSteps(i) \in GwQueryCalls
    <1>1. PICK t : t = <<"rdb", "idb", "hdb">>
        OBVIOUS
    <1>2. t \in Seq(ShardTiers) /\ DOMAIN t = 1 .. 3
        BY <1>1 DEF ShardTiers
    <1>3. PICK a, b : a = Each("open", t, i) /\ b = Each("rows", t, i)
        OBVIOUS
    <1>4. /\ a \in Seq(GwCalls) /\ b \in Seq(GwCalls) /\ DOMAIN a = 1 .. 3 /\ DOMAIN b = 1 .. 3
          /\ \A k \in 1 .. 3 : a[k] = [do |-> "open", of |-> <<t[k], i>>] /\ b[k] = [do |-> "rows", of |-> <<t[k], i>>]
        BY <1>2, <1>3, EachCalls
    <1>5. PICK m \in Nat : m = Len(a) /\ m = 3
        BY <1>4
    <1>6. /\ a \o b \in Seq(GwCalls)
          /\ \A k \in 1 .. 3 : k \in DOMAIN (a \o b) /\ (a \o b)[k] = a[k]
          /\ \A k \in 1 .. 3 : 3 + k \in DOMAIN (a \o b) /\ (a \o b)[3 + k] = b[k]
          /\ \A k \in DOMAIN (a \o b) : k \in 1 .. 3 \/ (k - 3 \in 1 .. 3 /\ k = 3 + (k - 3))
        <2>1. /\ a \o b \in Seq(GwCalls)
              /\ \A k \in DOMAIN a : k \in DOMAIN (a \o b) /\ (a \o b)[k] = a[k]
              /\ \A k \in DOMAIN b : m + k \in DOMAIN (a \o b) /\ (a \o b)[m + k] = b[k]
              /\ \A k \in DOMAIN (a \o b) : k \in DOMAIN a \/ (k - m \in DOMAIN b /\ k = m + (k - m))
            <3>1. a \in Seq(GwCalls) /\ b \in Seq(GwCalls) /\ m = Len(a)
                BY <1>4, <1>5
            <3> QED
                BY <3>1, CallsJoined
        <2>2. PICK c : c = a \o b
            OBVIOUS
        <2>3. /\ \A k \in 1 .. 3 : k \in DOMAIN c /\ c[k] = a[k]
              /\ \A k \in 1 .. 3 : 3 + k \in DOMAIN c /\ c[3 + k] = b[k]
              /\ \A k \in DOMAIN c : k \in 1 .. 3 \/ (k - 3 \in 1 .. 3 /\ k = 3 + (k - 3))
            <3>1. m = 3 /\ DOMAIN a = 1 .. 3 /\ DOMAIN b = 1 .. 3
                BY <1>4, <1>5
            <3>2. /\ \A k \in DOMAIN a : k \in DOMAIN c /\ c[k] = a[k]
                  /\ \A k \in DOMAIN b : m + k \in DOMAIN c /\ c[m + k] = b[k]
                  /\ \A k \in DOMAIN c : k \in DOMAIN a \/ (k - m \in DOMAIN b /\ k = m + (k - m))
                BY <2>1, <2>2
            <3> QED
                BY <3>1, <3>2
        <2> QED
            BY <2>1, <2>2, <2>3
    <1>7. ASSUME NEW k \in DOMAIN (a \o b)
          PROVE  /\ (a \o b)[k].do # "fetch"
                 /\ (a \o b)[k].do = "rows" =>
                       \E j \in 1 .. k - 1 : (a \o b)[j].do = "open" /\ (a \o b)[j].of = (a \o b)[k].of
        <2>1. CASE k \in 1 .. 3
            BY <1>4, <1>6, <2>1
        <2>2. CASE k \notin 1 .. 3
            <3>1. PICK j \in 1 .. 3 : k = 3 + j
                BY <1>6, <2>2
            <3>2. (a \o b)[k] = [do |-> "rows", of |-> <<t[j], i>>] /\ (a \o b)[j] = [do |-> "open", of |-> <<t[j], i>>]
                BY <1>4, <1>6, <3>1
            <3>3. j \in 1 .. k - 1
                BY <3>1
            <3> QED
                BY <3>2, <3>3
        <2> QED
            BY <2>1, <2>2
    <1>8. a \o b \in GwQueryCalls
        BY <1>6, <1>7 DEF GwQueryCalls, GwPrepared
    <1> QED
        BY <1>1, <1>3, <1>8 DEF RowsSteps

LEMMA AllRowsCalls == AllRows \in GwQueryCalls
    <1>1. GwShardCount \in Nat \ {0}
        BY GatewayAssumption, LettersAssumption DEF ValidCount
    <1>2. PICK s : s = [k \in 1 .. GwShardCount |-> RowsSteps(k - 1)]
        OBVIOUS
    <1>3. s \in [1 .. GwShardCount -> GwQueryCalls]
        <2>1. \A k \in 1 .. GwShardCount : k - 1 \in ShardIds(GwShardCount)
            BY <1>1 DEF ShardIds
        <2> QED
            BY <1>2, <2>1, RowsCalls
    <1> QED
        BY <1>1, <1>2, <1>3, QueryCallsClosed, FlattenIn DEF AllRows, OverShards

LEMMA BySymCalls == ASSUME NEW letter PROVE RowsBySym(letter) \in GwQueryCalls
    <1>1. GwShardCount \in Nat \ {0}
        BY GatewayAssumption, LettersAssumption DEF ValidCount
    <1>2. PICK table : table = ShardsJson(GwShardCount)
        OBVIOUS
    <1>3. DOMAIN table = ShardIds(GwShardCount) /\ ShardIds(GwShardCount) \subseteq Nat /\ 0 \in ShardIds(GwShardCount)
        BY <1>1, <1>2 DEF ShardsJson, ShardIds
    <1>4. PICK owners : owners = {i \in DOMAIN table : letter \in table[i]}
        OBVIOUS
    <1>5. GatewayShardOf(table, letter) = IF owners = {} THEN 0 ELSE CHOOSE i \in owners : \A j \in owners : i <= j
        BY <1>4 DEF GatewayShardOf
    <1>6. owners \in SUBSET Nat /\ owners \subseteq ShardIds(GwShardCount)
        BY <1>3, <1>4
    <1>7. GatewayShardOf(table, letter) \in ShardIds(GwShardCount)
        <2>1. CASE owners = {}
            BY <1>3, <1>5, <2>1
        <2>2. CASE owners # {}
            <3>1. \E i \in owners : \A j \in owners : i <= j
                BY <1>6, <2>2, LeastNat
            <3>2. (CHOOSE i \in owners : \A j \in owners : i <= j) \in owners
                BY <3>1
            <3> QED
                BY <1>5, <1>6, <2>2, <3>2
        <2> QED
            BY <2>1, <2>2
    <1> QED
        BY <1>2, <1>7, RowsCalls DEF RowsBySym

LEMMA AskEach ==
    ASSUME NEW do \in {"fetch", "open"}, NEW tiers \in Seq(ShardTiers), NEW i \in ShardIds(GwShardCount)
    PROVE  Each(do, tiers, i) \in GwAskCalls
    <1>1. PICK s : s = Each(do, tiers, i)
        OBVIOUS
    <1>2. s \in Seq(GwCalls) /\ \A k \in DOMAIN s : s[k] = [do |-> do, of |-> <<tiers[k], i>>]
        BY <1>1, EachCalls
    <1>3. \A k \in DOMAIN s : s[k].do # "rows"
        BY <1>2
    <1> QED
        BY <1>1, <1>2, <1>3 DEF GwAskCalls

\* A request that fetches from p.
GwAsking(p) == {s \in GwAskCalls : \E k \in DOMAIN s : s[k].do = "fetch" /\ s[k].of = p}

LEMMA AskingKept == ASSUME NEW p PROVE KeptBy(GwAskCalls, GwAsking(p))
    <1>1. ASSUME NEW a \in GwAskCalls, NEW b \in GwAsking(p) PROVE a \o b \in GwAsking(p) /\ b \o a \in GwAsking(p)
        <2>1. a \in Seq(GwCalls) /\ b \in Seq(GwCalls) /\ b \in GwAskCalls
            BY DEF GwAskCalls, GwAsking
        <2>2. PICK k \in DOMAIN b : b[k].do = "fetch" /\ b[k].of = p
            BY DEF GwAsking
        <2>3. PICK j : j = Len(a) + k
            OBVIOUS
        <2>4. j \in DOMAIN (a \o b) /\ (a \o b)[j] = b[k] /\ k \in DOMAIN (b \o a) /\ (b \o a)[k] = b[k]
            BY <2>1, <2>3, CallsJoined
        <2>5. a \o b \in GwAskCalls /\ b \o a \in GwAskCalls
            BY <2>1, AskCallsClosed DEF ClosedUnder
        <2> QED
            BY <2>2, <2>4, <2>5 DEF GwAsking
    <1> QED
        BY <1>1 DEF KeptBy

LEMMA HealthCalls ==
    ASSUME NEW i \in ShardIds(GwShardCount)
    PROVE  HealthSteps(i) \in GwAskCalls /\ \A tier \in ShardTiers : HealthSteps(i) \in GwAsking(<<tier, i>>)
    <1>1. PICK t : t = <<"rdb", "idb", "wdb", "hdb", "tp">>
        OBVIOUS
    <1>2. t \in Seq(ShardTiers) /\ DOMAIN t = 1 .. 5 /\ \A tier \in ShardTiers : \E k \in DOMAIN t : t[k] = tier
        <2>1. t \in Seq(ShardTiers) /\ DOMAIN t = 1 .. 5
            BY <1>1 DEF ShardTiers
        <2>2. t[1] = "rdb" /\ t[2] = "idb" /\ t[3] = "wdb" /\ t[4] = "hdb" /\ t[5] = "tp"
            BY <1>1
        <2>3. 1 \in DOMAIN t /\ 2 \in DOMAIN t /\ 3 \in DOMAIN t /\ 4 \in DOMAIN t /\ 5 \in DOMAIN t
            BY <2>1
        <2> QED
            BY <2>1, <2>2, <2>3 DEF ShardTiers
    <1>3. PICK s : s = Each("fetch", t, i)
        OBVIOUS
    <1>4. s = HealthSteps(i)
        BY <1>1, <1>3 DEF HealthSteps
    <1>5. s \in GwAskCalls
        BY <1>2, <1>3, AskEach
    <1>6. ASSUME NEW tier \in ShardTiers PROVE s \in GwAsking(<<tier, i>>)
        <2>1. PICK k \in DOMAIN t : t[k] = tier
            BY <1>2
        <2>2. k \in DOMAIN s /\ s[k] = [do |-> "fetch", of |-> <<tier, i>>]
            BY <1>2, <1>3, <2>1, EachCalls
        <2> QED
            BY <1>5, <2>2 DEF GwAsking
    <1> QED
        BY <1>4, <1>5, <1>6

LEMMA LagCalls == ASSUME NEW i \in ShardIds(GwShardCount) PROVE LagSteps(i) \in GwAskCalls
    <1>1. PICK t : t = <<"tp", "rdb", "wdb">>
        OBVIOUS
    <1>2. t \in Seq(ShardTiers)
        BY <1>1 DEF ShardTiers
    <1> QED
        BY <1>1, <1>2, AskEach DEF LagSteps

LEMMA MetricsCalls == ASSUME NEW i \in ShardIds(GwShardCount) PROVE MetricsSteps(i) \in GwAskCalls
    <1>1. PICK t, u : t = <<"tp", "rdb", "wdb", "hdb">> /\ u = <<"hdb", "rdb">>
        OBVIOUS
    <1>2. t \in Seq(ShardTiers) /\ u \in Seq(ShardTiers)
        BY <1>1 DEF ShardTiers
    <1>3. Each("fetch", t, i) \in GwAskCalls /\ Each("open", u, i) \in GwAskCalls
        BY <1>2, AskEach
    <1> QED
        BY <1>1, <1>3, AskCallsClosed DEF MetricsSteps, ClosedUnder

LEMMA AskedCalls ==
    /\ \A kind \in GwSpecials : GwSteps(kind) \in GwAskCalls
    /\ \A p \in GwKeys : GwSteps("health") \in GwAsking(p)
    <1>1. GwShardCount \in Nat \ {0}
        BY GatewayAssumption, LettersAssumption DEF ValidCount
    <1>2. \A k \in 1 .. GwShardCount : k - 1 \in ShardIds(GwShardCount)
        BY <1>1 DEF ShardIds
    <1>3. PICK h, l, m : /\ h = [k \in 1 .. GwShardCount |-> HealthSteps(k - 1)]
                         /\ l = [k \in 1 .. GwShardCount |-> LagSteps(k - 1)]
                         /\ m = [k \in 1 .. GwShardCount |-> MetricsSteps(k - 1)]
        OBVIOUS
    <1>4. /\ h \in [1 .. GwShardCount -> GwAskCalls]
          /\ l \in [1 .. GwShardCount -> GwAskCalls]
          /\ m \in [1 .. GwShardCount -> GwAskCalls]
        BY <1>2, <1>3, HealthCalls, LagCalls, MetricsCalls
    <1>5. FlattenSeq(h) \in GwAskCalls /\ FlattenSeq(l) \in GwAskCalls /\ FlattenSeq(m) \in GwAskCalls
        BY <1>1, <1>4, AskCallsClosed, FlattenIn
    <1>6. GwSteps("health") = FlattenSeq(h) /\ GwSteps("lag") = FlattenSeq(l) /\ GwSteps("metrics") = FlattenSeq(m)
        BY <1>3 DEF GwSteps, OverShards
    <1>7. ASSUME NEW p \in GwKeys PROVE FlattenSeq(h) \in GwAsking(p)
        <2>1. PICK tier \in ShardTiers, i \in ShardIds(GwShardCount) : p = <<tier, i>>
            BY DEF GwKeys
        <2>2. i + 1 \in 1 .. GwShardCount /\ (i + 1) - 1 = i
            BY <1>1 DEF ShardIds
        <2>3. h[i + 1] \in GwAsking(p)
            BY <1>3, <2>1, <2>2, HealthCalls
        <2>4. GwAsking(p) \in SUBSET GwAskCalls
            BY DEF GwAsking
        <2>5. PICK d \in 1 .. GwShardCount : d = i + 1
            BY <2>2
        <2>6. h[d] \in GwAsking(p) /\ KeptBy(GwAskCalls, GwAsking(p))
            BY <2>3, <2>5, AskingKept
        <2> QED
            BY <1>1, <1>4, <2>4, <2>5, <2>6, AskCallsClosed, FlattenHas
    <1> QED
        BY <1>5, <1>6, <1>7 DEF GwSpecials

-----------------------------------------------------------------------------
(* The gateway: who asks, and what comes and goes *)

\* A connection is accepted on a number that was free.
LEMMA AcceptKeeps ==
    ASSUME GwShape, GwLinks, gwReq.at = "idle", UNCHANGED gwConn, NEW m \in GwNumbers, m = Lowest(gwFd), gwFd[m] = GwFree,
           NEW end \in {GwCaller, GwGuest}, gwFd' = [gwFd EXCEPT ![m] = end], gwStaff' = Accepted(gwFd, gwConn, gwStaff),
           end = GwCaller => gwCaller'.n = m /\ \A n \in GwNumbers : gwFd[n] # GwCaller,
           end = GwGuest => gwCaller'.n = gwCaller.n /\ gwReq'.at = "serving"
    PROVE  /\ gwFd' \in [GwNumbers -> GwKeys \cup GwEnds]
           /\ \A n \in GwNumbers : gwFd'[n] = IF n = m THEN end ELSE gwFd[n]
           /\ gwStaff' \in [up : SUBSET GwKeys, steady : [GwKeys -> 0 .. 2], reused : BOOLEAN]
           /\ gwStaff'.up = gwStaff.up /\ gwStaff'.steady = gwStaff.steady
           /\ ~gwStaff'.reused => ~gwStaff.reused /\ \A p \in GwKeys : GwSound(p) => GwSound(p)'
           /\ GwLinks'
    <1>1. gwFd' \in [GwNumbers -> GwKeys \cup GwEnds]
        BY DEF GwShape, GwEnds
    <1>2. \A n \in GwNumbers : gwFd'[n] = IF n = m THEN end ELSE gwFd[n]
        BY DEF GwShape
    <1>3. /\ gwStaff' \in [up : SUBSET GwKeys, steady : [GwKeys -> 0 .. 2], reused : BOOLEAN]
          /\ gwStaff'.up = gwStaff.up /\ gwStaff'.steady = gwStaff.steady
          /\ ~gwStaff'.reused => ~gwStaff.reused /\ \A p \in DOMAIN gwConn : gwConn[p] # m
        <2>1. gwStaff' = [gwStaff EXCEPT !.reused = @ \/ GivesAway(gwConn, gwFd)]
            BY DEF Accepted
        <2>2. GivesAway(gwConn, gwFd) \in BOOLEAN
            BY DEF GivesAway
        <2>3. PICK b \in BOOLEAN : b = (gwStaff.reused \/ GivesAway(gwConn, gwFd))
            BY <2>2 DEF GwShape
        <2>4. gwStaff' = [gwStaff EXCEPT !.reused = b]
            BY <2>1, <2>3
        <2>5. gwStaff' = [up |-> gwStaff.up, steady |-> gwStaff.steady, reused |-> b]
            BY <2>4 DEF GwShape
        <2>6. ~b => ~gwStaff.reused /\ \A p \in DOMAIN gwConn : gwConn[p] # m
            BY <2>3 DEF GivesAway
        <2> QED
            BY <2>5, <2>6 DEF GwShape
    <1>4. \A p \in DOMAIN gwConn : gwConn[p] \in GwNumbers /\ p \in GwKeys
        BY DEF GwShape
    <1>5. ~gwStaff'.reused => \A p \in GwKeys : GwSound(p) => GwSound(p)'
        BY <1>2, <1>3, <1>4 DEF GwSound
    <1>6. GwLinks'
        <2>1. \A n \in GwNumbers : gwFd'[n] \in GwKeys => gwFd'[n] \in DOMAIN gwConn' /\ gwConn'[gwFd'[n]] = n
            BY <1>2, EndsApart DEF GwLinks, GwEnds
        <2>2. \A n \in GwNumbers : gwFd'[n] = GwCaller => gwCaller'.n = n
            BY <1>2, EndsApart DEF GwLinks
        <2>3. \A k, n \in GwNumbers : GwAstray(k)' /\ GwAstray(n)' => k = n
            <3>1. CASE end = GwCaller
                <4>1. \A k \in GwNumbers : gwFd[k] # GwCaller /\ gwFd[k] # GwEnded
                    BY <3>1 DEF GwLinks
                <4>2. \A k \in GwNumbers : GwAstray(k)' => k = m
                    BY <1>2, <4>1 DEF GwAstray
                <4> QED
                    BY <4>2
            <3>2. CASE end = GwGuest
                <4>1. \A k \in GwNumbers : GwAstray(k)' => GwAstray(k)
                    BY <1>2, <3>2, EndsApart DEF GwAstray
                <4> QED
                    BY <4>1 DEF GwLinks
            <3> QED
                BY <3>1, <3>2
        <2>4. \A k, n \in GwNumbers : gwFd'[k] = GwGuest /\ gwFd'[n] = GwGuest => k = n
            BY <1>2 DEF GwLinks
        <2>5. gwReq'.at # "serving" => \A n \in GwNumbers : gwFd'[n] \notin {GwEnded, GwGuest}
            BY <1>2, EndsApart DEF GwLinks
        <2>6. ~gwStaff'.reused => \A p \in DOMAIN gwConn' : gwFd'[gwConn'[p]] \in {p, GwFree, GwEnded}
            BY <1>2, <1>3, <1>4 DEF GwLinks
        <2> QED
            BY <2>1, <2>2, <2>3, <2>4, <2>5, <2>6 DEF GwLinks
    <1> QED
        BY <1>1, <1>2, <1>3, <1>5, <1>6

LEMMA CallerConnectsGoes == ASSUME GwInv, CallerConnects, UNCHANGED gwReq PROVE GwInv'
    <1>1. /\ GwShape /\ GwLinks /\ GwFresh /\ GwCall /\ GwReqShape /\ GwGot /\ GwQuery
          /\ gwCaller.at = "calling" /\ gwCaller.n = 0 /\ gwReq.at = "idle"
          /\ gwCaller' = [gwCaller EXCEPT !.n = Lowest(gwFd)]
          /\ gwFd' = [gwFd EXCEPT ![Lowest(gwFd)] = GwCaller]
          /\ gwStaff' = Accepted(gwFd, gwConn, gwStaff)
          /\ UNCHANGED <<gwConn, gwReq>>
        BY DEF GwInv, CallerConnects
    <1>2. \A n \in GwNumbers : ~GwAstray(n) /\ gwFd[n] # GwGuest /\ gwFd[n] # GwCaller
        BY <1>1, NumbersOf DEF GwLinks, GwAstray
    <1>3. PICK m \in GwNumbers : m = Lowest(gwFd) /\ gwFd[m] = GwFree
        <2>1. GwKeys # GwKeys \cup {GwCaller, GwGuest}
            BY EndsApart DEF GwEnds
        <2>2. GwKeys \in SUBSET (GwKeys \cup {GwCaller, GwGuest}) /\ DOMAIN gwConn \subseteq GwKeys
            BY <1>1 DEF GwShape
        <2>3. Lowest(gwFd) \in GwNumbers /\ gwFd[Lowest(gwFd)] = GwFree
            BY <1>1, <1>2, <2>1, <2>2, SomeNumberIsFree
        <2> QED
            BY <2>3
    <1>4. gwCaller' = [n |-> m, at |-> "calling", kind |-> gwCaller.kind, tries |-> gwCaller.tries, faults |-> gwCaller.faults]
        BY <1>1, <1>3, GwClientIs
    <1>5. gwCaller' \in GwClients
        BY <1>1, <1>4, GwClientIs, GwClientOf
    <1>6. /\ gwFd' \in [GwNumbers -> GwKeys \cup GwEnds]
          /\ \A n \in GwNumbers : gwFd'[n] = IF n = m THEN GwCaller ELSE gwFd[n]
          /\ gwStaff' \in [up : SUBSET GwKeys, steady : [GwKeys -> 0 .. 2], reused : BOOLEAN]
          /\ gwStaff'.up = gwStaff.up /\ gwStaff'.steady = gwStaff.steady
          /\ ~gwStaff'.reused => ~gwStaff.reused /\ \A p \in GwKeys : GwSound(p) => GwSound(p)'
          /\ GwLinks'
        BY <1>1, <1>2, <1>3, <1>4, EndsApart, AcceptKeeps
    <1>7. GwShape'
        BY <1>1, <1>5, <1>6 DEF GwShape
    <1>8. GwFresh'
        BY <1>1, <1>6 DEF GwFresh, GwUnasked
    <1>9. GwCall'
        <2>1. GwBroken' = 0 /\ GwBroken = 0
            BY <1>1, <1>4, <1>6 DEF GwBroken
        <2> QED
            BY <1>1, <1>4, <2>1 DEF GwCall
    <1>10. GwReqShape' /\ GwGot' /\ GwQuery'
        BY <1>1 DEF GwReqShape, GwGot, GwQuery
    <1> QED
        BY <1>6, <1>7, <1>8, <1>9, <1>10 DEF GwInv

\* What a request that begins is.
LEMMA RequestShape ==
    ASSUME GwShape, NEW kind \in GwSpecials \cup {"query"}, NEW n \in {0} \cup GwNumbers, NEW steps \in Seq(GwCalls),
           kind = "query" => steps \in GwQueryCalls, kind # "query" => steps \in GwAskCalls,
           gwReq' = GwRequest(kind, n, steps)
    PROVE  /\ GwReqShape' /\ GwGot'
           /\ gwReq'.at = "serving" /\ gwReq'.kind = kind /\ gwReq'.todo = steps /\ gwReq'.ready = gwStaff.up
           /\ DOMAIN gwReq'.held = {}
           /\ gwReq'.sound => \A p \in DOMAIN gwConn : GwSound(p)
    <1>1. gwReq' = [at |-> "serving", kind |-> kind, from |-> n, todo |-> steps, held |-> <<>>, got |-> <<>>,
                    failed |-> FALSE, ready |-> gwStaff.up, sound |-> \A p \in DOMAIN gwConn : gwFd[gwConn[p]] = p]
        BY DEF GwRequest
    <1>2. DOMAIN <<>> = {}
        OBVIOUS
    <1>3. /\ \A k \in DOMAIN steps : steps[k].do # (IF kind = "query" THEN "fetch" ELSE "rows")
          /\ GwPrepared(steps, {})
        <2>1. CASE kind = "query"
            BY <2>1 DEF GwQueryCalls
        <2>2. CASE kind # "query"
            BY <2>2 DEF GwAskCalls, GwPrepared
        <2> QED
            BY <2>1, <2>2
    <1>4. PICK b \in BOOLEAN : b = (\A p \in DOMAIN gwConn : gwFd[gwConn[p]] = p)
        OBVIOUS
    <1>5. gwReq' = [at |-> "serving", kind |-> kind, from |-> n, todo |-> steps, held |-> <<>>, got |-> <<>>,
                    failed |-> FALSE, ready |-> gwStaff.up, sound |-> b]
        BY <1>1, <1>4
    <1>6. GwReqShape'
        BY <1>2, <1>3, <1>5 DEF GwReqShape
    <1>7. GwGot'
        BY <1>2, <1>5 DEF GwGot
    <1>8. b => \A p \in DOMAIN gwConn : GwSound(p)
        BY <1>4 DEF GwSound
    <1> QED
        BY <1>2, <1>5, <1>6, <1>7, <1>8

LEMMA GuestAsksGoes == ASSUME GwInv, NEW steps \in GwQueryCalls, GuestAsks(steps) PROVE GwInv'
    <1>1. /\ GwShape /\ GwLinks /\ GwFresh /\ GwCall
          /\ gwReq.at = "idle" /\ gwReq' = GwRequest("query", 0, steps)
          /\ gwFd' = [gwFd EXCEPT ![Lowest(gwFd)] = GwGuest]
          /\ gwStaff' = Accepted(gwFd, gwConn, gwStaff)
          /\ UNCHANGED <<gwConn, gwCaller>>
        BY DEF GwInv, GuestAsks
    <1>2. \A n \in GwNumbers : gwFd[n] # GwGuest
        BY <1>1 DEF GwLinks
    <1>3. PICK m \in GwNumbers : m = Lowest(gwFd) /\ gwFd[m] = GwFree
        <2> DEFINE T == GwKeys \cup {GwCaller}
        <2>1. T # GwKeys \cup {GwCaller, GwGuest}
            BY EndsApart DEF GwEnds
        <2>2. T \in SUBSET (GwKeys \cup {GwCaller, GwGuest}) /\ DOMAIN gwConn \subseteq T /\ GwCaller \in T
            BY <1>1 DEF GwShape
        <2> HIDE DEF T
        <2>3. Lowest(gwFd) \in GwNumbers /\ gwFd[Lowest(gwFd)] = GwFree
            BY <1>1, <1>2, <2>1, <2>2, SomeNumberIsFree
        <2> QED
            BY <2>3
    <1>4. /\ GwReqShape' /\ GwGot'
          /\ gwReq'.at = "serving" /\ gwReq'.kind = "query" /\ gwReq'.ready = gwStaff.up
          /\ DOMAIN gwReq'.held = {}
          /\ gwReq'.sound => \A p \in DOMAIN gwConn : GwSound(p)
        <2>1. steps \in Seq(GwCalls)
            BY DEF GwQueryCalls
        <2> QED
            BY <1>1, <2>1, RequestShape
    <1>5. /\ gwFd' \in [GwNumbers -> GwKeys \cup GwEnds]
          /\ \A n \in GwNumbers : gwFd'[n] = IF n = m THEN GwGuest ELSE gwFd[n]
          /\ gwStaff' \in [up : SUBSET GwKeys, steady : [GwKeys -> 0 .. 2], reused : BOOLEAN]
          /\ gwStaff'.up = gwStaff.up /\ gwStaff'.steady = gwStaff.steady
          /\ ~gwStaff'.reused => ~gwStaff.reused /\ \A p \in GwKeys : GwSound(p) => GwSound(p)'
          /\ GwLinks'
        BY <1>1, <1>3, <1>4, EndsApart, AcceptKeeps
    <1>6. GwShape'
        BY <1>1, <1>5 DEF GwShape
    <1>7. GwFresh'
        BY <1>1, <1>4, <1>5 DEF GwFresh, GwUnasked
    <1>8. GwCall'
        <2>1. GwBroken' = GwBroken
            BY <1>1, <1>3, <1>5, EndsApart DEF GwBroken, GwShape, GwClients
        <2> QED
            BY <1>1, <2>1 DEF GwCall
    <1>9. GwQuery'
        <2>1. ASSUME gwReq'.sound, NEW p \in DOMAIN gwConn PROVE GwSound(p)'
            <3>1. gwFd[gwConn[p]] = p /\ p \in GwKeys /\ gwConn[p] \in GwNumbers
                BY <1>1, <1>4, <2>1 DEF GwSound, GwShape
            <3>2. gwConn[p] # m
                BY <1>3, <3>1, EndsApart DEF GwEnds
            <3> QED
                BY <1>1, <1>5, <3>1, <3>2 DEF GwSound
        <2> QED
            BY <1>1, <1>4, <1>5, <2>1 DEF GwQuery
    <1> QED
        BY <1>4, <1>5, <1>6, <1>7, <1>8, <1>9 DEF GwInv

LEMMA CallerAsksGoes == ASSUME GwInv, CallerAsks PROVE GwInv'
    <1>1. /\ GwShape /\ GwLinks /\ GwFresh /\ GwCall
          /\ gwCaller.at = "calling" /\ CallerLinked /\ gwReq.at = "idle"
          /\ gwReq' = GwRequest(gwCaller.kind, gwCaller.n, GwSteps(gwCaller.kind))
          /\ gwStaff' = [gwStaff EXCEPT !.steady = Counting(gwCaller.kind)]
          /\ UNCHANGED <<gwConn, gwFd, gwCaller>>
        BY DEF GwInv, CallerAsks
    <1>2. PICK kind \in GwSpecials : kind = gwCaller.kind
        BY <1>1, GwClientIs
    <1>3. PICK steps \in GwAskCalls : steps = GwSteps(kind)
        BY AskedCalls
    <1>4. kind # "query" /\ gwCaller.n \in {0} \cup GwNumbers
        BY <1>1, GwClientIs DEF GwSpecials
    <1>5. /\ GwReqShape' /\ GwGot'
          /\ gwReq'.at = "serving" /\ gwReq'.kind = kind /\ gwReq'.todo = steps
        <2>1. steps \in Seq(GwCalls)
            BY DEF GwAskCalls
        <2>2. gwReq' = GwRequest(kind, gwCaller.n, steps)
            BY <1>1, <1>2, <1>3
        <2> QED
            BY <1>1, <1>4, <2>1, <2>2, RequestShape
    <1>6. /\ Counting(kind) \in [GwKeys -> 0 .. 2]
          /\ kind # "health" => Counting(kind) = gwStaff.steady
          /\ kind = "health" => \A p \in GwKeys :
                /\ Counting(kind)[p] # 0 => p \in gwStaff.up
                /\ Counting(kind)[p] = 2 => gwStaff.steady[p] # 0
        <2>1. gwStaff.steady \in [GwKeys -> 0 .. 2]
            BY <1>1 DEF GwShape
        <2>2. ASSUME NEW x \in 0 .. 2
              PROVE  Min({2, x + 1}) \in 1 .. 2 /\ (Min({2, x + 1}) = 2 => x # 0)
            <3>1. PICK y : y = Min({2, x + 1})
                OBVIOUS
            <3>2. y = CHOOSE z \in {2, x + 1} : \A w \in {2, x + 1} : z <= w
                BY <3>1 DEF Min
            <3>3. \E z \in {2, x + 1} : \A w \in {2, x + 1} : z <= w
                BY <2>2
            <3>4. y \in {2, x + 1} /\ \A w \in {2, x + 1} : y <= w
                BY <3>2, <3>3
            <3> QED
                BY <3>1, <3>4
        <2>3. CASE kind # "health"
            BY <2>1, <2>3 DEF Counting
        <2>4. CASE kind = "health"
            <3>1. Counting(kind) = [p \in GwKeys |-> IF p \in gwStaff.up THEN Min({2, gwStaff.steady[p] + 1}) ELSE 0]
                BY <2>4 DEF Counting
            <3>2. ASSUME NEW p \in GwKeys
                  PROVE  /\ Counting(kind)[p] \in 0 .. 2
                         /\ Counting(kind)[p] # 0 => p \in gwStaff.up
                         /\ Counting(kind)[p] = 2 => gwStaff.steady[p] # 0
                <4>1. PICK x \in 0 .. 2 : x = gwStaff.steady[p]
                    BY <2>1
                <4>2. Counting(kind)[p] = IF p \in gwStaff.up THEN Min({2, x + 1}) ELSE 0
                    BY <3>1, <4>1
                <4>3. PICK y \in 1 .. 2 : y = Min({2, x + 1}) /\ (y = 2 => x # 0)
                    BY <2>2
                <4> QED
                    BY <4>1, <4>2, <4>3
            <3>3. Counting(kind) \in [GwKeys -> 0 .. 2]
                BY <3>1, <3>2
            <3> QED
                BY <2>4, <3>2, <3>3
        <2> QED
            BY <2>3, <2>4
    <1>7. gwStaff' = [up |-> gwStaff.up, steady |-> Counting(kind), reused |-> gwStaff.reused]
        BY <1>1, <1>2 DEF GwShape
    <1>8. GwShape'
        BY <1>1, <1>6, <1>7 DEF GwShape
    <1>9. GwLinks'
        <2>1. \A n \in GwNumbers : GwAstray(n)' <=> GwAstray(n)
            BY <1>1 DEF GwAstray
        <2> QED
            BY <1>1, <1>5, <1>7, <2>1 DEF GwLinks
    <1>10. GwFresh'
        <2>1. \A p : GwSound(p)' <=> GwSound(p)
            BY <1>1 DEF GwSound
        <2>2. \A p : ~GwUnasked(p)
            BY <1>1 DEF GwUnasked
        <2>3. CASE kind # "health"
            BY <1>1, <1>6, <1>7, <2>1, <2>2, <2>3 DEF GwFresh
        <2>4. CASE kind = "health"
            <3>1. ASSUME NEW p \in GwKeys PROVE GwUnasked(p)'
                <4>1. steps \in GwAsking(p)
                    BY <1>3, <2>4, AskedCalls
                <4>2. PICK k \in DOMAIN steps : steps[k].do = "fetch" /\ steps[k].of = p
                    BY <4>1 DEF GwAsking
                <4> QED
                    BY <1>5, <2>4, <4>2 DEF GwUnasked
            <3>2. ASSUME NEW p \in GwKeys, ~gwStaff.reused, Counting(kind)[p] = 2 PROVE GwSound(p)
                <4>1. gwStaff.steady[p] # 0 /\ gwStaff.steady[p] \in 0 .. 2
                    BY <1>1, <1>6, <2>4, <3>2 DEF GwShape
                <4> QED
                    BY <1>1, <2>2, <3>2, <4>1 DEF GwFresh
            <3> QED
                BY <1>6, <1>7, <2>1, <2>4, <3>1, <3>2 DEF GwFresh
        <2> QED
            BY <2>3, <2>4
    <1>11. GwCall'
        <2>1. GwBroken' = GwBroken
            BY <1>1 DEF GwBroken
        <2> QED
            BY <1>1, <2>1 DEF GwCall
    <1>12. GwQuery'
        BY <1>4, <1>5 DEF GwQuery
    <1> QED
        BY <1>5, <1>8, <1>9, <1>10, <1>11, <1>12 DEF GwInv

LEMMA CallerTimesOutGoes == ASSUME GwInv, CallerTimesOut PROVE GwInv'
    <1>1. /\ GwShape /\ GwLinks /\ GwFresh /\ GwCall /\ GwReqShape /\ GwGot /\ GwQuery
          /\ gwCaller.at = "calling" /\ gwReq.at = "serving" /\ gwCaller.n # 0 /\ gwFd[gwCaller.n] = GwCaller
          /\ gwCaller' = CallRaises([gwCaller EXCEPT !.faults = @ + 1])
          /\ gwFd' = [gwFd EXCEPT ![gwCaller.n] = GwEnded]
          /\ UNCHANGED <<gwConn, gwReq, gwStaff>>
        BY DEF GwInv, CallerTimesOut, CallerAwaits, CallerLinked
    <1>2. PICK n \in GwNumbers : n = gwCaller.n
        BY <1>1, GwClientIs
    <1>3. \A k \in GwNumbers : gwFd'[k] = IF k = n THEN GwEnded ELSE gwFd[k]
        BY <1>1, <1>2 DEF GwShape
    <1>4. GwBroken = 0 /\ gwCaller.tries \in {0, 1} /\ gwCaller.faults >= gwCaller.tries + GwBroken
        BY <1>1 DEF GwCall, GwBroken
    <1>5. PICK t, f : t = gwCaller.tries /\ f = gwCaller.faults /\ t \in {0, 1} /\ f \in Nat /\ f >= t
        BY <1>1, <1>4, GwClientIs
    <1>6. PICK c : c = [n |-> gwCaller.n, at |-> "calling", kind |-> gwCaller.kind, tries |-> t, faults |-> f + 1]
        OBVIOUS
    <1>7. c = [gwCaller EXCEPT !.faults = @ + 1]
        BY <1>1, <1>5, <1>6, GwClientIs
    <1>8. c \in GwClients
        BY <1>1, <1>5, <1>6, GwClientIs, GwClientOf
    <1>9. /\ gwCaller' \in GwClients /\ gwCaller'.n = 0 /\ gwCaller'.faults = f + 1 /\ gwCaller'.tries = t + 1
          /\ gwCaller'.at = IF t = 1 THEN "defaulted" ELSE "calling"
        <2>1. c.at = "calling" /\ c.tries = t /\ c.faults = f + 1 /\ c.tries \in {0, 1}
            BY <1>5, <1>6
        <2>2. gwCaller' = CallRaises(c)
            BY <1>1, <1>7
        <2> QED
            BY <1>8, <2>1, <2>2, RaisesFacts
    <1>10. GwShape'
        <2>1. gwFd' \in [GwNumbers -> GwKeys \cup GwEnds]
            BY <1>1 DEF GwShape, GwEnds
        <2> QED
            BY <1>1, <1>9, <2>1 DEF GwShape
    <1>11. GwLinks'
        <2>1. \A k \in GwNumbers : gwFd'[k] \in GwKeys => gwFd'[k] \in DOMAIN gwConn' /\ gwConn'[gwFd'[k]] = k
            BY <1>1, <1>3, EndsApart DEF GwLinks, GwEnds
        <2>2. \A k \in GwNumbers : gwFd'[k] # GwCaller
            BY <1>1, <1>2, <1>3, EndsApart DEF GwLinks
        <2>3. \A k \in GwNumbers : GwAstray(k)' => GwAstray(k)
            BY <1>1, <1>2, <1>3, <2>2 DEF GwAstray
        <2>4. \A j, k \in GwNumbers : gwFd'[j] = GwGuest /\ gwFd'[k] = GwGuest => j = k
            BY <1>1, <1>3, EndsApart DEF GwLinks
        <2>5. ~gwStaff'.reused => \A p \in DOMAIN gwConn' : gwFd'[gwConn'[p]] \in {p, GwFree, GwEnded}
            BY <1>1, <1>3 DEF GwLinks, GwShape
        <2> QED
            BY <1>1, <2>1, <2>2, <2>3, <2>4, <2>5 DEF GwLinks
    <1>12. \A p \in GwKeys : GwSound(p) => GwSound(p)'
        <2>1. \A p \in DOMAIN gwConn : gwConn[p] \in GwNumbers /\ p \in GwKeys
            BY <1>1 DEF GwShape
        <2> QED
            BY <1>1, <1>2, <1>3, <2>1, EndsApart DEF GwSound, GwEnds
    <1>13. GwFresh'
        <2>1. \A p : GwUnasked(p)' <=> GwUnasked(p)
            BY <1>1 DEF GwUnasked
        <2> QED
            BY <1>1, <1>12, <2>1 DEF GwFresh
    <1>14. GwCall'
        <2>1. GwBroken' = 0
            BY <1>9 DEF GwBroken
        <2>2. t + 1 \in {1, 2} /\ f + 1 >= t + 1 /\ (t = 1 => f + 1 >= 2) /\ f + 1 >= 0
            BY <1>5
        <2>3. gwCaller'.at = "calling" => t = 0
            BY <1>5, <1>9
        <2>4. gwCaller'.at = "defaulted" => t = 1
            BY <1>5, <1>9
        <2> QED
            BY <1>5, <1>9, <2>1, <2>2, <2>3, <2>4 DEF GwCall
    <1>15. GwReqShape' /\ GwGot'
        BY <1>1 DEF GwReqShape, GwGot
    <1>16. GwQuery'
        <2>1. \A p \in DOMAIN gwConn : p \in GwKeys
            BY <1>1 DEF GwShape
        <2> QED
            BY <1>1, <1>12, <2>1 DEF GwQuery
    <1> QED
        BY <1>10, <1>11, <1>13, <1>14, <1>15, <1>16 DEF GwInv

LEMMA ProcessDiesGoes == ASSUME GwInv, NEW p \in GwKeys, ProcessDies(p) PROVE GwInv'
    <1>1. /\ GwShape /\ GwLinks /\ GwFresh /\ GwCall /\ GwReqShape /\ GwGot /\ GwQuery
          /\ p \in gwStaff.up /\ gwStaff' = [gwStaff EXCEPT !.up = @ \ {p}, !.steady[p] = 0]
          /\ gwReq' = IF gwReq.at = "serving" THEN [gwReq EXCEPT !.ready = @ \ {p}, !.sound = FALSE] ELSE gwReq
          /\ UNCHANGED <<gwConn, gwCaller>>
        BY DEF GwInv, ProcessDies
    <1>2. PICK e \in {GwEnded, GwFree} :
             /\ gwFd' \in [GwNumbers -> GwKeys \cup GwEnds]
             /\ \A n \in GwNumbers : gwFd'[n] = IF gwFd[n] = p THEN e ELSE gwFd[n]
             /\ gwReq.at # "serving" => e = GwFree
        <2>1. PICK left : left = [n \in GwNumbers |-> IF gwFd[n] = p THEN GwEnded ELSE gwFd[n]]
            OBVIOUS
        <2>2. gwFd' = IF gwReq.at = "serving" THEN left ELSE Looked(left)
            BY <2>1 DEF ProcessDies
        <2>3. left \in [GwNumbers -> GwKeys \cup GwEnds]
            BY <1>1, <2>1 DEF GwShape, GwEnds
        <2>4. CASE gwReq.at = "serving"
            BY <2>1, <2>2, <2>3, <2>4
        <2>5. CASE gwReq.at # "serving"
            <3>1. gwFd' = [n \in GwNumbers |-> IF left[n] = GwEnded THEN GwFree ELSE left[n]]
                BY <2>2, <2>5 DEF Looked
            <3>2. \A n \in GwNumbers : gwFd[n] # GwEnded
                BY <1>1, <2>5 DEF GwLinks
            <3>3. \A n \in GwNumbers : gwFd'[n] = IF gwFd[n] = p THEN GwFree ELSE gwFd[n]
                BY <2>1, <3>1, <3>2
            <3>4. gwFd' \in [GwNumbers -> GwKeys \cup GwEnds]
                BY <2>3, <3>1 DEF GwEnds
            <3> QED
                BY <3>3, <3>4
        <2> QED
            BY <2>4, <2>5
    <1>3. p \notin GwEnds /\ e \notin GwKeys
        BY EndsApart DEF GwEnds
    <1>4. PICK steady : steady = [gwStaff.steady EXCEPT ![p] = 0]
        OBVIOUS
    <1>5. /\ steady \in [GwKeys -> 0 .. 2] /\ steady[p] = 0 /\ \A q \in GwKeys : q # p => steady[q] = gwStaff.steady[q]
        BY <1>1, <1>4 DEF GwShape
    <1>6. gwStaff' = [up |-> gwStaff.up \ {p}, steady |-> steady, reused |-> gwStaff.reused]
        BY <1>1, <1>4 DEF GwShape
    <1>7. GwShape'
        BY <1>1, <1>2, <1>5, <1>6 DEF GwShape
    <1>8. /\ gwReq'.at = gwReq.at
          /\ gwReq.at # "serving" => gwReq' = gwReq
          /\ gwReq.at = "serving" =>
                gwReq' = [at |-> "serving", kind |-> gwReq.kind, from |-> gwReq.from, todo |-> gwReq.todo,
                          held |-> gwReq.held, got |-> gwReq.got, failed |-> gwReq.failed,
                          ready |-> gwReq.ready \ {p}, sound |-> FALSE]
        BY <1>1 DEF GwReqShape
    <1>9. GwLinks'
        <2>1. \A n \in GwNumbers : gwFd'[n] \in GwKeys => gwFd'[n] \in DOMAIN gwConn' /\ gwConn'[gwFd'[n]] = n
            BY <1>1, <1>2, <1>3 DEF GwLinks
        <2>2. \A n \in GwNumbers : gwFd'[n] = GwCaller => gwCaller'.n = n
            BY <1>1, <1>2, EndsApart DEF GwLinks
        <2>3. \A n \in GwNumbers : GwAstray(n)' => GwAstray(n)
            <3>1. ASSUME NEW n \in GwNumbers, GwAstray(n)', gwFd[n] = p PROVE FALSE
                <4>1. p \in DOMAIN gwConn /\ gwConn[p] = n
                    BY <1>1, <3>1 DEF GwLinks
                <4>2. gwFd'[n] = e /\ e # GwCaller
                    BY <1>2, <3>1, EndsApart
                <4> QED
                    BY <1>1, <3>1, <4>1, <4>2 DEF GwAstray
            <3>2. ASSUME NEW n \in GwNumbers, GwAstray(n)', gwFd[n] # p PROVE GwAstray(n)
                BY <1>1, <1>2, <3>2 DEF GwAstray
            <3> QED
                BY <3>1, <3>2
        <2>4. \A m, n \in GwNumbers : gwFd'[m] = GwGuest /\ gwFd'[n] = GwGuest => m = n
            BY <1>1, <1>2, EndsApart DEF GwLinks
        <2>5. gwReq'.at # "serving" => \A n \in GwNumbers : gwFd'[n] \notin {GwEnded, GwGuest}
            BY <1>1, <1>2, <1>8, EndsApart DEF GwLinks
        <2>6. ~gwStaff'.reused => \A q \in DOMAIN gwConn' : gwFd'[gwConn'[q]] \in {q, GwFree, GwEnded}
            BY <1>1, <1>2, <1>6 DEF GwLinks, GwShape
        <2> QED
            BY <1>1, <2>1, <2>2, <2>3, <2>4, <2>5, <2>6 DEF GwLinks
    <1>10. ASSUME NEW q \in GwKeys, q # p, GwSound(q) PROVE GwSound(q)'
        <2>1. q \in DOMAIN gwConn => gwConn[q] \in GwNumbers
            BY <1>1 DEF GwShape
        <2> QED
            BY <1>1, <1>2, <1>10, <2>1 DEF GwSound
    <1>11. GwFresh'
        <2>1. \A q : GwUnasked(q)' <=> GwUnasked(q)
            BY <1>8 DEF GwUnasked
        <2>2. \A q \in GwKeys : gwStaff'.steady[q] = IF q = p THEN 0 ELSE gwStaff.steady[q]
            BY <1>5, <1>6
        <2>3. \A q \in GwKeys : gwStaff'.steady[q] # 0 => q \in gwStaff'.up
            BY <1>1, <1>6, <2>2 DEF GwFresh
        <2>4. gwStaff'.reused = gwStaff.reused
            BY <1>6
        <2> QED
            BY <1>1, <1>10, <2>1, <2>2, <2>3, <2>4 DEF GwFresh
    <1>12. GwCall'
        <2>1. gwCaller.n # 0 => gwCaller.n \in GwNumbers
            BY <1>1, GwClientIs
        <2>2. GwBroken' = GwBroken
            BY <1>1, <1>2, <2>1, EndsApart, <1>3 DEF GwBroken, GwEnds
        <2> QED
            BY <1>1, <2>2 DEF GwCall
    <1>13. ASSUME gwReq.at # "idle", NEW q \in DOMAIN gwReq.got, NEW by, by = gwReq.got[q]
           PROVE  /\ q \in GwKeys /\ by \in GwKeys \cup {GwEnded}
                  /\ ~gwStaff.reused => by \in {q, GwEnded}
                  /\ gwReq.kind # "query" /\ by # GwEnded => by[1] = q[1]
                  /\ gwReq.kind = "health" /\ ~gwStaff.reused /\ steady[q] = 2 => by = q
                  /\ gwReq.kind = "query" /\ ~gwStaff.reused /\ q \in gwReq.ready => by = q
        <2>1. q \in GwKeys
            BY <1>1, <1>13 DEF GwGot
        <2>2. steady[q] = 2 => gwStaff.steady[q] = 2
            BY <1>5, <2>1
        <2> QED
            BY <1>1, <1>13, <2>1, <2>2 DEF GwGot
    <1>14. GwReqShape' /\ GwGot' /\ GwQuery'
        <2>1. CASE gwReq.at = "serving"
            <3>1. GwReqShape'
                BY <1>1, <1>8, <2>1 DEF GwReqShape
            <3>2. GwGot'
                <4>1. /\ gwReq'.at # "idle" /\ gwReq'.kind = gwReq.kind /\ gwReq'.got = gwReq.got
                      /\ gwReq'.failed = gwReq.failed /\ gwReq'.ready = gwReq.ready \ {p} /\ gwReq'.sound = FALSE
                      /\ gwStaff'.steady = steady /\ gwStaff'.reused = gwStaff.reused
                    BY <1>6, <1>8, <2>1
                <4>2. gwReq.failed => gwReq.kind = "query"
                    BY <1>1, <2>1 DEF GwGot
                <4>3. gwReq.at # "idle"
                    BY <2>1
                <4> QED
                    BY <1>13, <4>1, <4>2, <4>3 DEF GwGot
            <3>3. GwQuery'
                BY <1>1, <1>6, <1>8, <2>1 DEF GwQuery
            <3> QED
                BY <3>1, <3>2, <3>3
        <2>2. CASE gwReq.at # "serving"
            <3>1. gwReq' = gwReq
                BY <1>8, <2>2
            <3>2. GwReqShape' /\ GwQuery'
                BY <1>1, <2>2, <3>1 DEF GwReqShape, GwQuery
            <3>3. GwGot'
                BY <1>1, <1>6, <1>13, <3>1 DEF GwGot
            <3> QED
                BY <3>2, <3>3
        <2> QED
            BY <2>1, <2>2
    <1> QED
        BY <1>7, <1>9, <1>11, <1>12, <1>14 DEF GwInv

LEMMA ProcessStartsGoes == ASSUME GwInv, NEW p \in GwKeys, ProcessStarts(p) PROVE GwInv'
    <1>1. /\ GwShape /\ GwLinks /\ GwFresh /\ GwCall /\ GwReqShape /\ GwGot /\ GwQuery
          /\ gwStaff' = [gwStaff EXCEPT !.up = @ \cup {p}]
          /\ UNCHANGED <<gwConn, gwFd, gwReq, gwCaller>>
        BY DEF GwInv, ProcessStarts
    <1>2. gwStaff' = [up |-> gwStaff.up \cup {p}, steady |-> gwStaff.steady, reused |-> gwStaff.reused]
        BY <1>1 DEF GwShape
    <1>3. GwShape' /\ GwReqShape' /\ GwGot'
        BY <1>1, <1>2 DEF GwShape, GwReqShape, GwGot
    <1>4. GwLinks'
        <2>1. \A n \in GwNumbers : GwAstray(n)' <=> GwAstray(n)
            BY <1>1 DEF GwAstray
        <2> QED
            BY <1>1, <1>2, <2>1 DEF GwLinks
    <1>5. (\A q : GwSound(q)' <=> GwSound(q)) /\ (\A q : GwUnasked(q)' <=> GwUnasked(q)) /\ GwBroken' = GwBroken
        BY <1>1 DEF GwSound, GwUnasked, GwBroken
    <1>6. GwFresh' /\ GwCall' /\ GwQuery'
        BY <1>1, <1>2, <1>5 DEF GwFresh, GwCall, GwQuery
    <1> QED
        BY <1>3, <1>4, <1>6 DEF GwInv

\* The gateway has nothing yet: no handles, no connections.
GwBegins ==
    /\ gwConn = <<>> /\ gwFd = [n \in GwNumbers |-> GwFree] /\ gwReq = GwIdle
    /\ gwStaff \in [up : SUBSET GwKeys, steady : [GwKeys -> 0 .. 2], reused : BOOLEAN]
    /\ \A p \in GwKeys : gwStaff.steady[p] = 0
    /\ gwCaller \in GwClients /\ GwCall

LEMMA NothingYet == GwBegins => GwInv
    <1>0. SUFFICES ASSUME GwBegins PROVE GwInv
        OBVIOUS
    <1>1. DOMAIN gwConn = {} /\ gwConn \in [{} -> GwNumbers]
        BY <1>0 DEF GwBegins
    <1>2. GwShape
        <2>1. gwFd \in [GwNumbers -> GwKeys \cup GwEnds]
            BY <1>0 DEF GwBegins, GwEnds
        <2> QED
            BY <1>0, <1>1, <2>1 DEF GwBegins, GwShape
    <1>3. \A n \in GwNumbers : gwFd[n] = GwFree /\ ~GwAstray(n)
        BY <1>0, EndsApart DEF GwBegins, GwAstray
    <1>4. GwLinks
        BY <1>1, <1>3, EndsApart DEF GwLinks, GwEnds
    <1>5. GwFresh
        BY <1>0 DEF GwBegins, GwFresh
    <1>6. gwReq.at = "idle" /\ gwReq = GwIdle
        BY <1>0 DEF GwBegins, GwIdle
    <1>7. GwReqShape /\ GwGot /\ GwQuery
        BY <1>6 DEF GwReqShape, GwGot, GwQuery
    <1> QED
        BY <1>0, <1>2, <1>4, <1>5, <1>7 DEF GwBegins, GwInv

LEMMA NothingYetNext == GwBegins' => GwInv'
    BY NothingYet, PTL

LEMMA GatewayStarts == GwInit => GwInv
    <1>1. SUFFICES ASSUME GwInit PROVE GwInv
        OBVIOUS
    <1>2. gwStaff \in [up : SUBSET GwKeys, steady : [GwKeys -> 0 .. 2], reused : BOOLEAN]
            /\ \A p \in GwKeys : gwStaff.steady[p] = 0
        BY <1>1 DEF GwInit
    <1>3. gwCaller \in GwClients
        BY <1>1, GwClientOf DEF GwInit, GwSpecials
    <1>4. GwCall
        BY <1>1 DEF GwInit, GwCall, GwBroken
    <1> QED
        BY <1>1, <1>2, <1>3, <1>4, NothingYet DEF GwInit, GwBegins

LEMMA GatewayRestartsGoes == ASSUME GwInv, GatewayRestarts PROVE GwInv'
    <1>1. /\ GwShape /\ GwCall
          /\ gwConn' = <<>> /\ gwFd' = [n \in GwNumbers |-> GwFree] /\ gwReq' = GwIdle
          /\ gwStaff' = [gwStaff EXCEPT !.reused = FALSE, !.steady = [p \in GwKeys |-> 0]]
          /\ gwCaller' = IF CallerLinked THEN [gwCaller EXCEPT !.faults = @ + 1] ELSE gwCaller
        BY DEF GwInv, GatewayRestarts
    <1>2. gwStaff' \in [up : SUBSET GwKeys, steady : [GwKeys -> 0 .. 2], reused : BOOLEAN]
            /\ \A p \in GwKeys : gwStaff'.steady[p] = 0
        <2>1. PICK none : none = [p \in GwKeys |-> 0]
            OBVIOUS
        <2>2. none \in [GwKeys -> 0 .. 2] /\ \A p \in GwKeys : none[p] = 0
            BY <2>1
        <2>3. gwStaff' = [up |-> gwStaff.up, steady |-> none, reused |-> FALSE]
            BY <1>1, <2>1 DEF GwShape
        <2>4. gwStaff.up \in SUBSET GwKeys
            BY <1>1 DEF GwShape
        <2> QED
            BY <2>2, <2>3, <2>4
    <1>3. PICK f \in Nat : f = IF CallerLinked THEN gwCaller.faults + 1 ELSE gwCaller.faults
        BY <1>1, GwClientIs
    <1>4. gwCaller' = [n |-> gwCaller.n, at |-> gwCaller.at, kind |-> gwCaller.kind, tries |-> gwCaller.tries, faults |-> f]
        <2>1. gwCaller = [n |-> gwCaller.n, at |-> gwCaller.at, kind |-> gwCaller.kind, tries |-> gwCaller.tries,
                          faults |-> gwCaller.faults]
            BY <1>1, GwClientIs
        <2>2. CASE CallerLinked
            BY <1>1, <1>3, <2>1, <2>2
        <2>3. CASE ~CallerLinked
            BY <1>1, <1>3, <2>1, <2>3
        <2> QED
            BY <2>2, <2>3
    <1>5. gwCaller' \in GwClients
        <2>1. /\ gwCaller.n \in {0} \cup GwNumbers /\ gwCaller.at \in {"idle", "calling", "defaulted"}
              /\ gwCaller.kind \in GwSpecials /\ gwCaller.tries \in 0 .. 2
            BY <1>1, GwClientIs
        <2> QED
            BY <1>4, <2>1, GwClientOf
    <1>6. GwCall'
        <2>1. GwBroken' \in {0, 1} /\ (GwBroken' = 1 => gwCaller.n # 0)
            BY <1>4 DEF GwBroken
        <2>2. gwCaller.n # 0 /\ ~CallerLinked => GwBroken = 1
            BY DEF GwBroken, CallerLinked
        <2>3. CallerLinked => GwBroken = 0 /\ gwCaller.n # 0
            BY DEF GwBroken, CallerLinked
        <2>4. GwBroken \in {0, 1} /\ gwCaller.faults \in Nat /\ gwCaller.tries \in 0 .. 2
            BY <1>1, GwClientIs DEF GwBroken
        <2>5. f >= gwCaller.faults /\ f - GwBroken' >= gwCaller.faults - GwBroken
            BY <1>3, <2>1, <2>2, <2>3, <2>4
        <2> QED
            BY <1>1, <1>3, <1>4, <2>1, <2>4, <2>5 DEF GwCall
    <1> QED
        BY <1>1, <1>2, <1>5, <1>6, NothingYetNext DEF GwBegins

LEMMA GatewayMoves == ASSUME GwInv, [GwNext]_gwVars PROVE GwInv'
    <1>1. CASE OpenHandle
        BY <1>1, OpenHandleGoes
    <1>2. CASE Fetch
        BY <1>2, FetchGoes
    <1>3. CASE Rows
        BY <1>3, RowsGoes
    <1>4. CASE Reply
        BY <1>4, ReplyGoes
    <1>5. CASE GwDone
        BY <1>5, GwDoneGoes
    <1>6. CASE GuestAsks(AllRows)
        BY <1>6, AllRowsCalls, GuestAsksGoes
    <1>7. ASSUME NEW letter \in {NoLetter} \cup 1 .. Letters, GuestAsks(RowsBySym(letter)) PROVE GwInv'
        <2>1. PICK steps \in GwQueryCalls : steps = RowsBySym(letter)
            BY BySymCalls
        <2>2. GuestAsks(steps)
            BY <1>7, <2>1
        <2> QED
            BY <2>2, GuestAsksGoes
    <1>8. ASSUME NEW kind \in {"health", "lag", "metrics"}, CallerCalls(kind) PROVE GwInv'
        BY <1>8, CallerCallsGoes DEF GwSpecials
    <1>9. CASE CallerConnects
        BY <1>9, CallerConnectsGoes DEF CallerConnects
    <1>10. CASE CallerRefused \/ CallerGetsDefault
        BY <1>10, CallerEndsGoes
    <1>11. CASE CallerAsks
        BY <1>11, CallerAsksGoes
    <1>12. CASE CallerFinds
        BY <1>12, CallerFindsGoes
    <1>13. CASE CallerTimesOut
        BY <1>13, CallerTimesOutGoes
    <1>14. ASSUME NEW p \in GwMortal, ProcessDies(p) \/ ProcessStarts(p) PROVE GwInv'
        <2>1. p \in GwKeys
            BY GatewayAssumption
        <2> QED
            BY <1>14, <2>1, ProcessDiesGoes, ProcessStartsGoes
    <1>15. CASE GatewayRestarts
        BY <1>15, GatewayRestartsGoes
    <1>16. CASE UNCHANGED gwVars
        <2>1. UNCHANGED <<gwConn, gwFd, gwReq, gwStaff, gwCaller>>
            BY <1>16 DEF gwVars
        <2>2. GwCall'
            BY <2>1 DEF GwInv, GwCall, GwBroken
        <2> QED
            BY <2>1, <2>2, OthersMove DEF GwInv, GwShape
    <1> QED
        BY <1>1, <1>2, <1>3, <1>4, <1>5, <1>6, <1>7, <1>8, <1>9, <1>10, <1>11, <1>12, <1>13, <1>14, <1>15, <1>16 DEF GwNext

LEMMA GatewayTells == GwInv => GatewayAnswers
    <1>1. SUFFICES ASSUME GwInv PROVE GatewayAnswers
        OBVIOUS
    <1>2. PartsAreTheirs
        <2>1. ASSUME GwAnswered, NEW p \in DOMAIN gwReq.got, NEW by, by = gwReq.got[p]
              PROVE  /\ by = GwEnded \/ by = p \/ gwStaff.reused
                     /\ by # GwEnded /\ gwReq.kind \in {"health", "lag", "metrics"} => by[1] = p[1]
            BY <1>1, <2>1 DEF GwInv, GwGot, GwAnswered
        <2> QED
            BY <2>1 DEF PartsAreTheirs
    <1>3. RestartsAreForgiven
        BY <1>1 DEF GwInv, GwGot, GwAnswered, RestartsAreForgiven
    <1>4. RowsAreWhole
        BY <1>1 DEF GwInv, GwGot, GwAnswered, RowsAreWhole
    <1>5. OneFailureIsForgiven
        BY <1>1 DEF GwInv, GwCall, OneFailureIsForgiven
    <1> QED
        BY <1>2, <1>3, <1>4, <1>5 DEF GatewayAnswers

\* gateway.q, kdb_client.py: whatever number of shards, and however often processes die, calls
\* are given up and the gateway restarts, a part of an answer is a fallback or comes from the
\* process that it is shown for unless a number was given away while the cache had it, a process
\* that was up through two passes of .gw.health is reported up by the second, rows leave out
\* nobody that was up throughout, and a call gets the default only after two failures.
THEOREM GatewayTellsWhatIsThere == GwSpec => []GatewayAnswers
    <1>1. GwInv /\ [GwNext]_gwVars => GwInv'
        BY GatewayMoves
    <1> QED
        BY GatewayStarts, <1>1, GatewayTells, PTL DEF GwSpec

=============================================================================
