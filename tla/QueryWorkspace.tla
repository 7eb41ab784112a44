--------------------------- MODULE QueryWorkspace ---------------------------
(***************************************************************************)
(* The query workspace of the control plane: a request is checked and held *)
(* against its tenant's budget, goes to its targets at the same time, a    *)
(* target that is the gateway being expanded into the shards and tiers the *)
(* text asks for; what comes back is cut, put side by side and accounted.  *)
(* Requests run in threads: rows arrive, targets come and go and other     *)
(* requests of the tenant are accounted in the middle of one.              *)
(***************************************************************************)
EXTENDS Topology, SequencesExt, FiniteSetsExt

CONSTANTS
    QwThreads, QwTenants,
    QwBodies,     \* the requests that are made
    QwShardCount, \* QUERY_SHARD_COUNT
    QwSymbols,    \* the letter of each symbol's name
    QwMaxRows,    \* MAX_ROW_LIMIT
    QwBudget,     \* QUERY_BUDGET_MS_PER_WINDOW, 0 for none
    QwMaxCost,    \* a bound: what one request costs
    QwMaxEvents   \* a bound: rows that arrive, targets that go down, checks that fail

ASSUME QwAssumption ==
    /\ QwBudget \in Nat /\ QwMaxCost \in Nat
    /\ IsFiniteSet(QwThreads) /\ "admin" \notin QwTenants

VARIABLES
    qwHeld,  \* the rows of each target, and the targets that are down
    qwReq,   \* the request of each thread
    qwUsed,  \* what each tenant has used in the window: after a check, and without one
    qwEvents

qwVars == <<qwHeld, qwReq, qwUsed, qwEvents>>

-----------------------------------------------------------------------------
(* What a text asks for.  A text is a record: its form, its clauses on sym and date. *)

\* check_readonly: a text that names .z is refused, one that asks for .z.d among them.
CheckReadonly(q) == q.form # "denied" /\ q.date # "today"

\* A clause "sym =" or "sym in" wherever it is, in whatever it is part of.
ExtractSyms(q) == IF q.sym \in {"in", "not in"} THEN q.syms ELSE {}

\* Variant: only the shard of one of the symbols is asked.
RouteFirst(q) == {ShardOf(QwShardCount, l) : l \in {Min({QwSymbols[s] : s \in ExtractSyms(q)})}}

\* route_shards, of the symbols found; never called without one.
RouteShards(q) == {ShardOf(QwShardCount, QwSymbols[s]) : s \in ExtractSyms(q)}

AllShards == ShardIds(QwShardCount)
ShardsOf(q) == IF ExtractSyms(q) = {} THEN AllShards ELSE RouteShards(q)

RouteTier(q) == IF q.date = "past" THEN "hdb" ELSE "rdb"

\* _targets: every shard's history tiers and its tickerplant.
Tiers == {"rdb", "idb", "hdb", "tickerplant"}
Leaves == Tiers \X AllShards
Gateway == <<"gateway", 0>>

\* What a request asks: each of its targets, the gateway in all of those it stands for.
Asked(body) ==
    UNION {{<<k, leaf>> : leaf \in IF body.targets[k] = Gateway
                                   THEN {RouteTier(body.query)} \X ShardsOf(body.query)
                                   ELSE {body.targets[k]}} : k \in DOMAIN body.targets}

Matches(q, row) ==
    CASE q.sym = "in" -> row.sym \in q.syms
      [] q.sym = "not in" -> row.sym \notin q.syms
      [] OTHER -> TRUE

-----------------------------------------------------------------------------
(* A grid, and several side by side *)

ClampLimit(limit) == Max({1, Min({limit, QwMaxRows})})
FirstOf(rows, n) == SubSeq(rows, 1, Min({n, Len(rows)}))

\* Variant: no row more than is shown is fetched.
CapExactly(q, rows, limit) == IF q.form = "select" THEN FirstOf(rows, limit) ELSE rows

\* _cap_result_rows: one more than is shown, of a plain select.
Capped(q, rows, limit) == IF q.form = "select" THEN FirstOf(rows, limit + 1) ELSE rows

\* shape_result: a row of a grid is a row of the target, and where it came from, outermost
\* first; which is nothing yet.
Grid(q, rows, limit) ==
    LET came == Capped(q, rows, limit)
    IN [rows |-> [k \in DOMAIN FirstOf(came, limit) |-> [row |-> came[k], from |-> <<>>]],
        count |-> Len(came), truncated |-> Len(came) > limit]

\* combine_results of the grids that came, in order; the limit is the one asked for.
Combine(labeled, limit) ==
    LET all == FlattenSeq([k \in DOMAIN labeled |->
                  [j \in DOMAIN labeled[k].grid.rows |->
                      [labeled[k].grid.rows[j] EXCEPT !.from = <<labeled[k].target>> \o @]]])
        total == FoldSeq(LAMBDA l, n : l.grid.count + n, 0, labeled)
    IN [rows |-> FirstOf(all, limit), count |-> total,
        truncated |-> total > limit \/ \E k \in DOMAIN labeled : labeled[k].grid.truncated]

Answered(results) == SelectSeq(results, LAMBDA r : r.ok)

\* The targets that a target stands for, in their order: by shard.
LeavesOf(body, k) ==
    SetToSortSeq({a[2] : a \in {a \in Asked(body) : a[1] = k}}, LAMBDA p, q : p[2] < q[2])

\* _run_one, with the grid that came from each leaf: the gateway's answer is that of the
\* leaves that answered, and says no word of the others.
RunOne(body, got, k) ==
    LET each == [j \in DOMAIN LeavesOf(body, k) |-> got[<<k, LeavesOf(body, k)[j]>>]]
    IN IF body.targets[k] # Gateway THEN each[1]
       ELSE [target |-> Gateway, ok |-> Answered(each) # <<>>,
             grid |-> Combine(Answered(each), body.limit)]

\* run: one target's grid as it is, several side by side, an error when none came.
Answer(body, got) ==
    LET results == [k \in DOMAIN body.targets |-> RunOne(body, got, k)]
        labeled == Answered(results)
    IN [ok |-> labeled # <<>>,
        grid |-> IF Len(results) = 1 THEN results[1].grid ELSE Combine(labeled, body.limit),
        silent |-> {body.targets[k] : k \in {k \in DOMAIN results : ~results[k].ok}}]

-----------------------------------------------------------------------------
(* Requests *)

QwFree == [at |-> "free"]
Busy(t) == {th \in QwThreads : qwReq[th].at = "running" /\ qwReq[th].tenant = t /\ qwReq[th].checked}

\* Variant: only what failed checks let through counts.
UsedForgetful(t) == qwUsed[t].open

\* consumed_ms: the sum over the window.
Used(t) == qwUsed[t].checked + qwUsed[t].open

\* check_budget: nobody is held back if it fails, or if there is no budget.
WithinBudget(t) == QwBudget = 0 \/ Used(t) < QwBudget

Counted(n) == qwEvents + n <= QwMaxEvents /\ qwEvents' = qwEvents + n

\* run, up to its first connection.  The platform's administrators are not accounted.
Ask(th, tenant, body) ==
    /\ qwReq[th].at = "free"
    /\ CheckReadonly(body.query)
    /\ LET request == [at |-> "running", tenant |-> tenant, checked |-> TRUE, body |-> body,
                       got |-> <<>>, since |-> qwHeld.rows]
       IN \/ tenant \in QwTenants /\ WithinBudget(tenant) /\ Counted(0) /\ qwReq' = [qwReq EXCEPT ![th] = request]
          \/ tenant \in QwTenants /\ Counted(1) /\ qwReq' = [qwReq EXCEPT ![th] = [request EXCEPT !.checked = FALSE]]
          \/ tenant = "admin" /\ Counted(0) /\ qwReq' = [qwReq EXCEPT ![th] = [request EXCEPT !.checked = FALSE]]
    /\ UNCHANGED <<qwHeld, qwUsed>>

\* _run_one against one leaf: what it holds at that moment, if it can be reached and has
\* the columns of the text.
Probe(th, asked) ==
    /\ qwReq[th].at = "running" /\ asked \in Asked(qwReq[th].body) \ DOMAIN qwReq[th].got
    /\ LET q == qwReq[th].body.query
           leaf == asked[2]
           rows == SelectSeq(qwHeld.rows[leaf], LAMBDA row : Matches(q, row))
           ok == leaf \notin qwHeld.down /\ (q.date = "none" \/ leaf[1] = "hdb")
           result == [target |-> leaf, ok |-> ok,
                      grid |-> Grid(q, rows, ClampLimit(qwReq[th].body.limit))]
       IN qwReq' = [qwReq EXCEPT ![th].got = (asked :> result) @@ @]
    /\ UNCHANGED <<qwHeld, qwUsed, qwEvents>>

\* query_cost.record, whatever came of it, and then the answer.
Account(th, cost) ==
    LET r == qwReq[th]
    IN qwUsed' = IF r.tenant = "admin" THEN qwUsed
                 ELSE IF r.checked THEN [qwUsed EXCEPT ![r.tenant].checked = @ + cost]
                 ELSE [qwUsed EXCEPT ![r.tenant].open = @ + cost]

QwFinish(th, cost) ==
    /\ qwReq[th].at = "running" /\ DOMAIN qwReq[th].got = Asked(qwReq[th].body)
    /\ Account(th, cost)
    /\ qwReq' = [qwReq EXCEPT ![th] = [at |-> "answered", body |-> @.body, since |-> @.since, got |-> @.got,
                                       answer |-> Answer(@.body, @.got)]]
    /\ UNCHANGED <<qwHeld, qwEvents>>

Leave(th) ==
    /\ qwReq[th].at = "answered"
    /\ qwReq' = [qwReq EXCEPT ![th] = QwFree]
    /\ UNCHANGED <<qwHeld, qwUsed, qwEvents>>

-----------------------------------------------------------------------------
(* Around them *)

\* A row of a symbol comes to a target of its shard.
RowArrives(leaf, sym) ==
    /\ ShardOf(QwShardCount, QwSymbols[sym]) = leaf[2]
    /\ qwHeld' = [qwHeld EXCEPT !.rows[leaf] = Append(@, [sym |-> sym, id |-> Len(@) + 1])]
    /\ Counted(1) /\ UNCHANGED <<qwReq, qwUsed>>

TargetGoesDown(leaf) ==
    /\ leaf \notin qwHeld.down
    /\ qwHeld' = [qwHeld EXCEPT !.down = @ \cup {leaf}]
    /\ Counted(1) /\ UNCHANGED <<qwReq, qwUsed>>

TargetComesUp(leaf) ==
    /\ leaf \in qwHeld.down
    /\ qwHeld' = [qwHeld EXCEPT !.down = @ \ {leaf}]
    /\ UNCHANGED <<qwReq, qwUsed, qwEvents>>

\* What is older than the window is no longer in the sum: however much that is.
WindowRolls(t, checked, open) ==
    /\ qwUsed[t] # [checked |-> checked, open |-> open]
    /\ checked <= qwUsed[t].checked /\ open <= qwUsed[t].open
    /\ qwUsed' = [qwUsed EXCEPT ![t] = [checked |-> checked, open |-> open]]
    /\ UNCHANGED <<qwHeld, qwReq, qwEvents>>

QwStart(rows) ==
    /\ qwHeld = [rows |-> rows, down |-> {}]
    /\ qwReq = [th \in QwThreads |-> QwFree]
    /\ qwUsed = [t \in QwTenants |-> [checked |-> 0, open |-> 0]]
    /\ qwEvents = 0

QwNext ==
    \/ \E th \in QwThreads :
          \/ \E tenant \in QwTenants \cup {"admin"}, body \in QwBodies : Ask(th, tenant, body)
          \/ \E asked \in (1 .. 2) \X Leaves : Probe(th, asked)
          \/ \E cost \in 0 .. QwMaxCost : QwFinish(th, cost)
          \/ Leave(th)
    \/ \E leaf \in Leaves : TargetGoesDown(leaf) \/ TargetComesUp(leaf)
    \/ \E leaf \in Leaves, sym \in DOMAIN QwSymbols : RowArrives(leaf, sym)
    \/ \E t \in QwTenants : \E checked \in 0 .. qwUsed[t].checked, open \in 0 .. qwUsed[t].open :
          WindowRolls(t, checked, open)

QwSpec(rows) == QwStart(rows) /\ [][QwNext]_qwVars

-----------------------------------------------------------------------------
(* What an answered request may rely on *)

Answers == {qwReq[th] : th \in {th \in QwThreads : qwReq[th].at = "answered"}}

\* The rows a leaf held, at the least, when the request came, that match its text.
Expected(r, leaf) == {row \in ToSet(r.since[leaf]) : Matches(r.body.query, row)}

\* Whatever is not cut is whole: all that the targets that answered held when the request
\* came; what is cut says so; and every row is one that the target it names holds.
GridsAreWhole ==
    \A r \in Answers : r.answer.ok =>
        LET grid == r.answer.grid
            rows == ToSet(grid.rows)
            single == Len(r.body.targets) = 1
            of(leaf) == {x \in rows : IF x.from = <<>> THEN r.body.targets = <<leaf>> ELSE Last(x.from) = leaf}
        IN /\ Len(grid.rows) <= Max({1, r.body.limit})
           /\ ~grid.truncated =>
                 /\ grid.count = Len(grid.rows)
                 /\ \A a \in Asked(r.body) : r.got[a].ok => Expected(r, a[2]) \subseteq {x.row : x \in of(a[2])}
           /\ \A x \in rows : \E a \in Asked(r.body) :
                 x \in of(a[2]) /\ r.got[a].ok /\ x.row \in ToSet(qwHeld.rows[a[2]]) /\ Matches(r.body.query, x.row)

\* An error is an answer of nobody, and a request whose every target was up had one.
ErrorsAreOfAll ==
    \A r \in Answers : r.answer.ok <=> \E a \in Asked(r.body) : r.got[a].ok

\* query_router.py: narrowing to the shards of the symbols "returns identical results", but
\* for a text that names the symbols it does not want.
NarrowingIsSafe ==
    \A r \in Answers : \A k \in DOMAIN r.body.targets :
        r.body.targets[k] = Gateway /\ r.body.query.sym # "not in" =>
        \A shard \in AllShards \ ShardsOf(r.body.query) :
            Expected(r, <<RouteTier(r.body.query), shard>>) = {}

\* query.py, query_service.py: what the query workspace shows is what its targets hold.
QueryAnswers == GridsAreWhole /\ ErrorsAreOfAll /\ NarrowingIsSafe

\* query_cost.py: a tenant's requests that were held against its budget exceed it by no
\* more than the threads can run at once.
BudgetHolds ==
    QwBudget = 0 \/ \A t \in QwTenants :
        qwUsed[t].checked + QwMaxCost * Cardinality(Busy(t)) <= QwBudget - 1 + QwMaxCost * Cardinality(QwThreads)
=============================================================================
