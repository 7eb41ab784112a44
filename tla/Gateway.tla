------------------------------ MODULE Gateway ------------------------------
(***************************************************************************)
(* The gateway's handles to the processes of the shards (gateway.q) and    *)
(* the control API's one connection to the gateway (kdb_client.py).  q     *)
(* names a connection by its descriptor, the lowest number that is free,   *)
(* and frees the number of a connection that ended between two requests,   *)
(* whatever still caches it.  Requests are served one at a time, each a    *)
(* sequence of calls between which processes die and start.                *)
(*                                                                         *)
(* History: gwStaff.steady, for how many passes of .gw.health a process    *)
(* has been up; gwReq.ready, which were up from the request on, and sound, *)
(* that no cached handle has lost its process; gwCaller.faults, what befell*)
(* the control API's call.                                                 *)
(***************************************************************************)
EXTENDS Topology, SequencesExt, FiniteSetsExt

CONSTANTS
    GwShardCount,
    GwNumbers,   \* descriptors: one for each process, one for each caller
    GwMortal,    \* the processes that die and start
    GwMaxEvents  \* deaths, restarts of the gateway, calls given up, guests

VARIABLES
    gwConn,   \* .gw.conn: the cached number of a process
    gwFd,     \* what each number is connected to
    gwReq,    \* the request in service
    gwStaff,  \* the processes that are up, how long they have been, and whether a number
              \* was given away while it was cached
    gwCaller, \* the control API's GatewayClient
    gwEvents

gwVars == <<gwConn, gwFd, gwReq, gwStaff, gwCaller, gwEvents>>

GwKeys == ShardTiers \X ShardIds(GwShardCount)
ASSUME GatewayAssumption ==
    /\ ValidCount(GwShardCount) /\ GwMortal \subseteq GwKeys
    /\ GwNumbers = 1 .. Cardinality(GwKeys) + 2

GwFree == <<"free", 0>>
GwEnded == <<"ended", 0>>    \* the other end is gone and q has not looked since
GwCaller == <<"caller", 0>>  \* the control API
GwGuest == <<"guest", 0>>    \* a connection for one request: a query
GwIdle == [at |-> "idle"]

-----------------------------------------------------------------------------
(* What a request does, call by call *)

GwStep(do, tier, i) == [do |-> do, of |-> <<tier, i>>]
Each(do, tiers, i) == [k \in DOMAIN tiers |-> GwStep(do, tiers[k], i)]
OverShards(steps(_)) == FlattenSeq([k \in 1 .. GwShardCount |-> steps(k - 1)])

\* .gw.health, .gw.transitLag, .gw.componentMetrics: protected calls, and the handles whose
\* being there is reported (the last first).
HealthSteps(i) == Each("fetch", <<"rdb", "idb", "wdb", "hdb", "tp">>, i)
LagSteps(i) == Each("fetch", <<"tp", "rdb", "wdb">>, i)
MetricsSteps(i) == Each("fetch", <<"tp", "rdb", "wdb", "hdb">>, i) \o Each("open", <<"hdb", "rdb">>, i)
\* .gw.query: the three handles, then unprotected calls on them.
RowsSteps(i) == Each("open", <<"rdb", "idb", "hdb">>, i) \o Each("rows", <<"rdb", "idb", "hdb">>, i)

\* .gw.all, .gw.bySym: of every shard, or of the shard of a symbol's letter.
AllRows == OverShards(RowsSteps)
RowsBySym(letter) == RowsSteps(GatewayShardOf(ShardsJson(GwShardCount), letter))

GwSteps(kind) ==
    CASE kind = "health" -> OverShards(HealthSteps)
      [] kind = "lag" -> OverShards(LagSteps)
      [] kind = "metrics" -> OverShards(MetricsSteps)

-----------------------------------------------------------------------------
(* Handles *)

Lowest(fd) == Min({n \in GwNumbers : fd[n] = GwFree})
\* The number that the next connection gets is still some process's in the cache.
GivesAway(conn, fd) == \E p \in DOMAIN conn : conn[p] = Lowest(fd)
\* A dictionary with an entry more, or with another value for p.
With(f, p, v) == [q \in DOMAIN f \cup {p} |-> IF q = p THEN v ELSE f[q]]
Without(conn, p) == [q \in DOMAIN conn \ {p} |-> conn[q]]
\* q's loop, between two requests, frees the numbers of connections that ended.
Looked(fd) == [n \in GwNumbers |-> IF fd[n] = GwEnded THEN GwFree ELSE fd[n]]

\* .gw.h: the cached handle, or a new one if the process can be reached.
Connects(p) == p \notin DOMAIN gwConn /\ p \in gwStaff.up
ConnAfter(p) == IF Connects(p) THEN With(gwConn, p, Lowest(gwFd)) ELSE gwConn
FdAfter(p) == IF Connects(p) THEN [gwFd EXCEPT ![Lowest(gwFd)] = p] ELSE gwFd
StaffAfter(p) ==
    IF Connects(p) /\ GivesAway(gwConn, gwFd) THEN [gwStaff EXCEPT !.reused = TRUE] ELSE gwStaff
HandleOf(p) == IF p \in DOMAIN ConnAfter(p) THEN ConnAfter(p)[p] ELSE 0

\* Whether what is behind a number can answer: a health function is defined in the tiers of
\* its name, the rows of a table everywhere, without their date only in the historical
\* database.
CanAnswer(do, p, end) ==
    /\ end \in GwKeys
    /\ (do = "fetch" \/ p[1] = "hdb") => end[1] = p[1]

-----------------------------------------------------------------------------
(* The steps of a request *)

GwNow(r) == Head(r.todo)
InService(do) == gwReq.at = "serving" /\ gwReq.todo # <<>> /\ GwNow(gwReq).do = do
Went(r, by) == [r EXCEPT !.todo = Tail(@), !.got = With(@, GwNow(r).of, by)]

\* .gw.h alone; the number is kept for the calls that follow.
OpenHandle ==
    /\ InService("open")
    /\ LET p == GwNow(gwReq).of
       IN /\ gwReq' = [gwReq EXCEPT !.todo = Tail(@), !.held = With(@, p, HandleOf(p))]
          /\ gwConn' = ConnAfter(p) /\ gwFd' = FdAfter(p) /\ gwStaff' = StaffAfter(p)
    /\ UNCHANGED <<gwCaller, gwEvents>>

\* The control API's connection is closed by the gateway: its call raises.
Hung(n) ==
    IF gwFd[n] = GwCaller THEN [gwCaller EXCEPT !.faults = @ + 1] ELSE gwCaller

\* Variant: the handle that failed stays in the cache.
FetchKeeping ==
    /\ InService("fetch")
    /\ LET p == GwNow(gwReq).of
           n == HandleOf(p)
           end == IF n = 0 THEN GwEnded ELSE FdAfter(p)[n]
       IN /\ gwReq' = Went(gwReq, IF CanAnswer("fetch", p, end) THEN end ELSE GwEnded)
          /\ gwConn' = ConnAfter(p) /\ gwFd' = FdAfter(p)
          /\ gwStaff' = StaffAfter(p)
    /\ UNCHANGED <<gwCaller, gwEvents>>

\* .gw.fetch: what fails is forgotten and closed, whatever has the number by now, and the
\* fallback is the answer.
Fetch ==
    /\ InService("fetch")
    /\ LET p == GwNow(gwReq).of
           n == HandleOf(p)
           end == IF n = 0 THEN GwEnded ELSE FdAfter(p)[n]
       IN IF n = 0 \/ CanAnswer("fetch", p, end)
          THEN /\ gwReq' = Went(gwReq, end)
               /\ gwConn' = ConnAfter(p) /\ gwFd' = FdAfter(p)
               /\ gwStaff' = StaffAfter(p) /\ UNCHANGED gwCaller
          ELSE /\ gwReq' = Went(gwReq, GwEnded)
               /\ gwConn' = Without(gwConn, p) /\ gwFd' = [gwFd EXCEPT ![n] = GwFree]
               /\ gwCaller' = Hung(n) /\ UNCHANGED gwStaff
    /\ UNCHANGED gwEvents

\* A call for rows: nothing without a handle, and an error ends the request.
Rows ==
    /\ InService("rows")
    /\ LET p == GwNow(gwReq).of
           n == gwReq.held[p]
       IN gwReq' = IF n = 0 THEN Went(gwReq, GwEnded)
                   ELSE IF CanAnswer("rows", p, gwFd[n]) THEN Went(gwReq, gwFd[n])
                   ELSE [gwReq EXCEPT !.todo = <<>>, !.failed = TRUE]
    /\ UNCHANGED <<gwConn, gwFd, gwStaff, gwCaller, gwEvents>>

\* The answer, if there is still a connection for it; then q looks at its connections.
Reply ==
    /\ gwReq.at = "serving" /\ gwReq.todo = <<>>
    /\ gwReq' = [gwReq EXCEPT !.at = "answered"]
    /\ gwFd' = [n \in GwNumbers |-> IF gwFd[n] = GwGuest THEN GwFree ELSE Looked(gwFd)[n]]
    /\ gwCaller' = IF gwReq.from # 0 /\ gwFd[gwReq.from] = GwCaller /\ gwCaller.n = gwReq.from
                   THEN [gwCaller EXCEPT !.at = "idle", !.faults = 0] ELSE gwCaller
    /\ UNCHANGED <<gwConn, gwStaff, gwEvents>>

GwDone ==
    /\ gwReq.at = "answered" /\ gwReq' = GwIdle
    /\ UNCHANGED <<gwConn, gwFd, gwStaff, gwCaller, gwEvents>>

-----------------------------------------------------------------------------
(* Who asks *)

GwCounted == gwEvents < GwMaxEvents /\ gwEvents' = gwEvents + 1
GwRequest(kind, n, steps) ==
    [at |-> "serving", kind |-> kind, from |-> n, todo |-> steps, held |-> <<>>, got |-> <<>>,
     failed |-> FALSE, ready |-> gwStaff.up, sound |-> \A p \in DOMAIN gwConn : gwFd[gwConn[p]] = p]
\* A pass of .gw.health counts for the processes that are up.
Counting(kind) ==
    IF kind # "health" THEN gwStaff.steady
    ELSE [p \in GwKeys |-> IF p \in gwStaff.up THEN Min({2, gwStaff.steady[p] + 1}) ELSE 0]
Accepted(fd, conn, staff) == [staff EXCEPT !.reused = @ \/ GivesAway(conn, fd)]

\* A query comes on a connection of its own.
GuestAsks(steps) ==
    /\ gwReq.at = "idle" /\ GwCounted
    /\ gwReq' = GwRequest("query", 0, steps)
    /\ gwFd' = [gwFd EXCEPT ![Lowest(gwFd)] = GwGuest]
    /\ gwStaff' = Accepted(gwFd, gwConn, gwStaff)
    /\ UNCHANGED <<gwConn, gwCaller>>

\* _call, under its lock: one at a time.
CallerCalls(kind) ==
    /\ gwCaller.at = "idle"
    /\ gwCaller' = [gwCaller EXCEPT !.at = "calling", !.kind = kind, !.tries = 0]
    /\ UNCHANGED <<gwConn, gwFd, gwReq, gwStaff, gwEvents>>

CallerLinked == gwCaller.n # 0 /\ gwFd[gwCaller.n] = GwCaller
CallerAwaits == gwReq.at = "serving" /\ gwReq.from # 0 /\ gwReq.from = gwCaller.n /\ CallerLinked

\* _ensure_connected: the gateway accepts between two requests.
CallerConnects ==
    /\ gwCaller.at = "calling" /\ gwCaller.n = 0 /\ gwReq.at = "idle"
    /\ gwCaller' = [gwCaller EXCEPT !.n = Lowest(gwFd)]
    /\ gwFd' = [gwFd EXCEPT ![Lowest(gwFd)] = GwCaller]
    /\ gwStaff' = Accepted(gwFd, gwConn, gwStaff)
    /\ UNCHANGED <<gwConn, gwReq, gwEvents>>

\* ... or it cannot be reached, and the caller gets the default.
CallerRefused ==
    /\ gwCaller.at = "calling" /\ gwCaller.n = 0 /\ GwCounted
    /\ gwCaller' = [gwCaller EXCEPT !.at = "idle", !.faults = 0]
    /\ UNCHANGED <<gwConn, gwFd, gwReq, gwStaff>>

CallerAsks ==
    /\ gwCaller.at = "calling" /\ CallerLinked /\ gwReq.at = "idle"
    /\ gwReq' = GwRequest(gwCaller.kind, gwCaller.n, GwSteps(gwCaller.kind))
    /\ gwStaff' = [gwStaff EXCEPT !.steady = Counting(gwCaller.kind)]
    /\ UNCHANGED <<gwConn, gwFd, gwCaller, gwEvents>>

\* Variant: the connection that failed is tried again.
CallRaisesKeeping(c) ==
    IF c.tries = 1 THEN [c EXCEPT !.at = "defaulted", !.tries = 2] ELSE [c EXCEPT !.tries = 1]

\* A call raises: the connection is given up; one more try, on a new one, and then the default.
CallRaises(c) ==
    IF c.tries = 1 THEN [c EXCEPT !.n = 0, !.at = "defaulted", !.tries = 2]
    ELSE [c EXCEPT !.n = 0, !.tries = 1]

\* The connection was closed by the gateway, or by its end.
CallerFinds ==
    /\ gwCaller.at = "calling" /\ gwCaller.n # 0 /\ ~CallerLinked
    /\ gwCaller' = CallRaises(gwCaller)
    /\ UNCHANGED <<gwConn, gwFd, gwReq, gwStaff, gwEvents>>

\* The answer does not come in time; the gateway goes on with it.
CallerTimesOut ==
    /\ gwCaller.at = "calling" /\ CallerAwaits /\ GwCounted
    /\ gwCaller' = CallRaises([gwCaller EXCEPT !.faults = @ + 1])
    /\ gwFd' = [gwFd EXCEPT ![gwCaller.n] = GwEnded]
    /\ UNCHANGED <<gwConn, gwReq, gwStaff>>

CallerGetsDefault ==
    /\ gwCaller.at = "defaulted"
    /\ gwCaller' = [gwCaller EXCEPT !.at = "idle", !.faults = 0]
    /\ UNCHANGED <<gwConn, gwFd, gwReq, gwStaff, gwEvents>>

-----------------------------------------------------------------------------
(* Processes die and start; so does the gateway *)

ProcessDies(p) ==
    /\ p \in gwStaff.up /\ GwCounted
    /\ gwStaff' = [gwStaff EXCEPT !.up = @ \ {p}, !.steady[p] = 0]
    /\ gwReq' = IF gwReq.at = "serving" THEN [gwReq EXCEPT !.ready = @ \ {p}, !.sound = FALSE] ELSE gwReq
    /\ gwFd' = LET left == [n \in GwNumbers |-> IF gwFd[n] = p THEN GwEnded ELSE gwFd[n]]
               IN IF gwReq.at = "serving" THEN left ELSE Looked(left)
    /\ UNCHANGED <<gwConn, gwCaller>>

ProcessStarts(p) ==
    /\ p \notin gwStaff.up
    /\ gwStaff' = [gwStaff EXCEPT !.up = @ \cup {p}]
    /\ UNCHANGED <<gwConn, gwFd, gwReq, gwCaller, gwEvents>>

\* The gateway starts anew, with .gw.loadConfig and no handles.
GatewayRestarts ==
    /\ GwCounted
    /\ gwConn' = <<>> /\ gwFd' = [n \in GwNumbers |-> GwFree] /\ gwReq' = GwIdle
    /\ gwStaff' = [gwStaff EXCEPT !.reused = FALSE, !.steady = [p \in GwKeys |-> 0]]
    /\ gwCaller' = IF CallerLinked THEN [gwCaller EXCEPT !.faults = @ + 1] ELSE gwCaller

GwInit ==
    /\ gwConn = <<>> /\ gwFd = [n \in GwNumbers |-> GwFree] /\ gwReq = GwIdle /\ gwEvents = 0
    /\ gwStaff = [up |-> GwKeys, steady |-> [p \in GwKeys |-> 0], reused |-> FALSE]
    /\ gwCaller = [n |-> 0, at |-> "idle", kind |-> "health", tries |-> 0, faults |-> 0]

GwNext ==
    \/ OpenHandle \/ Fetch \/ Rows \/ Reply \/ GwDone
    \/ GuestAsks(AllRows) \/ \E letter \in {NoLetter} \cup 1 .. Letters : GuestAsks(RowsBySym(letter))
    \/ \E kind \in {"health", "lag", "metrics"} : CallerCalls(kind)
    \/ CallerConnects \/ CallerRefused \/ CallerAsks \/ CallerFinds \/ CallerTimesOut
    \/ CallerGetsDefault
    \/ \E p \in GwMortal : ProcessDies(p) \/ ProcessStarts(p)
    \/ GatewayRestarts

GwSpec == GwInit /\ [][GwNext]_gwVars

-----------------------------------------------------------------------------
(* Properties *)

GwAnswered == gwReq.at = "answered"

\* Every part of an answer is a fallback or comes from the process it is shown for; but
\* when a number was given away while the cache had it, a health part may come from the
\* same tier of another shard (.gw.fetch cannot tell) and rows from any tier.
PartsAreTheirs ==
    GwAnswered => \A p \in DOMAIN gwReq.got : LET by == gwReq.got[p] IN
        /\ by = GwEnded \/ by = p \/ gwStaff.reused
        /\ by # GwEnded /\ gwReq.kind \in {"health", "lag", "metrics"} => by[1] = p[1]

\* A process that was up through two passes of .gw.health is not reported down by the
\* second: one failure on a stale handle and the next fetch reaches it (.gw.fetch).
RestartsAreForgiven ==
    GwAnswered /\ gwReq.kind = "health" /\ ~gwStaff.reused =>
        \A p \in DOMAIN gwReq.got : gwStaff.steady[p] = 2 => gwReq.got[p] = p

\* Rows leave out no process that was up throughout, and a request for them fails only if
\* the cache had a handle whose process had gone, or one went while it was served.
RowsAreWhole ==
    GwAnswered /\ ~gwStaff.reused =>
        IF gwReq.failed THEN ~gwReq.sound
        ELSE \A p \in DOMAIN gwReq.got \cap gwReq.ready : gwReq.kind = "query" => gwReq.got[p] = p

\* kdb_client.py: one failure, whenever its cause came, does not cost a call its answer.
OneFailureIsForgiven == gwCaller.at = "defaulted" => gwCaller.faults >= 2

\* gateway.q, kdb_client.py: what the gateway shows is what is there.
GatewayAnswers == PartsAreTheirs /\ RestartsAreForgiven /\ RowsAreWhole /\ OneFailureIsForgiven
=============================================================================
