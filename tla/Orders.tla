------------------------------- MODULE Orders -------------------------------
(***************************************************************************)
(* The order desk of the control API (routers/trading.py, oms.py,          *)
(* risk_check.py and the broker adapters): an order passes the pre-trade   *)
(* gate, is filled by the paper router or by a broker, and is folded into  *)
(* the tenant's position.  Every request runs in a thread of its own with  *)
(* a database session of its own: what it reads may be out of date by the  *)
(* time it commits.  One tenant.  Requests that are refused before they    *)
(* touch anything (validation, no permission) are not steps.               *)
(***************************************************************************)
EXTENDS Integers, SequencesExt, FiniteSetsExt

CONSTANTS
    Threads,       \* the threads that serve requests
    Symbols,
    Prices,        \* multiples of 3600, so that the averages of a few fills are exact
    Quantities,
    Settings       \* the settings to consider (see Setting)

\* router: what the environment of the process configures; failOpen:
\* risk_gate_fail_open; loss: risk_max_daily_loss; share, in percent:
\* risk_max_symbol_concentration_pct (0: not enforced).
Setting == [router : {"paper", "broker", "both"}, failOpen : BOOLEAN,
            loss : Nat, share : 0 .. 100]

ASSUME OrdersAssumption ==
    /\ Prices \subseteq Nat \ {0} /\ Quantities \subseteq Nat \ {0}
    /\ Settings \subseteq Setting

VARIABLES
    settings,    \* what the process was started with
    orders,      \* the orders table, by id; history: which of the broker's orders it is (at)
    positions,   \* the positions table: nothing keeps a symbol to one row
    baseline,    \* today's row of DailyPnlBaseline: {} or {realized P&L}
    exchange,    \* the orders the broker has accepted
    req,         \* what each thread is doing, with what it has read
    lost,        \* history: orders at the broker whose request ended in an error
    overlapped   \* history: symbols where a commit wrote over what it had not read

deskVars == <<settings, orders, positions, baseline, exchange, req, lost, overlapped>>

Sides == {"buy", "sell"}
Signed(side, qty) == IF side = "buy" THEN qty ELSE -qty
Abs(n) == IF n < 0 THEN -n ELSE n

\* A limit order trades against a market at or through its limit.
Crosses(side, limit, price) == IF side = "buy" THEN price <= limit ELSE price >= limit

\* Variant: adding to a position forgets what it cost.
ApplyToPositionRepriced(pos, fill) ==
    LET signed == Signed(fill.side, fill.qty) IN
    IF pos.qty = 0 \/ (pos.qty > 0 <=> signed > 0)
    THEN [pos EXCEPT !.qty = @ + signed, !.avg = fill.price]
    ELSE [pos EXCEPT !.qty = @ + signed, !.avg = IF pos.qty + signed = 0 THEN 0 ELSE @,
                     !.pnl = @ + fill.qty * (fill.price - pos.avg) * (IF pos.qty > 0 THEN 1 ELSE -1)]

\* oms.apply_to_position: adding averages the cost; reducing books P&L at the old
\* average; what goes through zero starts again at the price of the fill.
ApplyToPosition(pos, fill) ==
    LET signed == Signed(fill.side, fill.qty)
        newQty == pos.qty + signed
        closing == Min({fill.qty, Abs(pos.qty)})
        sign == IF pos.qty > 0 THEN 1 ELSE -1
    IN IF pos.qty = 0 \/ (pos.qty > 0 <=> signed > 0)
       THEN [pos EXCEPT !.qty = newQty,
                        !.avg = (Abs(pos.qty) * @ + fill.qty * fill.price) \div Abs(newQty)]
       ELSE [pos EXCEPT !.qty = newQty,
                        !.pnl = @ + closing * (fill.price - pos.avg) * sign,
                        !.avg = IF fill.qty > Abs(pos.qty) THEN fill.price
                                ELSE IF newQty = 0 THEN 0 ELSE @]

ApplyAll(pos, fills) == FoldLeft(ApplyToPosition, pos, fills)

RowsOf(sym) == {i \in DOMAIN positions : positions[i].sym = sym}
NoPosition(sym) == [sym |-> sym, qty |-> 0, avg |-> 0, pnl |-> 0]
TotalOver(S, f(_)) == FoldSet(LAMBDA i, acc : acc + f(i), 0, S)
TotalPnl == TotalOver(DOMAIN positions, LAMBDA i : positions[i].pnl)

-----------------------------------------------------------------------------
(* The pre-trade gate *)

\* check_pretrade: what the risk feed and the recent prints say of the symbol (a breach
\* of its risk limit and a volatility above the limit block alike).
Readings == {"clean", "breach", "unreachable"}
PretradeBlocks(reading) ==
    reading = "breach" \/ (reading = "unreachable" /\ ~settings.failOpen)

\* check_portfolio_limits: trades against the position are exempt from both limits.
Reducing(o) ==
    \E i \in RowsOf(o.sym) : positions[i].qty # 0 /\ (positions[i].qty > 0 <=> o.side = "sell")
LimitsEnforced == settings.loss > 0 \/ settings.share > 0

BaselineNow == IF baseline = {} THEN TotalPnl ELSE CHOOSE b \in baseline : TRUE
LossLimitHit == settings.loss > 0 /\ TotalPnl - BaselineNow < -settings.loss

Concentrated(o) ==
    LET notional(i) == Abs(positions[i].qty) * positions[i].avg
        mine == TotalOver(RowsOf(o.sym), notional) + o.qty * o.price
        all == TotalOver(DOMAIN positions \ RowsOf(o.sym), notional) + mine
    IN settings.share > 0 /\ 100 * mine > settings.share * all

PortfolioBlocks(o) ==
    LimitsEnforced /\ ~Reducing(o) /\ (LossLimitHit \/ Concentrated(o))

\* The first check of a day that gets as far takes (and commits) the baseline.
TakeBaseline(o) ==
    baseline' = IF LimitsEnforced /\ ~Reducing(o) /\ settings.loss > 0
                THEN {BaselineNow} ELSE baseline

-----------------------------------------------------------------------------
(* One request: its thread's record *)

Idle == [pc |-> "idle"]
At(t, pc) == req[t].pc = pc
Set(t, r) == req' = [req EXCEPT ![t] = r]
Goto(t, pc) == Set(t, [req[t] EXCEPT !.pc = pc])

\* Who asked for the fill goes on with its outcome; the order endpoint just replies.
Return(t, outcome) == IF req[t].by = "desk" THEN Set(t, Idle) ELSE Set(t, outcome)
Refused(t) == Return(t, [req[t] EXCEPT !.pc = "refused"])

\* What a thread keeps of its request: at is the broker's order (0: none), fills and via
\* what the router answered, row and read the position, working the orders to match.
Request(pc, sym, price) ==
    [pc |-> pc, by |-> "desk", sym |-> sym, side |-> "buy", qty |-> 0, price |-> price,
     limit |-> 0, at |-> 0, fills |-> <<>>, via |-> "paper", row |-> 0,
     read |-> NoPosition(sym), working |-> {}, pos |-> {}]

FillRequest(by, sym, side, qty, price, limit) ==
    [Request("gate", sym, price) EXCEPT !.by = by, !.side = side, !.qty = qty, !.limit = limit]

\* place_order, on its way to the gate (0: no limit price, a market order).
PlaceOrder(t) ==
    /\ At(t, "idle")
    /\ \E sym \in Symbols, side \in Sides, qty \in Quantities, ref \in Prices,
          limit \in Prices \cup {0} :
          Set(t, FillRequest("desk", sym, side, qty, ref, limit))
    /\ UNCHANGED <<settings, orders, positions, baseline, exchange, lost, overlapped>>

\* _check_pretrade_audited, before anything is routed.
Gate(t, reading) ==
    /\ At(t, "gate")
    /\ IF PretradeBlocks(reading) THEN Refused(t) /\ UNCHANGED baseline
       ELSE /\ TakeBaseline(req[t])
            /\ IF PortfolioBlocks(req[t]) THEN Refused(t) ELSE Goto(t, "route")
    /\ UNCHANGED <<settings, orders, positions, exchange, lost, overlapped>>

Marketable(r) == r.limit = 0 \/ Crosses(r.side, r.limit, r.price)

NewOrder(r, status, price, via) ==
    [sym |-> r.sym, side |-> r.side, qty |-> r.qty, limit |-> r.limit,
     status |-> status, price |-> price, via |-> via, by |-> r.by, at |-> r.at]

\* A limit order that does not cross rests with the internal matcher.
Rest(t) ==
    /\ At(t, "route") /\ ~Marketable(req[t])
    /\ orders' = Append(orders, NewOrder(req[t], "new", 0, "paper"))
    /\ Set(t, Idle)
    /\ UNCHANGED <<settings, positions, baseline, exchange, lost, overlapped>>

\* The fills that a thread is about to fold and commit: its own new order (id 0),
\* or the working orders it matches.
Filling(t, fills, via) ==
    Set(t, [req[t] EXCEPT !.pc = "fold", !.fills = fills, !.via = via])
OwnFill(r, price) == <<[id |-> 0, side |-> r.side, qty |-> r.qty, price |-> price]>>

\* PaperRouter.fill: at the limit price, or at the reference price.
RoutePaper(t) ==
    /\ At(t, "route") /\ Marketable(req[t]) /\ settings.router = "paper"
    /\ Filling(t, OwnFill(req[t], IF req[t].limit # 0 THEN req[t].limit ELSE req[t].price), "paper")
    /\ UNCHANGED <<settings, orders, positions, baseline, exchange, lost, overlapped>>

\* AlpacaRouter.fill and IBKRRouter.fill submit after their own checks; the answer
\* to the submission may be lost, although the broker has accepted the order.
RouteBroker(t) ==
    /\ At(t, "route") /\ Marketable(req[t]) /\ settings.router = "broker"
    /\ exchange' = Append(exchange, [sym |-> req[t].sym, side |-> req[t].side, qty |-> req[t].qty,
                                     status |-> "live", price |-> 0])
    /\ \/ Set(t, [req[t] EXCEPT !.pc = "wait", !.at = Len(exchange')]) /\ UNCHANGED lost
       \/ Refused(t) /\ lost' = lost \cup {Len(exchange')}
    /\ UNCHANGED <<settings, orders, positions, baseline, overlapped>>

\* Not tradable, no buying power, the wrong account, or both brokers configured.
RouteRefused(t) ==
    /\ At(t, "route") /\ Marketable(req[t]) /\ settings.router # "paper"
    /\ Refused(t)
    /\ UNCHANGED <<settings, orders, positions, baseline, exchange, lost, overlapped>>

\* Variant: a submission that is not rejected counts as a fill.
WaitForFillOptimistic(t) ==
    /\ At(t, "wait")
    /\ LET b == exchange[req[t].at] IN
       \/ b.status # "rejected" /\ Filling(t, OwnFill(req[t], req[t].price), "broker") /\ UNCHANGED lost
       \/ b.status = "rejected" /\ Refused(t) /\ lost' = lost \cup {req[t].at}
    /\ UNCHANGED <<settings, orders, positions, baseline, exchange, overlapped>>

\* wait_for_fill: only a filled order is a fill; any other end, and the timeout,
\* are errors, whatever the broker does with the order afterwards.
WaitForFill(t) ==
    /\ At(t, "wait")
    /\ LET b == exchange[req[t].at] IN
       \/ /\ b.status = "filled"
          /\ Filling(t, OwnFill(req[t], b.price), "broker") /\ UNCHANGED lost
       \/ /\ b.status # "filled"
          /\ Refused(t) /\ lost' = lost \cup {req[t].at}
    /\ UNCHANGED <<settings, orders, positions, baseline, exchange, overlapped>>

\* The broker's side of an order it has accepted.
BrokerDecides ==
    /\ \E i \in DOMAIN exchange :
          /\ exchange[i].status = "live"
          /\ \/ \E p \in Prices : exchange' = [exchange EXCEPT ![i] = [@ EXCEPT !.status = "filled", !.price = p]]
             \/ exchange' = [exchange EXCEPT ![i] = [@ EXCEPT !.status = "rejected"]]
    /\ UNCHANGED <<settings, orders, positions, baseline, req, lost, overlapped>>

\* _fold_fill_into_position reads the position: the first row the database returns.
ReadPosition(t) ==
    /\ At(t, "fold")
    /\ LET mine == RowsOf(req[t].sym) IN
       \E row \in IF mine = {} THEN {0} ELSE mine :
          Set(t, [req[t] EXCEPT !.pc = "commit", !.row = row,
                                !.read = IF row = 0 THEN NoPosition(req[t].sym) ELSE positions[row]])
    /\ UNCHANGED <<settings, orders, positions, baseline, exchange, lost, overlapped>>

\* An UPDATE writes the columns that the session has changed, with the values it computed.
Written(stored, read, new) ==
    [c \in DOMAIN stored |-> IF new[c] = read[c] THEN stored[c] ELSE new[c]]

Matched(fills) == {fills[i].id : i \in DOMAIN fills} \ {0}

\* Whether somebody else has committed what this session is about to overwrite.
Stale(r) ==
    \/ IF r.row = 0 THEN RowsOf(r.sym) # {} ELSE positions[r.row] # r.read
    \/ \E i \in Matched(r.fills) : orders[i].status # "new"

\* The commit: the order (or the working orders) filled, the position written.
Commit(t) ==
    /\ At(t, "commit")
    /\ LET r == req[t]
           new == ApplyAll(r.read, r.fills)
       IN /\ positions' = IF r.row = 0 THEN Append(positions, new)
                          ELSE [positions EXCEPT ![r.row] = Written(@, r.read, new)]
          /\ orders' = IF Matched(r.fills) = {}
                       THEN Append(orders, NewOrder(r, "filled", r.fills[1].price, r.via))
                       ELSE [i \in DOMAIN orders |->
                               IF i \in Matched(r.fills)
                               THEN [orders[i] EXCEPT !.status = "filled", !.price = orders[i].limit]
                               ELSE orders[i]]
          /\ overlapped' = IF Stale(r) THEN overlapped \cup {r.sym} ELSE overlapped
          /\ Return(t, [r EXCEPT !.pc = "filled", !.price = r.fills[1].price])
    /\ UNCHANGED <<settings, baseline, exchange, lost>>

-----------------------------------------------------------------------------
(* Working orders *)

Working(sym) == {i \in DOMAIN orders : orders[i].sym = sym /\ orders[i].status = "new"}

\* match_working_orders reads the working orders of a symbol, for a market price ...
MatchRead(t) ==
    /\ At(t, "idle")
    /\ \E sym \in Symbols, price \in Prices :
          /\ Working(sym) # {}
          /\ Set(t, [Request("match", sym, price) EXCEPT !.working = Working(sym)])
    /\ UNCHANGED <<settings, orders, positions, baseline, exchange, lost, overlapped>>

\* ... passes the symbol's gate (not the portfolio's), and fills those that cross.
MatchGate(t) ==
    /\ At(t, "match")
    /\ LET r == req[t]
           hit == {i \in r.working : Crosses(orders[i].side, orders[i].limit, r.price)}
           fillOf(i) == [id |-> i, side |-> orders[i].side, qty |-> orders[i].qty,
                         price |-> orders[i].limit]
       IN \E reading \in Readings :
             IF PretradeBlocks(reading) \/ hit = {} THEN Set(t, Idle)
             ELSE \E ids \in [1 .. Cardinality(hit) -> hit] :
                     /\ \A i, j \in DOMAIN ids : i < j => ids[i] < ids[j]
                     /\ Filling(t, [i \in DOMAIN ids |-> fillOf(ids[i])], "paper")
    /\ UNCHANGED <<settings, orders, positions, baseline, exchange, lost, overlapped>>

\* cancel_order reads a working order ...
CancelRead(t) ==
    /\ At(t, "idle")
    /\ \E i \in DOMAIN orders :
          /\ orders[i].status = "new"
          /\ Set(t, [pc |-> "cancel", by |-> "desk", order |-> i])
    /\ UNCHANGED <<settings, orders, positions, baseline, exchange, lost, overlapped>>

\* ... and commits its cancellation.
CancelCommit(t) ==
    /\ At(t, "cancel")
    /\ LET i == req[t].order IN
          /\ orders' = [orders EXCEPT ![i].status = "cancelled"]
          /\ overlapped' = IF orders[i].status = "new" THEN overlapped
                           ELSE overlapped \cup {orders[i].sym}
    /\ Set(t, Idle)
    /\ UNCHANGED <<settings, positions, baseline, exchange, lost>>

-----------------------------------------------------------------------------
\* A thread is gone with its request: the process died.
AtBroker(t) == req[t].pc \in {"wait", "fold", "commit"} /\ req[t].at # 0
Unwaited == {req[t].at : t \in {u \in Threads : AtBroker(u)}}
ProcessDies ==
    /\ req' = [t \in Threads |-> Idle]
    /\ lost' = lost \cup Unwaited
    /\ UNCHANGED <<settings, orders, positions, baseline, exchange, overlapped>>

\* At midnight (UTC) yesterday's baseline is no longer today's.
Midnight ==
    /\ baseline' = {}
    /\ UNCHANGED <<settings, orders, positions, exchange, req, lost, overlapped>>

DeskStart(setting) ==
    /\ setting \in Settings /\ settings = setting
    /\ orders = <<>> /\ positions = <<>> /\ exchange = <<>>
    /\ baseline = {} /\ lost = {} /\ overlapped = {}
    /\ req = [t \in Threads |-> Idle]

\* A fill between its gate and its commit, whoever asked for it.
RouteStep(t) ==
    RoutePaper(t) \/ RouteBroker(t) \/ RouteRefused(t) \/ WaitForFill(t) \/ ReadPosition(t)
DeskRequest(t) == PlaceOrder(t) \/ MatchRead(t) \/ CancelRead(t)
DeskStep(t) == MatchGate(t) \/ CancelCommit(t)

-----------------------------------------------------------------------------
(* Properties *)

Filled(sym) == {i \in DOMAIN orders : orders[i].sym = sym /\ orders[i].status = "filled"}
Net(S, book) == TotalOver(S, LAMBDA i : Signed(book[i].side, book[i].qty))
Spent(S, book) == TotalOver(S, LAMBDA i : Signed(book[i].side, book[i].qty) * book[i].price)

\* The books balance: what the positions of a symbol hold is what its orders filled,
\* and the cash the fills have cost is the cost of the holding less the P&L booked.
\* Only two requests that overlapped on the symbol can have put them out
\* (_fold_fill_into_position, match_working_orders and cancel_order write what they
\* computed from an earlier read).
BooksBalance ==
    \A sym \in Symbols \ overlapped :
        /\ TotalOver(RowsOf(sym), LAMBDA i : positions[i].qty) = Net(Filled(sym), orders)
        /\ TotalOver(RowsOf(sym), LAMBDA i : positions[i].qty * positions[i].avg - positions[i].pnl)
             = Spent(Filled(sym), orders)

\* A broker's fill is in the orders table, once, at its quantity and price, or it is
\* one whose request ended in an error or died, or one that is still being recorded:
\* nothing is recorded that the broker did not fill (wait_for_fill).
BrokerTruth ==
    LET told == DOMAIN exchange \ (lost \cup Unwaited)
        booked == {k \in DOMAIN orders : orders[k].via = "broker"}
    IN /\ \A i \in told : exchange[i].status = "filled" /\ \E k \in booked : orders[k].at = i
       /\ \A k \in booked :
             /\ orders[k].at \in told /\ orders[k].status = "filled"
             /\ \A c \in {"sym", "side", "qty", "price"} : orders[k][c] = exchange[orders[k].at][c]
       /\ \A j, k \in booked : orders[j].at = orders[k].at => j = k

=============================================================================
