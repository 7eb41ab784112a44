-------------------------------- MODULE Bot ---------------------------------
(***************************************************************************)
(* The signal bot of one tenant: the scheduler's decision passes           *)
(* (bot_scheduler.py, signal_engine.py) and the endpoints that configure   *)
(* it and close its positions by hand (routers/bot.py).  Both trade        *)
(* through the order desk's path.                                          *)
(*                                                                         *)
(* A pass keeps one database session: the order of a fill is committed at  *)
(* once, the bot position that goes with it only by the session's next     *)
(* commit.                                                                 *)
(***************************************************************************)
EXTENDS Orders

CONSTANTS
    Scheduler,   \* the scheduler's thread, one of Threads
    Baskets,     \* the baskets that are put
    Caps,        \* the risk budgets that are put: paper_capital * risk_pct
    MaxHeld,     \* max_positions of the auto mode
    StopPart     \* the stop lies one StopPart-th of the price below the entry

ASSUME BotAssumption ==
    /\ Scheduler \in Threads /\ IsFiniteSet(Symbols)
    /\ \E c \in Caps : \A d \in Caps : d <= c
    /\ \A b \in Baskets : b \in Seq(Symbols)
    /\ Caps \subseteq Nat /\ MaxHeld \in Nat \ {0} /\ StopPart \in Nat \ {0}

VARIABLES
    config,    \* the BotConfig row
    held,      \* the BotPosition rows, with their ids
    pass,      \* the scheduler's pass: what it has read, what its session has pending
    lastId,
    sold,      \* history: the ids of the positions that have been sold
    strayed    \* history: symbols where an order and its bot position came apart

botVars == <<config, held, pass, lastId, sold, strayed>>
tradingVars == <<deskVars, botVars>>

NoPass == [on |-> FALSE, view |-> <<>>, todo |-> <<>>, cap |-> 0,
           working |-> {}, added |-> {}, deleted |-> {}, expired |-> FALSE]
HeldSyms(S) == {p.sym : p \in S}

-----------------------------------------------------------------------------
(* The decision pass: evaluate_tenant *)

\* What the tape says of a symbol: its last price (0: no recent trades) and its trend.
View == [last : Prices, trend : {"up", "down", "flat"}] \cup {[last |-> 0, trend |-> "flat"]}

\* The symbols of a pass: the basket, or in auto mode what is held and the picks.
Picks(view) == {s \in Symbols \ HeldSyms(held) : view[s].last # 0 /\ view[s].trend = "up"}
ToEvaluate(view) ==
    IF config.mode = "manual" THEN {config.basket}
    ELSE LET slots == Max({0, MaxHeld - Cardinality(HeldSyms(held))})
         IN {SetToSeq(HeldSyms(held)) \o SetToSeq(P) :
               P \in {Q \in SUBSET Picks(view) :
                        Cardinality(Q) = Min({slots, Cardinality(Picks(view))})}}

PassStart ==
    /\ ~pass.on /\ At(Scheduler, "idle") /\ config.enabled
    /\ \E view \in [Symbols -> View] : \E todo \in ToEvaluate(view) :
          /\ todo # <<>>
          /\ pass' = [NoPass EXCEPT !.on = TRUE, !.view = view, !.todo = todo,
                                    !.cap = config.cap, !.working = held]
    /\ UNCHANGED <<deskVars, config, held, lastId, sold, strayed>>

Sym == Head(pass.todo)
LastPrice == pass.view[Sym].last
Mine == {p \in pass.working : p.sym = Sym}
Risk(S) == TotalOver(S, LAMBDA p : p.qty * (p.entry - p.stop))
StopDistance == LastPrice \div StopPart
\* Variant: the size is rounded up.
AffordableRoundedUp == Max({0, pass.cap - Risk(pass.working)}) \div StopDistance + 1

\* What the unused risk budget pays for.
Affordable ==
    IF StopDistance > 0 THEN Max({0, pass.cap - Risk(pass.working)}) \div StopDistance ELSE 0

\* The rows that the decision on a symbol looks at.  After a commit of the session
\* they are read again: one that somebody has deleted meanwhile is an exception.
LooksAt == IF Mine # {} THEN Mine
           ELSE IF pass.view[Sym].trend = "up" THEN pass.working ELSE {}
Gone == pass.expired /\ \E p \in LooksAt : p \notin held \cup pass.added

Opens == Mine = {} /\ pass.view[Sym].trend = "up" /\ Affordable >= 1
Exits == \E p \in Mine : LastPrice <= p.stop \/ pass.view[Sym].trend = "down"

Deciding == pass.on /\ At(Scheduler, "idle") /\ pass.todo # <<>>

\* A symbol that asks for an order: the pass goes through the desk's gate with it.
PassOrders ==
    /\ Deciding /\ LastPrice # 0 /\ ~Gone
    /\ \/ Opens /\ Set(Scheduler, FillRequest("bot", Sym, "buy", Affordable, LastPrice, 0))
       \/ \E p \in Mine : Exits /\ Set(Scheduler, FillRequest("bot", Sym, "sell", p.qty, LastPrice, 0))
    /\ UNCHANGED <<settings, orders, positions, baseline, exchange, lost, overlapped, botVars>>

\* A symbol that asks for none (or that the broker does not trade).
PassSkips ==
    /\ Deciding /\ (LastPrice = 0 \/ ~Gone)
    /\ LastPrice # 0 => ~Exits
    /\ pass' = [pass EXCEPT !.todo = Tail(@)]
    /\ UNCHANGED <<deskVars, config, held, lastId, sold, strayed>>

\* The order was blocked or failed.
PassRefused ==
    /\ pass.on /\ At(Scheduler, "refused")
    /\ Set(Scheduler, Idle)
    /\ pass' = [pass EXCEPT !.todo = Tail(@)]
    /\ UNCHANGED <<settings, orders, positions, baseline, exchange, lost, overlapped>>
    /\ UNCHANGED <<config, held, lastId, sold, strayed>>

\* The order is filled and committed: its bot position is added to the session, or
\* deleted from it - if it is still there.
PassFilled ==
    /\ pass.on /\ At(Scheduler, "filled")
    /\ Set(Scheduler, Idle)
    /\ LET r == req[Scheduler]
           opened == [id |-> lastId + 1, sym |-> Sym, qty |-> r.qty, entry |-> r.price,
                      stop |-> LastPrice - StopDistance]
       IN IF r.side = "buy"
          THEN /\ pass' = [pass EXCEPT !.todo = Tail(@), !.working = @ \cup {opened},
                                       !.added = {opened}]
               /\ lastId' = lastId + 1
          ELSE /\ pass' = IF Mine \subseteq held
                          THEN [pass EXCEPT !.todo = Tail(@), !.working = @ \ Mine,
                                            !.deleted = Mine]
                          ELSE NoPass
               /\ UNCHANGED lastId
    /\ UNCHANGED <<settings, orders, positions, baseline, exchange, lost, overlapped>>
    /\ UNCHANGED <<config, held, sold, strayed>>

\* An exception ends the pass: what the session had not committed is rolled back.
PassFails ==
    /\ Deciding /\ LastPrice # 0 /\ Gone
    /\ pass' = NoPass
    /\ strayed' = strayed \cup HeldSyms(pass.added)
    /\ UNCHANGED <<deskVars, config, held, lastId, sold>>

Flushed == (held \cup pass.added) \ pass.deleted

PassEnds ==
    /\ pass.on /\ At(Scheduler, "idle") /\ pass.todo = <<>>
    /\ pass' = NoPass /\ held' = Flushed
    /\ UNCHANGED <<deskVars, config, lastId, sold, strayed>>

\* The scheduler's fill: a commit of its session also commits what was pending.
SessionCommits ==
    /\ held' = Flushed
    /\ pass' = [pass EXCEPT !.added = {}, !.deleted = {}, !.expired = TRUE]
GateCommits(reading) ==
    \/ reading = "unreachable"
    \/ (~PretradeBlocks(reading) /\ (PortfolioBlocks(req[Scheduler]) \/ baseline' # baseline))

\* The position that a sale sells, and whether it was there to be sold.
SaleOf(t) == IF t = Scheduler THEN Mine ELSE req[t].pos
Sell(t) ==
    IF req[t].by = "desk" \/ req[t].side = "buy" THEN UNCHANGED <<sold, strayed>>
    ELSE LET ids == {p.id : p \in SaleOf(t)} IN
         /\ sold' = sold \cup ids
         /\ strayed' = IF ids \cap sold # {} \/ ~(SaleOf(t) \subseteq held \cup pass.added)
                       THEN strayed \cup {req[t].sym} ELSE strayed

PassFill ==
    LET t == Scheduler IN
    /\ pass.on
    /\ \/ \E reading \in Readings :
             /\ Gate(t, reading)
             /\ IF GateCommits(reading) THEN SessionCommits ELSE UNCHANGED <<held, pass>>
             /\ UNCHANGED <<sold, strayed>>
       \/ RouteStep(t) /\ UNCHANGED <<held, pass, sold, strayed>>
       \/ Commit(t) /\ Sell(t) /\ SessionCommits
    /\ UNCHANGED <<config, lastId>>

BotStep ==
    PassOrders \/ PassSkips \/ PassRefused \/ PassFilled \/ PassFails \/ PassEnds \/ PassFill

-----------------------------------------------------------------------------
(* The endpoints *)

\* A fill that a request thread asked for: the order endpoint's, or a close.
ClientFill(t) ==
    /\ \/ (\E reading \in Readings : Gate(t, reading)) /\ UNCHANGED <<sold, strayed>>
       \/ (RouteStep(t) \/ Rest(t)) /\ UNCHANGED <<sold, strayed>>
       \/ Commit(t) /\ Sell(t)
    /\ UNCHANGED <<config, held, pass, lastId>>

\* close_position reads the position (and the tape) ...
CloseRead(t) ==
    /\ At(t, "idle")
    /\ \E p \in held, last \in Prices :
          Set(t, [FillRequest("close", p.sym, "sell", p.qty, last, 0) EXCEPT !.pos = {p}])
    /\ UNCHANGED <<settings, orders, positions, baseline, exchange, lost, overlapped, botVars>>

\* Variant: the position is deleted whether or not the order was filled.
CloseDoneAnyway(t) ==
    /\ req[t].pc \in {"filled", "refused"}
    /\ held' = held \ req[t].pos
    /\ Set(t, Idle)
    /\ UNCHANGED <<settings, orders, positions, baseline, exchange, lost, overlapped>>
    /\ UNCHANGED <<config, pass, lastId, sold, strayed>>

\* ... and deletes it once it is sold: if it is gone by then, that is an error.
CloseDone(t) ==
    /\ req[t].pc \in {"filled", "refused"}
    /\ held' = IF At(t, "filled") THEN held \ req[t].pos ELSE held
    /\ Set(t, Idle)
    /\ UNCHANGED <<settings, orders, positions, baseline, exchange, lost, overlapped>>
    /\ UNCHANGED <<config, pass, lastId, sold, strayed>>

\* force_clear_position and hard_reset forget positions that are not closed.
ForceClear ==
    /\ \E p \in held : held' = held \ {p} /\ strayed' = strayed \cup {p.sym}
    /\ UNCHANGED <<deskVars, config, pass, lastId, sold>>

HardReset ==
    /\ held' = {} /\ strayed' = strayed \cup HeldSyms(held)
    /\ config' = [config EXCEPT !.basket = <<>>, !.enabled = FALSE]
    /\ UNCHANGED <<deskVars, pass, lastId, sold>>

\* put_config, one field at a time: what is held cannot leave the basket, and an
\* empty basket cannot be enabled.  The commit is a step after these checks.
Puts ==
    [field : {"basket"}, to : Baskets] \cup [field : {"mode"}, to : {"manual", "auto"}]
    \cup [field : {"cap"}, to : Caps] \cup [field : {"enabled"}, to : BOOLEAN]
Accepted(put) ==
    /\ put.to # config[put.field]
    /\ put.field = "basket" => HeldSyms(held) \subseteq Range(put.to)
    /\ put.field = "enabled" /\ put.to /\ config.mode = "manual" => config.basket # <<>>
PutConfig(t) ==
    /\ At(t, "idle")
    /\ \E put \in Puts : Accepted(put) /\ Set(t, [pc |-> "put", by |-> "desk", field |-> put.field, to |-> put.to])
    /\ UNCHANGED <<settings, orders, positions, baseline, exchange, lost, overlapped, botVars>>
PutCommit(t) ==
    /\ At(t, "put")
    /\ config' = [config EXCEPT ![req[t].field] = req[t].to]
    /\ Set(t, Idle)
    /\ UNCHANGED <<settings, orders, positions, baseline, exchange, lost, overlapped>>
    /\ UNCHANGED <<held, pass, lastId, sold, strayed>>

\* The process dies with every request, and with the scheduler's pass.
TradingDies ==
    /\ ProcessDies
    /\ pass' = NoPass
    /\ LET r == req[Scheduler]
           unbooked == IF pass.on /\ r.pc = "filled" /\ r.side = "buy" THEN {Sym} ELSE {}
       IN strayed' = strayed \cup unbooked \cup HeldSyms(pass.added)
    /\ UNCHANGED <<config, held, lastId, sold>>

BotInit ==
    /\ config = [enabled |-> FALSE, mode |-> "manual", basket |-> <<>>, cap |-> Max(Caps)]
    /\ held = {} /\ pass = NoPass /\ lastId = 0 /\ sold = {} /\ strayed = {}

\* Trading, without bounds on how often anything happens.
TradingInit == (\E setting \in Settings : DeskStart(setting)) /\ BotInit
TradingNext ==
    \/ \E t \in Threads \ {Scheduler} :
         \/ (DeskRequest(t) \/ DeskStep(t)) /\ UNCHANGED botVars
         \/ ClientFill(t) \/ CloseRead(t) \/ CloseDone(t) \/ PutConfig(t) \/ PutCommit(t)
    \/ (BrokerDecides \/ Midnight) /\ UNCHANGED botVars
    \/ PassStart \/ BotStep \/ ForceClear \/ HardReset \/ TradingDies
TradingSpec == TradingInit /\ [][TradingNext]_tradingVars

-----------------------------------------------------------------------------
(* Properties *)

\* The bot's books: what it has bought and not yet sold is what it watches the exit
\* of (BotPosition), symbol by symbol, whatever the interleaving with requests -
\* unless the position was cleared without an order, sold twice, or its pass ended
\* between the commit of the order and that of the position.  A symbol has one such
\* row at most: evaluate_tenant keeps them in a dictionary by symbol.
ByBot(sym) == {i \in Filled(sym) : orders[i].by \in {"bot", "close"}}
Pending(sym) ==
    LET r == req[Scheduler] IN
    TotalOver({p \in pass.added : p.sym = sym}, LAMBDA p : p.qty)
    + (IF pass.on /\ r.pc = "filled" /\ r.side = "buy" /\ r.sym = sym THEN r.qty ELSE 0)
BotBooks ==
    /\ \A p, q \in held : p.sym = q.sym => p = q
    /\ \A sym \in Symbols \ strayed :
          Net(ByBot(sym), orders)
            = TotalOver({p \in held : p.sym = sym /\ p.id \notin sold}, LAMBDA p : p.qty) + Pending(sym)

\* The risk budget is one for the whole book: a position that the bot opens never
\* brings the loss of a stop-out of everything it holds above the budget the pass
\* read, not even with another one opened in the same pass (signal_engine.py:212-214).
\* With a broker the entry may slip from the price it was sized at.
OpensWithinBudget ==
    [][\A p \in held' \ held : settings.router = "paper" /\ pass.on => Risk(held') <= pass.cap]_tradingVars

=============================================================================
