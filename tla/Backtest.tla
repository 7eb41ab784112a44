------------------------------ MODULE Backtest ------------------------------
(***************************************************************************)
(* A backtest of one request: the prints of a symbol are fetched from the  *)
(* historical database, and the trading bot's rules are replayed over them *)
(* in steps of time, each decision from the prints of a trailing window.   *)
(***************************************************************************)
EXTENDS Integers, Sequences, FiniteSetsExt

CONSTANTS
    BtTapes,     \* what may be stored of the symbol: prints, in the order they are stored
    BtRequests,  \* the bodies of run: start, end, lookback, step, and the stop in percent
    BtMaxRows,   \* MAX_ROW_LIMIT, of one query's answer
    BtBarLen     \* BUCKET_MS, in the ticks of the prints' times

\* A q null: it arrives as NaN.
NoPrice == 0

ASSUME BacktestAssumption ==
    /\ BtTapes \subseteq Seq([time : Nat, price : Nat])
    /\ BtRequests \subseteq [start : Nat, end : Nat, lookback : Nat, step : Nat, stop : 0 .. 100]
    /\ BtMaxRows \in Nat \ {0} /\ BtBarLen \in Nat \ {0}

VARIABLES
    btAt,      \* "asked", "refused", "walking" or "done"
    btTape,    \* what is stored
    btReq,     \* the request
    btRows,    \* the prints that were fetched, in the order of their times
    btCursor,
    btHeld,    \* the position, a set of none or one
    btTrades,  \* the trades, as they are closed
    btPoints   \* the decision points there have been

btVars == <<btAt, btTape, btReq, btRows, btCursor, btHeld, btTrades, btPoints>>

-----------------------------------------------------------------------------
(* Fetching *)

\* rows.sort: by time, those of one time in the order they came.
InOrder(s) ==
    LET earlier(i, j) == s[i].time < s[j].time \/ (s[i].time = s[j].time /\ i < j)
        place(i) == Cardinality({j \in DOMAIN s : earlier(j, i)}) + 1
    IN [k \in DOMAIN s |-> s[CHOOSE i \in DOMAIN s : place(i) = k]]

InRange(tape, req) ==
    SelectSeq(tape, LAMBDA print : req.start <= print.time /\ print.time <= req.end)

\* The answer of a query, cut off at the limit; nothing is said of what was cut off.
FirstRows(rows) == SubSeq(rows, 1, IF Len(rows) < BtMaxRows THEN Len(rows) ELSE BtMaxRows)

\* fetch_historical_trades: only a price of None is left out, and NaN is not None.
Fetched(tape, req) == InOrder(FirstRows(InRange(tape, req)))

\* run: what is refused is answered with an error, as is a window without a print.
FetchRows ==
    /\ btAt = "asked"
    /\ IF btReq.end <= btReq.start \/ btReq.stop <= 0 \/ Fetched(btTape, btReq) = <<>>
       THEN btAt' = "refused" /\ UNCHANGED btRows
       ELSE btAt' = "walking" /\ btRows' = Fetched(btTape, btReq)
    /\ UNCHANGED <<btTape, btReq, btCursor, btHeld, btTrades, btPoints>>

-----------------------------------------------------------------------------
(* What is known at a time *)

\* The rows of the window that ends at c.  The forecast takes only those with a price; with
\* none of them it knows no last price, and nothing is decided.
Window(c) ==
    {k \in DOMAIN btRows : /\ c - btReq.lookback <= btRows[k].time /\ btRows[k].time <= c
                           /\ btRows[k].price # NoPrice}

LastIn(rows) == btRows[Max(rows)].price

Bar(k) == btRows[k].time \div BtBarLen
Bars(rows) == {Bar(k) : k \in rows}
Closing(rows, bar) == LastIn({k \in rows : Bar(k) = bar})

\* build_time_forecast: the mean of the logarithmic returns from bar to bar is that from
\* the first to the last.  A change of price is taken to exceed the threshold.
Trend(rows) ==
    LET first == Closing(rows, Min(Bars(rows)))
        last == Closing(rows, Max(Bars(rows)))
    IN IF Cardinality(Bars(rows)) < 3 \/ last = first THEN "flat"
       ELSE IF last > first THEN "up" ELSE "down"

-----------------------------------------------------------------------------
(* Walking forward *)

HitsStop(price, position) == 100 * price <= position.entryPrice * (100 - btReq.stop)

TradeOf(position, time, price, reason) ==
    [entry |-> position.entry, entryPrice |-> position.entryPrice,
     exit |-> time, exitPrice |-> price, reason |-> reason]

\* The rules of the bot, at a cursor whose window has the rows given.
Enters(rows) == Trend(rows) = "up"
LeavesAt(rows, position) == HitsStop(LastIn(rows), position) \/ Trend(rows) = "down"

\* Variant: a position is entered on top of the one there is.
DecideTwice(rows) ==
    /\ btPoints' = btPoints \cup {btCursor}
    /\ btHeld' = IF Enters(rows) THEN {[entry |-> btCursor, entryPrice |-> LastIn(rows)]} ELSE btHeld
    /\ UNCHANGED btTrades

Decide(rows) ==
    /\ btPoints' = btPoints \cup {btCursor}
    /\ \/ /\ btHeld = {} /\ Enters(rows)
          /\ btHeld' = {[entry |-> btCursor, entryPrice |-> LastIn(rows)]}
          /\ UNCHANGED btTrades
       \/ \E position \in btHeld :
             /\ LeavesAt(rows, position)
             /\ btHeld' = {}
             /\ btTrades' = Append(btTrades, TradeOf(position, btCursor, LastIn(rows),
                   IF HitsStop(LastIn(rows), position) THEN "stop_loss" ELSE "trend_flip"))
       \/ /\ IF btHeld = {} THEN ~Enters(rows) ELSE \A position \in btHeld : ~LeavesAt(rows, position)
          /\ UNCHANGED <<btHeld, btTrades>>

\* step_min is not looked at: of 0, the loop does not end.
Advanced(c) == c + btReq.step

\* One turn of the loop.
Walk ==
    /\ btAt = "walking" /\ btCursor <= btReq.end
    /\ IF Window(btCursor) # {} THEN Decide(Window(btCursor))
       ELSE UNCHANGED <<btHeld, btTrades, btPoints>>
    /\ btCursor' = Advanced(btCursor)
    /\ UNCHANGED <<btAt, btTape, btReq, btRows>>

\* Variant: a position that is left at the end is forgotten.
EndingForgotten == btTrades

\* What is left at the end is closed at the last print, with a price or without.
Ending ==
    LET last == btRows[Len(btRows)]
    IN IF btHeld = {} THEN btTrades
       ELSE Append(btTrades, TradeOf(CHOOSE position \in btHeld : TRUE, last.time, last.price, "end_of_window"))

Concludes ==
    /\ btAt = "walking" /\ btCursor > btReq.end
    /\ btTrades' = Ending /\ btHeld' = {} /\ btAt' = "done"
    /\ UNCHANGED <<btTape, btReq, btRows, btCursor, btPoints>>

-----------------------------------------------------------------------------
BtStart(tape, req) ==
    /\ btAt = "asked" /\ btTape = tape /\ btReq = req
    /\ btRows = <<>> /\ btCursor = btReq.start
    /\ btHeld = {} /\ btTrades = <<>> /\ btPoints = {}

BtNext == FetchRows \/ Walk \/ Concludes

BtInit == \E tape \in BtTapes, req \in BtRequests : BtStart(tape, req)

BtSpec == BtInit /\ [][BtNext]_btVars

-----------------------------------------------------------------------------
(* Properties *)

Entered(position) ==
    /\ position.entry \in btPoints /\ Enters(Window(position.entry))
    /\ position.entryPrice = LastIn(Window(position.entry))

\* run_backtest: every trade is the bot's.  It was entered where the trend was up, at the
\* price known there, and left at the first decision point at which the bot leaves: a stop
\* is never walked past, and never met by a price that was not there yet.
TradesFollowTheRules ==
    /\ \A position \in btHeld :
          Entered(position) /\ \A c \in btPoints : c > position.entry => ~LeavesAt(Window(c), position)
    /\ \A k \in DOMAIN btTrades :
          LET trade == btTrades[k] IN
          /\ Entered(trade)
          /\ \A c \in btPoints :
                c > trade.entry /\ (trade.reason = "end_of_window" \/ c < trade.exit)
                => ~LeavesAt(Window(c), trade)
          /\ trade.reason # "end_of_window" =>
                /\ trade.exit \in btPoints /\ LeavesAt(Window(trade.exit), trade)
                /\ trade.exitPrice = LastIn(Window(trade.exit))
                /\ trade.reason = "stop_loss" <=> HitsStop(trade.exitPrice, trade)

\* ... one at a time: a trade is entered after the one before it was left, only the last
\* one by the end of the window; and no point with the trend up is passed without one.
OneAtATime ==
    /\ \A k \in DOMAIN btTrades : \A position \in btHeld :
          btTrades[k].exit <= position.entry
    /\ \A j, k \in DOMAIN btTrades : j < k =>
          btTrades[j].reason # "end_of_window" /\ btTrades[j].exit <= btTrades[k].entry
    /\ \A c \in btPoints : Enters(Window(c)) =>
          \/ \E position \in btHeld : position.entry <= c
          \/ \E k \in DOMAIN btTrades :
                LET trade == btTrades[k] IN
                trade.entry <= c /\ (trade.reason = "end_of_window" \/ c <= trade.exit)

\* At the end nothing is held, and a trade the rules have not closed is closed at the last
\* print, at NaN if that is what was stored.
NothingIsLeftOpen ==
    btAt = "done" =>
        /\ btHeld = {}
        /\ \A k \in DOMAIN btTrades : btTrades[k].reason = "end_of_window" =>
              /\ btTrades[k].exit = btRows[Len(btRows)].time
              /\ btTrades[k].exitPrice = btRows[Len(btRows)].price

\* A backtest reports the trades the bot would have made.
BacktestIsTheBots == TradesFollowTheRules /\ OneAtATime /\ NothingIsLeftOpen

=============================================================================
