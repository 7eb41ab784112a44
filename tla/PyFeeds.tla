------------------------------ MODULE PyFeeds ------------------------------
(***************************************************************************)
(* The Python feeds: a provider (or a simulator) in a process of its own,  *)
(* which turns what a venue sends into rows and publishes each row to the  *)
(* tickerplant of its shard.  The venue is the environment, the websocket  *)
(* library reconnects by itself, a tickerplant may restart at any moment.  *)
(* A symbol is its first letter and a number.                              *)
(***************************************************************************)
EXTENDS Topology, Sequences, FiniteSets, SequencesExt

CONSTANTS
    PfCases,        \* the feeds: [vendor, symbols, asksFor, listed, configured, count]
    PfBuiltin,      \* the simulators' own symbols
    PfShardCount,
    PfChunk,        \* STREAM_CHUNK: what one Binance connection can carry
    PfBatch,        \* SUBSCRIBE_CHUNK: what one message asks for
    PfFrames,       \* what a venue sends, for some of the symbols it was asked for
    PfMaxFrames, PfMaxBreaks    \* bounds

VARIABLES
    pfCase, pfSymbols,
    pfExit,    \* the runner: "starting", "running" or its exit code
    pfConn,    \* a connection to the venue: [at, authed, asked, inbox]
    pfWork,    \* of each connection's thread, what is left of a publish_rows
    pfLink,    \* TickerplantConnection.q, by publisher and shard
    pfTp,      \* the tickerplants: [up, rows]
    pfRows,    \* the rows that were made, and those that no tickerplant will have
    pfPoll,    \* of a polling provider: [crumb, refused, conids, cursor]
    pfCount

pfVars == <<pfCase, pfSymbols, pfExit, pfConn, pfWork, pfLink, pfTp, pfRows, pfPoll, pfCount>>

Licensed == {"nyse", "lseg", "nse", "bse"}
Keyed == {"finnhub", "twelvedata", "polygon", "alpaca"}
Polled == {"yahoo", "ibkr", "alphavantage"}
Simulated == {"bpipe", "crims"}
CanListAll == {"alpaca", "coinbase", "kraken", "binance", "bybit", "okx"}

-----------------------------------------------------------------------------
(* The vendors' messages.  An event has a kind, a symbol and a price that may be missing, a *)
(* price that may not be a number, a quantity in tenths and the taker's side.               *)

\* The trades of a frame that name a symbol and a price.
TradesOf(frame) == SelectSeq(frame, LAMBDA e : e.kind = "trade" /\ e.price # "none")
TickOf(e, size, side) == [sym |-> e.sym, id |-> e.id, size |-> size, side |-> side]

\* A price that is no number raises, and the whole frame goes with it...
NotANumber(events) == \E i \in DOMAIN events : events[i].price = "text"
\* ... or only its own event is left out.
Readable(events) == SelectSeq(events, LAMBDA e : e.price # "text")

\* size is whole shares, and there is no side.
WholeTicks(events) ==
    [i \in DOMAIN events |-> TickOf(events[i], events[i].qty \div 10, "")]

\* finnhub_trades, twelvedata_price, polygon_messages, yahoo_quotes
StrictTicks(frame) == IF NotANumber(TradesOf(frame)) THEN {} ELSE {WholeTicks(TradesOf(frame))}

\* alphavantage_quote
AlphavantageTicks(frame) == {WholeTicks(Readable(TradesOf(frame)))}

\* _crypto_size: the nearest whole, and the even one of two.
CryptoSize(qty) ==
    LET d == qty \div 10
        r == qty % 10
    IN IF r > 5 \/ (r = 5 /\ d % 2 = 1) THEN d + 1 ELSE d
Side == [buy |-> "B", sell |-> "S", none |-> ""]
CryptoTicks(events) ==
    [i \in DOMAIN events |-> TickOf(events[i], CryptoSize(events[i].qty), Side[events[i].taker])]

\* coinbase_match
CoinbaseTicks(frame) == {CryptoTicks(Readable(TradesOf(frame)))}

\* kraken_trade
KrakenTicks(frame) == IF NotANumber(TradesOf(frame)) THEN {} ELSE {CryptoTicks(TradesOf(frame))}

\* binance_trade: the flag says whether the buyer was the maker.
BinanceTicks(frame) ==
    LET events == Readable(TradesOf(frame))
        sellerTook(e) == e.taker = "sell"
    IN {[i \in DOMAIN events |->
            TickOf(events[i], CryptoSize(events[i].qty), IF sellerTook(events[i]) THEN "S" ELSE "B")]}

\* binance_depth: the levels of the book, the bids before the asks, the removed ones too.
DepthTicks(frame) ==
    LET levels(side) == SelectSeq(frame, LAMBDA e : e.kind = side /\ e.price = "number")
        ticks(side, as) ==
            [i \in DOMAIN levels(side) |->
                TickOf(levels(side)[i], CryptoSize(levels(side)[i].qty), as)]
    IN {ticks("bid", "BID") \o ticks("ask", "ASK")}

\* bybit_trade
BybitTicks(frame) == {CryptoTicks(Readable(TradesOf(frame)))}

\* okx_trade
OkxTicks(frame) == {CryptoTicks(Readable(TradesOf(frame)))}

\* alpaca_trade
AlpacaTicks(frame) == {WholeTicks(Readable(TradesOf(frame)))}

\* _ibkr_parse_price: without the letter that may be before it.
IbkrPriced(e) == e.price \in {"number", "lettered"}

\* _ibkr_parse_volume
Units == [one |-> 1, K |-> 1000, M |-> 1000000, B |-> 1000000000]
IbkrVolume(e) == e.qty * Units[e.unit]

\* ibkr_snapshot: the rows of a contract that was asked for.
IbkrTicks(frame, conids) ==
    LET events == SelectSeq(frame, LAMBDA e : e.sym \in DOMAIN conids /\ conids[e.sym] /\ IbkrPriced(e))
    IN {[i \in DOMAIN events |-> TickOf(events[i], IbkrVolume(events[i]), "")]}

\* The ticks of a frame, or none when the parser raises.
Ticks(vendor, frame) ==
    CASE vendor \in {"finnhub", "twelvedata", "polygon", "yahoo"} -> StrictTicks(frame)
      [] vendor = "alphavantage" -> AlphavantageTicks(frame)
      [] vendor = "coinbase" -> CoinbaseTicks(frame)
      [] vendor = "kraken" -> KrakenTicks(frame)
      [] vendor = "binance" -> BinanceTicks(frame)
      [] vendor = "binance-depth" -> DepthTicks(frame)
      [] vendor = "bybit" -> BybitTicks(frame)
      [] vendor = "okx" -> OkxTicks(frame)
      [] vendor = "alpaca" -> AlpacaTicks(frame)
      [] vendor = "ibkr" -> IbkrTicks(frame, pfPoll.conids)
      [] vendor \in Simulated -> {WholeTicks(frame)}

-----------------------------------------------------------------------------
(* The runner and the connections *)

\* build_universe: what was listed and nothing else, or the built-in symbols, cut or padded.
Universe(case) ==
    LET listed == case.symbols
        padding == [k \in 1 .. case.count |-> <<((k - 1) % Letters) + 1, k>>]
        all == PfBuiltin \o padding
    IN IF listed # <<>> THEN listed
       ELSE IF case.count = 0 THEN PfBuiltin ELSE SubSeq(all, 1, case.count)

\* main: what it exits with, or the symbols it runs with.  A feed whose list the venue is to
\* give asks for it first; a provider that is licensed or has no key raises in run().
Outcome(case) ==
    IF case.asksFor = "all" /\ ~(case.vendor \in CanListAll /\ case.listed) THEN "2"
    ELSE IF case.vendor \in Licensed THEN "3"
    ELSE IF case.vendor \in Keyed /\ ~case.configured THEN "2"
    ELSE "running"

SymbolsOf(case) == IF case.vendor \in Simulated THEN Universe(case) ELSE case.symbols

\* chunked
Chunked(items, size) ==
    [k \in 1 .. (Len(items) + size - 1) \div size |->
        SubSeq(items, (k - 1) * size + 1, IF k * size < Len(items) THEN k * size ELSE Len(items))]

\* Only Binance opens several connections.
Chunks == IF pfCase.vendor = "binance" THEN Chunked(pfSymbols, PfChunk) ELSE <<pfSymbols>>
Connections == DOMAIN Chunks

\* Variant: every connection publishes through the provider's own publisher.
SharedPublisher(c) == 0

\* _run_one_connection: a publisher of its own when there are several.
PublisherOf(c) == IF Len(Chunks) > 1 THEN c ELSE 0

Closed == [at |-> "closed", authed |-> FALSE, asked |-> {}, inbox |-> <<>>]
Publishers == 0 .. 2
NoLinks == [p \in Publishers |-> [s \in ShardIds(PfShardCount) |-> "none"]]

PfStart(case) ==
    /\ pfCase = case
    /\ pfSymbols = SymbolsOf(case)
    /\ pfExit = "starting"
    /\ pfConn = [c \in 1 .. 2 |-> Closed]
    /\ pfWork = [c \in 1 .. 2 |-> <<>>]
    /\ pfLink = NoLinks
    /\ pfTp = [s \in ShardIds(PfShardCount) |-> [up |-> TRUE, rows |-> <<>>]]
    /\ pfRows = [made |-> {}, lost |-> {}]
    /\ pfPoll = [crumb |-> "none", refused |-> FALSE, conids |-> <<>>, cursor |-> 1]
    /\ pfCount = [frames |-> 0, breaks |-> 0]

PfInit == \E case \in PfCases : PfStart(case)

\* The provider's thread starts; a simulator connects to every tickerplant first.
Run ==
    /\ pfExit = "starting" /\ pfExit' = Outcome(pfCase)
    /\ pfWork' = [pfWork EXCEPT ![1] =
          IF pfCase.vendor \in Simulated
          THEN [k \in 1 .. PfShardCount |-> [do |-> "connect", shard |-> k - 1, rows |-> <<>>]] ELSE <<>>]
    /\ UNCHANGED <<pfCase, pfSymbols, pfConn, pfLink, pfTp, pfRows, pfPoll, pfCount>>

Streams == pfExit = "running" /\ pfCase.vendor \notin Polled \cup Simulated
Sees(c, change) == pfConn' = [pfConn EXCEPT ![c] = change]
ConnOnly == UNCHANGED <<pfCase, pfSymbols, pfExit, pfLink, pfTp, pfPoll>>

\* Variant: the flag is set once for all connections.
StillAuthed(c) == pfConn[c].authed

\* on_open of Alpaca: the flag is cleared.
AuthedOnOpen(c) == FALSE

\* What the message or messages of on_open ask for, or the URL did.
InBatches(symbols) == UNION {ToSet(batch) : batch \in ToSet(Chunked(symbols, PfBatch))}
FinnhubAsks == ToSet(pfSymbols)
TwelvedataAsks == InBatches(pfSymbols)
PolygonAsks == ToSet(pfSymbols)
CoinbaseAsks == InBatches(pfSymbols)
KrakenAsks == InBatches(pfSymbols)
BybitAsks == InBatches(pfSymbols)
OkxAsks == InBatches(pfSymbols)
DepthAsks == ToSet(pfSymbols)
BinanceAsks(c) == ToSet(Chunks[c])
AlpacaAsks == InBatches(pfSymbols)

AsksOnOpen(c) ==
    CASE pfCase.vendor = "finnhub" -> FinnhubAsks
      [] pfCase.vendor = "twelvedata" -> TwelvedataAsks
      [] pfCase.vendor = "polygon" -> PolygonAsks
      [] pfCase.vendor = "coinbase" -> CoinbaseAsks
      [] pfCase.vendor = "kraken" -> KrakenAsks
      [] pfCase.vendor = "bybit" -> BybitAsks
      [] pfCase.vendor = "okx" -> OkxAsks
      [] pfCase.vendor = "binance-depth" -> DepthAsks
      [] pfCase.vendor = "binance" -> BinanceAsks(c)
      [] pfCase.vendor = "alpaca" -> {}

\* on_open: Alpaca sends its key and waits, the others subscribe.
OnOpen(c) ==
    /\ Streams /\ pfConn[c].at = "closed"
    /\ Sees(c, [at |-> "open", authed |-> AuthedOnOpen(c), inbox |-> <<>>,
                asked |-> AsksOnOpen(c)])
    /\ ConnOnly /\ UNCHANGED <<pfWork, pfRows, pfCount>>

\* The venue answers Alpaca's key; sends a frame for what it was asked; or hangs up.
VenueAnswers(c) ==
    /\ pfCase.vendor = "alpaca" /\ pfConn[c].at = "open"
    /\ Sees(c, [pfConn[c] EXCEPT !.at = "answered",
                !.inbox = Append(@, [type |-> "authenticated", events |-> <<>>])])
    /\ ConnOnly /\ UNCHANGED <<pfWork, pfRows, pfCount>>

FrameOf(template) ==
    [i \in DOMAIN template |-> [id |-> <<pfCount.frames, i>>] @@ template[i]]

Prints(c) ==
    \E template \in PfFrames :
        /\ pfConn[c].at # "closed" /\ pfCount.frames < PfMaxFrames /\ Len(pfConn[c].inbox) < 2
        /\ \A i \in DOMAIN template : template[i].sym \in pfConn[c].asked
        /\ Sees(c, [pfConn[c] EXCEPT !.inbox = Append(@, [type |-> "frame", events |-> FrameOf(template)])])
        /\ pfCount' = [pfCount EXCEPT !.frames = @ + 1]
        /\ ConnOnly /\ UNCHANGED <<pfWork, pfRows>>

HangsUp(c) ==
    /\ pfConn[c].at # "closed" /\ pfWork[c] = <<>> /\ pfCount.breaks < PfMaxBreaks
    /\ Sees(c, [pfConn[c] EXCEPT !.at = "closed", !.asked = {}, !.inbox = <<>>])
    /\ pfCount' = [pfCount EXCEPT !.breaks = @ + 1]
    /\ ConnOnly /\ UNCHANGED <<pfWork, pfRows>>

-----------------------------------------------------------------------------
(* Publishing *)

\* Tick.row, publish_rows: the rows of each shard together, the shards by their first rows.
ShardOfRow(row) == ShardOf(PfShardCount, row.sym[1])
Grouped(rows) ==
    LET first(s) == {i \in DOMAIN rows : ShardOfRow(rows[i]) = s /\
                        \A j \in 1 .. i - 1 : ShardOfRow(rows[j]) # s}
        order == SetToSortSeq(UNION {first(s) : s \in ShardIds(PfShardCount)}, LAMBDA i, j : i < j)
    IN [k \in DOMAIN order |->
          LET s == ShardOfRow(rows[order[k]])
          IN [do |-> "publish", shard |-> s, rows |-> SelectSeq(rows, LAMBDA r : ShardOfRow(r) = s)]]

\* _publish
Publish(c, rows) ==
    /\ pfWork' = [pfWork EXCEPT ![c] = Grouped(rows)]
    /\ pfRows' = [pfRows EXCEPT !.made = @ \cup {rows[i].id : i \in DOMAIN rows}]

\* _handle_raw: a frame that cannot be parsed is as good as empty.
HandleRaw(c, frame) ==
    IF Ticks(pfCase.vendor, frame) = {} THEN UNCHANGED <<pfWork, pfRows>>
    ELSE \E rows \in Ticks(pfCase.vendor, frame) : Publish(c, rows)

\* on_message of Alpaca: nothing but the answer to the key counts until it is accepted, and
\* then the symbols are asked for.  Of the others: the frame is handled.
OnFrame(c) ==
    /\ Streams /\ pfWork[c] = <<>> /\ pfConn[c].inbox # <<>>
    /\ LET msg == Head(pfConn[c].inbox)
           gated == pfCase.vendor = "alpaca" /\ ~pfConn[c].authed
           accepted == gated /\ msg.type = "authenticated"
       IN /\ Sees(c, [pfConn[c] EXCEPT !.inbox = Tail(@), !.authed = @ \/ accepted,
                        !.asked = IF accepted THEN AlpacaAsks ELSE @])
          /\ IF gated THEN UNCHANGED <<pfWork, pfRows>> ELSE HandleRaw(c, msg.events)
    /\ UNCHANGED pfCount /\ ConnOnly

JobDone(c) == pfWork' = [pfWork EXCEPT ![c] = Tail(@)]
LinkIs(c, s, to) == pfLink' = [pfLink EXCEPT ![PublisherOf(c)][s] = to]
SendOnly == UNCHANGED <<pfCase, pfSymbols, pfExit, pfConn, pfPoll, pfCount>>

\* TickerplantConnection.connect: until it succeeds; the thread does nothing else.
Connect(c) ==
    /\ pfWork[c] # <<>>
    /\ LET job == Head(pfWork[c])
       IN /\ pfLink[PublisherOf(c)][job.shard] = "none" /\ pfTp[job.shard].up
          /\ LinkIs(c, job.shard, "up")
          /\ IF job.do = "connect" THEN JobDone(c) ELSE UNCHANGED pfWork
    /\ UNCHANGED <<pfTp, pfRows>> /\ SendOnly

\* publish: the batch is sent whole.  Over a connection that is dead it is lost: either the
\* send raises, and the connection is made again before anything else, or nobody notices.
Send(c) ==
    /\ pfWork[c] # <<>> /\ Head(pfWork[c]).do = "publish"
    /\ LET job == Head(pfWork[c])
           link == pfLink[PublisherOf(c)][job.shard]
       IN \/ /\ link = "up" /\ JobDone(c)
             /\ pfTp' = [pfTp EXCEPT ![job.shard].rows = @ \o job.rows]
             /\ UNCHANGED <<pfRows, pfLink>>
          \/ /\ link = "dead" /\ UNCHANGED pfTp
             /\ pfRows' = [pfRows EXCEPT !.lost = @ \cup {job.rows[i].id : i \in DOMAIN job.rows}]
             /\ \/ JobDone(c) /\ UNCHANGED pfLink
                \/ /\ LinkIs(c, job.shard, "none")
                   /\ pfWork' = [pfWork EXCEPT ![c] = <<[job EXCEPT !.do = "connect", !.rows = <<>>]>> \o Tail(@)]
    /\ SendOnly

\* A tickerplant goes away, with every connection to it, and comes back with its rows.
TpStops(s) ==
    /\ pfTp[s].up /\ pfCount.breaks < PfMaxBreaks
    /\ pfTp' = [pfTp EXCEPT ![s].up = FALSE]
    /\ pfLink' = [p \in Publishers |-> [pfLink[p] EXCEPT ![s] = IF @ = "up" THEN "dead" ELSE @]]
    /\ pfCount' = [pfCount EXCEPT !.breaks = @ + 1]
    /\ UNCHANGED <<pfCase, pfSymbols, pfExit, pfConn, pfWork, pfRows, pfPoll>>

TpStarts(s) ==
    /\ ~pfTp[s].up /\ pfTp' = [pfTp EXCEPT ![s].up = TRUE]
    /\ UNCHANGED <<pfCase, pfSymbols, pfExit, pfConn, pfWork, pfLink, pfRows, pfPoll, pfCount>>

-----------------------------------------------------------------------------
(* Polling and simulating *)

PollStarts == pfExit = "running" /\ pfWork[1] = <<>> /\ pfCount.frames < PfMaxFrames
Polls(poll) ==
    /\ PollStarts /\ pfPoll' = poll /\ pfCount' = [pfCount EXCEPT !.frames = @ + 1]
    /\ UNCHANGED <<pfCase, pfSymbols, pfExit, pfConn, pfLink, pfTp>>
Nothing == UNCHANGED <<pfWork, pfRows>>
QuotesOf(symbols) ==
    \E template \in PfFrames :
        /\ \A i \in DOMAIN template : template[i].sym \in symbols
        /\ HandleRaw(1, FrameOf(template))
Quotes == QuotesOf(ToSet(pfSymbols))

\* Variant: a crumb that was refused is kept.
KeptCrumb(crumb) == crumb

\* poll of Yahoo, after a 401: the next poll shakes hands again.
CrumbAfterRefusal(crumb) == "none"

\* run_once of Yahoo: the handshake if there is no crumb, then the quotes.  Each may fail.
PollYahoo ==
    /\ pfCase.vendor = "yahoo"
    /\ LET crumb == IF pfPoll.crumb = "none" THEN "good" ELSE pfPoll.crumb
       IN \/ Polls([pfPoll EXCEPT !.crumb = crumb, !.refused = FALSE]) /\ crumb = "good" /\ Quotes
          \/ Polls([pfPoll EXCEPT !.refused = FALSE]) /\ Nothing
          \/ /\ crumb = "stale" /\ Nothing
             /\ Polls([pfPoll EXCEPT !.refused = TRUE, !.crumb = CrumbAfterRefusal(@)])

CrumbExpires ==
    /\ pfPoll.crumb = "good" /\ ~pfPoll.refused /\ pfPoll' = [pfPoll EXCEPT !.crumb = "stale"]
    /\ UNCHANGED <<pfCase, pfSymbols, pfExit, pfConn, pfWork, pfLink, pfTp, pfRows, pfCount>>

\* poll of IBKR: a contract is looked up once, whatever the answer; a failed look-up again.
PollIbkr ==
    LET unknown == ToSet(pfSymbols) \ DOMAIN pfPoll.conids
    IN /\ pfCase.vendor = "ibkr"
       /\ \E failed \in SUBSET unknown : \E missing \in SUBSET (unknown \ failed) :
             LET conids == pfPoll.conids @@ [s \in unknown \ failed |-> s \notin missing]
             IN Polls([pfPoll EXCEPT !.conids = conids]) /\
                IF \A s \in DOMAIN conids : ~conids[s] THEN Nothing ELSE Quotes

\* poll of Alpha Vantage: the next symbol.  Without a key every poll fails, and is logged.
PollAlphavantage ==
    /\ pfCase.vendor = "alphavantage" /\ pfSymbols # <<>>
    /\ \/ /\ pfCase.configured
          /\ Polls([pfPoll EXCEPT !.cursor = (@ % Len(pfSymbols)) + 1])
          /\ QuotesOf({pfSymbols[pfPoll.cursor]}) \/ Nothing
       \/ ~pfCase.configured /\ Polls(pfPoll) /\ Nothing

\* main of a simulator: a batch of random symbols.
Simulate == pfCase.vendor \in Simulated /\ Polls(pfPoll) /\ Quotes

PfNext ==
    \/ Run
    \/ \E c \in Connections :
          OnOpen(c) \/ VenueAnswers(c) \/ Prints(c) \/ HangsUp(c) \/ OnFrame(c) \/ Connect(c) \/ Send(c)
    \/ \E s \in ShardIds(PfShardCount) : TpStops(s) \/ TpStarts(s)
    \/ PollYahoo \/ CrumbExpires \/ PollIbkr \/ PollAlphavantage \/ Simulate

-----------------------------------------------------------------------------
(* What must be true *)

RowsAt(s) == {pfTp[s].rows[i].id : i \in DOMAIN pfTp[s].rows}
JobIds(job) == {job.rows[i].id : i \in DOMAIN job.rows}
Waiting == UNION {UNION {JobIds(pfWork[c][j]) : j \in DOMAIN pfWork[c]} : c \in DOMAIN pfWork}

\* A row is in the tickerplant of its shard, once, or is lost, or waits to be sent.
EachRowOnce ==
    /\ \A s \in ShardIds(PfShardCount) :
          /\ \A i \in DOMAIN pfTp[s].rows : ShardOfRow(pfTp[s].rows[i]) = s
          /\ Cardinality(RowsAt(s)) = Len(pfTp[s].rows)
          /\ RowsAt(s) \cap (pfRows.lost \cup Waiting) = {}
    /\ pfRows.made = UNION {RowsAt(s) : s \in ShardIds(PfShardCount)} \cup pfRows.lost \cup Waiting

\* A connection that the venue has nothing to say on first carries all its symbols.
OpenMeansSubscribed ==
    \A c \in Connections :
        (pfConn[c].at = (IF pfCase.vendor = "alpaca" THEN "answered" ELSE "open") /\ pfConn[c].inbox = <<>>)
            => pfConn[c].asked = ToSet(Chunks[c])

\* The connections of one publisher are used by one thread at a time: they have no lock.
NoPublisherIsShared ==
    \A c, d \in Connections :
        (c # d /\ pfWork[c] # <<>> /\ pfWork[d] # <<>>) => PublisherOf(c) # PublisherOf(d)

\* Yahoo does not refuse the same crumb twice.
NoCrumbRefusedTwice == pfPoll.refused => pfPoll.crumb # "stale"

\* What a feed owes: every row is accounted for and in its shard; a connection that came back
\* carries what the first one did; threads do not share a connection; a refused crumb goes.
FeedsDeliver == EachRowOnce /\ OpenMeansSubscribed /\ NoPublisherIsShared /\ NoCrumbRefusedTwice
=============================================================================
