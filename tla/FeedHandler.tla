---------------------------- MODULE FeedHandler ----------------------------
(***************************************************************************)
(* The C++ feed handler: a venue's packets are decoded into numbered       *)
(* messages, de-duplicated over two legs when the feed is redundant,       *)
(* followed by the sequence tracker and the recovery manager, turned into  *)
(* market events by the venue's adapter, and published to the tickerplant  *)
(* in batches.  One feed; what it is (protocol, mode, redundancy, which    *)
(* recovery callbacks are set) is chosen at the start.                     *)
(*                                                                         *)
(* In eng, `passed` and `told` are history: the numbers that reached the   *)
(* tracker and the gaps it reported.  In pub, `taken` is every trade       *)
(* decoded, `tp` what the tickerplant got, `gone` what went into a         *)
(* connection that was broken.                                             *)
(***************************************************************************)
EXTENDS Integers, SequencesExt, FiniteSetsExt

CONSTANTS
    Tapes,        \* what the venue of each protocol says, message by message
    DedupWindow,  \* FeedArbiter's dedupWindow
    SnapshotFrom, \* RecoveryManager's gapSizeSnapshotThreshold
    MaxBatch,     \* KdbPublisher's maxBatchSize
    FhCases       \* feeds, with how many packets are lost and links broken

VARIABLES
    feed,     \* the feed's configuration
    tape,     \* how much of the tape the venue has sent in this round
    air,      \* the packets on their way
    eng,      \* the engine, as the transport's thread leaves it
    pub,      \* the publisher's counters, with what became of the trades
    link,     \* the publisher's connection to the tickerplant
    socket,   \* a live feed's connection to the venue
    flushing, \* what the main thread's flush has encoded, {} when it is not in one
    fhLeft

fhVars == <<feed, tape, air, eng, pub, link, socket, flushing, fhLeft>>

\* live: on a websocket, else fed by a simulator in the flushing thread; callbacks:
\* what the recovery manager can ask for.
Feeds ==
    [protocol : {"mold", "sbe"}, live : {FALSE}, redundant : BOOLEAN,
     callbacks : SUBSET {"retransmit", "snapshot"}]
    \cup [protocol : {"soup", "fix"}, live : {FALSE}, redundant : {FALSE}, callbacks : {{}}]
    \cup [protocol : {"wsjson"}, live : BOOLEAN, redundant : {FALSE}, callbacks : {{}}]

ASSUME FhAssumption ==
    /\ \A c \in FhCases : c[1] \in Feeds
    /\ DedupWindow \in Nat \ {0} /\ SnapshotFrom \in Nat /\ MaxBatch \in Nat \ {0}

ItchItems == [code : STRING, locate : Nat, stock : STRING, whole : BOOLEAN, framed : STRING]
Directs(item, l) == item.code = "R" /\ item.whole /\ item.locate = l

\* The venue: of each protocol's messages, with a trade on the stock that the directory's
\* last message for its locate code has named.
ASSUME TapesAssumption ==
    /\ \A f \in {"mold", "soup"} :
          /\ Tapes[f] \in Seq(ItchItems)
          /\ \A j \in DOMAIN Tapes[f] : \A i \in 1 .. j - 1 :
                /\ Tapes[f][j].code = "P" /\ Tapes[f][j].whole
                /\ Directs(Tapes[f][i], Tapes[f][j].locate)
                /\ \A k \in i + 1 .. j - 1 : ~Directs(Tapes[f][k], Tapes[f][j].locate)
                => Tapes[f][i].stock = Tapes[f][j].stock
    /\ Tapes["sbe"] \in Seq([code : STRING, stock : STRING, whole : BOOLEAN])
    /\ Tapes["fix"] \in Seq([seqNum : Nat, entries : Seq(STRING), stock : STRING])
    /\ Tapes["wsjson"] \in Seq([code : STRING, records : Nat, stock : STRING])

\* A multicast feed may lose, repeat and reorder packets; a stream does not.
Multicast == feed.protocol \in {"mold", "sbe"}

-----------------------------------------------------------------------------
(* The decoders: a packet holds the items of the tape from p.from on *)

Msg(n, item) == [n |-> n, item |-> item]

\* MoldUdp64Decoder: consecutive numbers from the packet's own.  (No items: a heartbeat.)
MoldMessages(p) == [i \in DOMAIN p.items |-> Msg(p.from + i - 1, p.items[i])]

\* SequencedSbePacketDecoder: the same, from the number in a configured header field.
SbeMessages(p) == [i \in DOMAIN p.items |-> Msg(p.from + i - 1, p.items[i])]

\* SoupBinTcpDecoder counts sequenced packets itself; unsequenced ones have no number.
SoupMessages(p, next) ==
    LET numbered(i) == Cardinality({j \in 1 .. i : p.items[j].framed = "S"})
    IN [i \in DOMAIN p.items |->
          Msg(IF p.items[i].framed = "S" THEN next + numbered(i) - 1 ELSE 0, p.items[i])]

\* FixDecoder takes MsgSeqNum; WsJsonDecoder has no numbers.
FixMessages(p) == [i \in DOMAIN p.items |-> Msg(p.items[i].seqNum, p.items[i])]
WsMessages(p) == [i \in DOMAIN p.items |-> Msg(0, p.items[i])]

-----------------------------------------------------------------------------
(* The venue adapters: the events of a message *)

Event(type, sym, item) == [type |-> type, sym |-> sym, item |-> item]

\* NasdaqItchVenueAdapter: a trade goes by the directory's symbol for its locate code,
\* by its own only when the directory has none.
ItchTypes == [S |-> "TradingStatus", R |-> "Instrument", A |-> "AddOrder", E |-> "Execute",
              X |-> "ModifyOrder", D |-> "DeleteOrder", P |-> "Trade"]
\* A message shorter than its kind is not parsed.
ItchParsed(item) == item.whole /\ item.code \in DOMAIN ItchTypes
SymbolFor(e, item) == IF e.known[item.locate] # "" THEN e.known[item.locate] ELSE item.stock
ItchEvents(e, item) ==
    IF ItchParsed(item) THEN <<Event(ItchTypes[item.code], SymbolFor(e, item), item)>> ELSE <<>>
\* Variant: the first symbol of a locate code stays.
LearnedOnce(e, item) ==
    IF ItchParsed(item) /\ item.code = "R" /\ e.known[item.locate] = "" THEN [e EXCEPT !.known[item.locate] = item.stock] ELSE e

Learned(e, item) ==
    IF ItchParsed(item) /\ item.code = "R" THEN [e EXCEPT !.known[item.locate] = item.stock] ELSE e

\* CmeMdp3VenueAdapter: messages of the schema's templates, if all of their block is there.
SbeTemplates == {"Trade", "AddOrder"}
SbeDecoded(item) == item.code \in SbeTemplates /\ item.whole
SbeEvents(item) == IF SbeDecoded(item) THEN <<Event(item.code, item.stock, item)>> ELSE <<>>

\* GenericFixVenueAdapter: an event for each entry of a market data message; for an entry
\* of another kind none, which here is an event that the publisher does not take.
FixTypes == [bid |-> "Quote", offer |-> "Quote", trade |-> "Trade"]
FixEvents(item) ==
    [i \in DOMAIN item.entries |->
       Event(IF item.entries[i] \in DOMAIN FixTypes THEN FixTypes[item.entries[i]] ELSE "none",
             item.stock, item)]

\* GenericWsJsonVenueAdapter: a trade for each record that the filter lets through.
WsEvents(item) ==
    IF item.code = "match" THEN [i \in 1 .. item.records |-> Event("Trade", item.stock, item)] ELSE <<>>

EventsOf(e, item) ==
    CASE feed.protocol \in {"mold", "soup"} -> ItchEvents(e, item)
      [] feed.protocol = "sbe" -> SbeEvents(item)
      [] feed.protocol = "fix" -> FixEvents(item)
      [] feed.protocol = "wsjson" -> WsEvents(item)

-----------------------------------------------------------------------------
(* Arbitration, sequence tracking, recovery *)

\* FeedArbiter: whether a copy has passed already, as far as the window remembers.
Duplicate(e, n) == feed.redundant /\ n \in Range(e.seen)
\* Variant: one number less is remembered.
RememberedFewer(seen, n) ==
    LET all == Append(seen, n) IN IF Len(all) >= DedupWindow THEN Tail(all) ELSE all

Remembered(seen, n) ==
    LET all == Append(seen, n) IN IF Len(all) > DedupWindow THEN Tail(all) ELSE all

\* RecoveryManager::handleGap: what is asked for, if the callback is set.
Request(from, to) ==
    IF to - from < SnapshotFrom /\ "retransmit" \in feed.callbacks THEN {<<from, to>>}
    ELSE IF "snapshot" \in feed.callbacks THEN {<<1, to>>} ELSE {}

\* Variant: the gap that is told begins after the number that was expected.
TrackedAfter(e, n) ==
    IF n = 0 \/ n < e.expected THEN e
    ELSE IF n = e.expected THEN [e EXCEPT !.expected = n + 1]
    ELSE [e EXCEPT !.expected = n + 1, !.state = "RECOVERING",
                   !.told = @ \cup {<<e.expected + 1, n>>},
                   !.asked = @ \cup Request(e.expected + 1, n)]

\* SequenceTracker::onSequence: a gap moves the expectation past it; what is late then
\* looks like a duplicate.
Tracked(e, n) ==
    IF n = 0 \/ n < e.expected THEN e
    ELSE IF n = e.expected THEN [e EXCEPT !.expected = n + 1]
    ELSE [e EXCEPT !.expected = n + 1, !.state = "RECOVERING",
                   !.told = @ \cup {<<e.expected, n>>},
                   !.asked = @ \cup Request(e.expected, n)]

-----------------------------------------------------------------------------
(* The publisher *)

Connected == link # "down"

\* Variant: only a send that fails clears the batch.
SentAgain(b, encoded) ==
    LET accepted == link \in {"up", "silent"} IN
    [b EXCEPT !.batch = IF accepted THEN @ ELSE <<>>,
              !.failures = IF accepted THEN @ ELSE @ + 1,
              !.published = IF accepted THEN @ + Len(b.batch) ELSE @,
              !.tp = IF link = "up" THEN @ \o encoded ELSE @,
              !.gone = IF link = "up" THEN @ ELSE @ \o encoded]

\* KdbPublisher::flush, once the batch is encoded: whether or not the send works, the
\* batch is cleared.  Into a connection whose end has not been noticed it may work.
Sent(b, encoded) ==
    LET accepted == link \in {"up", "silent"} IN
    [b EXCEPT !.batch = <<>>,
              !.failures = IF accepted THEN @ ELSE @ + 1,
              !.published = IF accepted THEN @ + Len(b.batch) ELSE @,
              !.tp = IF link = "up" THEN @ \o encoded ELSE @,
              !.gone = IF link = "up" THEN @ ELSE @ \o encoded]

\* KdbPublisher::flush: while there is no connection the batch is kept.
BatchFlushed(b) ==
    IF b.batch = <<>> THEN b
    ELSE IF ~Connected THEN [b EXCEPT !.failures = @ + 1] ELSE Sent(b, b.batch)

\* KdbPublisher::onEvent: trades only, and a flush when the batch is full.
OnEvent(b, event) ==
    LET grown == [b EXCEPT !.batch = Append(@, event), !.taken = Append(@, event)]
    IN IF event.type # "Trade" THEN b
       ELSE IF Len(grown.batch) >= MaxBatch THEN BatchFlushed(grown) ELSE grown
OnEvents(b, events) == FoldLeft(OnEvent, b, events)

\* TrackedVenueSink::onMessage, behind the arbiter if there is one.  A duplicate by the
\* tracker goes on to the adapter like any other message.
OnMessage(s, m) ==
    IF Duplicate(s.e, m.n) THEN s
    ELSE LET seen == IF feed.redundant THEN Remembered(s.e.seen, m.n) ELSE s.e.seen
             e == [Tracked(s.e, m.n) EXCEPT !.seen = seen, !.passed = @ \o <<m.n>>]
             known == IF feed.protocol \in {"mold", "soup"} THEN Learned(e, m.item) ELSE e
         IN [e |-> known, b |-> OnEvents(s.b, EventsOf(known, m.item))]
OnMessages(msgs) == FoldLeft(OnMessage, [e |-> eng, b |-> pub], msgs)

Messages(p) ==
    CASE feed.protocol = "mold" -> MoldMessages(p)
      [] feed.protocol = "sbe" -> SbeMessages(p)
      [] feed.protocol = "soup" -> SoupMessages(p, eng.expected)
      [] feed.protocol = "fix" -> FixMessages(p)
      [] feed.protocol = "wsjson" -> WsMessages(p)

-----------------------------------------------------------------------------
(* Steps *)

FhUse(k) == fhLeft[k] > 0 /\ fhLeft' = [fhLeft EXCEPT ![k] = @ - 1]
Tape == Tapes[feed.protocol]
Packet(from, to, leg) == [from |-> from, items |-> SubSeq(Tape, from, to), leg |-> leg]
Legs == IF feed.redundant THEN {"A", "B"} ELSE {"A"}

\* The venue sends its next message or two, in a packet on each leg or on its stream.
VenueSends ==
    /\ socket = "on"
    /\ \E k \in 1 .. 2 :
          /\ tape + k <= Len(Tape)
          /\ tape' = tape + k
          /\ air' = IF Multicast THEN air \cup {Packet(tape + 1, tape + k, leg) : leg \in Legs} ELSE air
    /\ UNCHANGED <<feed, eng, pub, link, socket, flushing, fhLeft>>

\* The simulator starts over, with a session of the same numbers (main.cpp's loop).
NewRound ==
    /\ feed.protocol = "mold" /\ tape = Len(Tape) /\ air = {} /\ FhUse("rounds")
    /\ tape' = 0
    /\ UNCHANGED <<feed, air, eng, pub, link, socket, flushing>>

Lost ==
    /\ Multicast /\ FhUse("lost")
    /\ \E p \in air : air' = air \ {p}
    /\ UNCHANGED <<feed, tape, eng, pub, link, socket, flushing>>

\* What the engine makes of a packet, in the thread of the transport.
Handle(p) ==
    LET s == OnMessages(Messages(p))
    IN /\ eng' = s.e
       /\ pub' = [s.b EXCEPT !.raced = @ \/ (flushing # {} /\ s.b.taken # pub.taken)]

\* The simulators feed the engine from the thread that flushes.
MayHandle == socket = "on" /\ (feed.live \/ flushing = {})

\* UdpTransport::run: a datagram is a packet.
Delivered ==
    /\ Multicast /\ MayHandle
    /\ \E p \in air :
          /\ Handle(p)
          /\ \/ air' = air \ {p} /\ UNCHANGED fhLeft
             \/ FhUse("repeated") /\ UNCHANGED air
    /\ UNCHANGED <<feed, tape, link, socket, flushing>>

\* What a stream has completed with k pieces more: each message takes Pieces of them,
\* and what is incomplete waits in the decoder's buffer.
Pieces == 2
Completed(k) == Packet(eng.got \div Pieces + 1, (eng.got + k) \div Pieces, "A")

\* A stream comes in chunks that need not end where a message does.
Streamed ==
    /\ ~Multicast /\ MayHandle
    /\ \E k \in 1 .. 3 :
          /\ eng.got + k <= Pieces * tape
          /\ LET s == OnMessages(Messages(Completed(k)))
             IN /\ eng' = [s.e EXCEPT !.got = @ + k]
                /\ pub' = [s.b EXCEPT !.raced = @ \/ (flushing # {} /\ s.b.taken # pub.taken)]
    /\ UNCHANGED <<feed, tape, air, link, socket, flushing, fhLeft>>

\* The recovery source replays what it was asked for and reports the gap closed
\* (markRecovered).
Replayed ==
    /\ MayHandle
    /\ \E r \in eng.asked :
          LET s == OnMessages(Messages(Packet(r[1], r[2] - 1, "replay")))
          IN /\ eng' = [s.e EXCEPT !.asked = @ \ {r}, !.state = "LIVE"]
             /\ pub' = s.b
    /\ UNCHANGED <<feed, tape, air, link, socket, flushing, fhLeft>>

\* The main thread's flush encodes the batch: every second, or, where it runs the
\* simulators itself, after a round of them.
FlushBegins ==
    /\ flushing = {} /\ pub.batch # <<>>
    /\ feed.live \/ (tape = Len(Tape) /\ air = {} /\ (Multicast \/ eng.got = Pieces * tape))
    /\ IF Connected THEN flushing' = {pub.batch} /\ UNCHANGED pub
       ELSE FhUse("idle") /\ pub' = BatchFlushed(pub) /\ UNCHANGED flushing
    /\ Connected => UNCHANGED fhLeft
    /\ UNCHANGED <<feed, tape, air, eng, link, socket>>

\* ... and sends it.
FlushEnds ==
    /\ \E encoded \in flushing : pub' = Sent(pub, encoded)
    /\ flushing' = {}
    /\ UNCHANGED <<feed, tape, air, eng, link, socket, fhLeft>>

\* TcpTransport::run: connect, notice the end of a connection, connect again.
LinkUp ==
    /\ link = "down" /\ link' = "up"
    /\ UNCHANGED <<feed, tape, air, eng, pub, socket, flushing, fhLeft>>
LinkDies ==
    /\ link = "up" /\ FhUse("breaks")
    /\ link' \in {"reset", "silent"}
    /\ UNCHANGED <<feed, tape, air, eng, pub, socket, flushing>>
LinkDown ==
    /\ link \in {"reset", "silent"} /\ link' = "down"
    /\ UNCHANGED <<feed, tape, air, eng, pub, socket, flushing, fhLeft>>

\* WebSocketTransport: connect and ask for the upgrade; be answered; lose the connection.
\* A refusal is only noted: the connection stays as it is.
SocketOpens ==
    /\ feed.live /\ socket = "down" /\ socket' = "asking"
    /\ UNCHANGED <<feed, tape, air, eng, pub, link, flushing, fhLeft>>
SocketAnswered ==
    /\ socket = "asking" /\ socket' \in {"on", "refused"}
    /\ UNCHANGED <<feed, tape, air, eng, pub, link, flushing, fhLeft>>
SocketCloses ==
    /\ feed.live /\ socket # "down" /\ FhUse("breaks")
    /\ socket' = "down" /\ eng' = [eng EXCEPT !.got = Pieces * tape]
    /\ UNCHANGED <<feed, tape, air, pub, link, flushing>>

Locates == UNION {{Tapes[f][i].locate : i \in DOMAIN Tapes[f]} : f \in {"mold", "soup"}}
\* main.cpp: a live feed is connecting, a simulated one is live from the start.
StartState == IF feed.live THEN "CONNECTING" ELSE "LIVE"
FhStart(config, budget) ==
    /\ feed = config /\ fhLeft = budget
    /\ tape = 0 /\ air = {} /\ flushing = {} /\ link = "down"
    /\ socket = IF config.live THEN "down" ELSE "on"
    /\ eng = [expected |-> 1, state |-> StartState,
              got |-> 0, told |-> {}, asked |-> {}, seen |-> <<>>, passed |-> <<>>,
              known |-> [l \in Locates |-> ""]]
    /\ pub = [batch |-> <<>>, failures |-> 0, published |-> 0,
              tp |-> <<>>, gone |-> <<>>, taken |-> <<>>, raced |-> FALSE]

FhNext ==
    \/ VenueSends \/ NewRound \/ Lost \/ Delivered \/ Streamed \/ Replayed
    \/ FlushBegins \/ FlushEnds \/ LinkUp \/ LinkDies \/ LinkDown
    \/ SocketOpens \/ SocketAnswered \/ SocketCloses

FhSpec == (\E c \in FhCases : FhStart(c[1], c[2])) /\ [][FhNext]_fhVars

-----------------------------------------------------------------------------
(* Properties *)

\* No gap is swallowed and none is told twice: a number below the expected one has been
\* passed on or lies in exactly one range the recovery manager was told of
\* (SequenceTracker::onSequence, GapDetector), however packets are lost and reordered.
GapsAreTold ==
    /\ \A n \in 1 .. eng.expected - 1 :
          n \in Range(eng.passed) \/ \E g \in eng.told : g[1] <= n /\ n < g[2]
    /\ \A g, h \in eng.told : g # h => g[2] <= h[1] \/ h[2] <= g[1]
    /\ \A r \in eng.asked : \E g \in eng.told : r[2] = g[2]

\* Behind the arbiter a number passes again only when at least DedupWindow others have
\* passed since: the window bounds what is remembered (FeedArbiter::onMessage).
OncePerWindow ==
    feed.redundant =>
        \A i, j \in DOMAIN eng.passed :
            i < j /\ eng.passed[i] = eng.passed[j] => j - i > DedupWindow

\* What reaches the venue's adapter has no gap that went untold and no repetition that
\* the window remembers.
SequenceIsKept == GapsAreTold /\ OncePerWindow

Count(seq, x) == Cardinality({i \in DOMAIN seq : seq[i] = x})

\* Every trade the venue's messages held is with the tickerplant, in the batch, or in a
\* connection that broke, as often as it was decoded; the publisher's count is what was
\* sent, and a send that failed is counted.  Only a flush that overlaps with the
\* transport's thread is exempt: both work on the batch without a lock.
TradesAccounted ==
    ~pub.raced =>
        /\ \A x \in Range(pub.taken \o pub.tp \o pub.gone \o pub.batch) :
              Count(pub.taken, x) = Count(pub.tp, x) + Count(pub.gone, x) + Count(pub.batch, x)
        /\ Len(pub.tp) <= pub.published /\ pub.published <= Len(pub.tp) + Len(pub.gone)
        /\ pub.published < Len(pub.tp) + Len(pub.gone) => pub.failures > 0

InSequence == \A i \in DOMAIN eng.passed \ {1} : eng.passed[i] = eng.passed[i - 1] + 1

\* A trade goes by its own symbol, unless a directory message that reassigned its locate
\* code was lost, late or repeated (NasdaqItchVenueAdapter::symbolFor).  A stream yields
\* its messages whole and once, however it is cut into chunks.
TradesAreTheirs ==
    /\ InSequence => \A i \in DOMAIN pub.taken : pub.taken[i].sym = pub.taken[i].item.stock
    /\ ~Multicast /\ ~feed.live => Len(eng.passed) = eng.got \div Pieces

\* Every trade of the venue goes once, and under its own symbol, to the tickerplant, the
\* batch or a broken connection.
TradesArrive == TradesAccounted /\ TradesAreTheirs
=============================================================================
