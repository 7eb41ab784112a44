----------------------------- MODULE MCServices -----------------------------
\* The facilities around the tick shard, for TLC.  They share no state, so a behaviour is of
\* one of them, the focus, and the others rest in a state of their start.
EXTENDS FeedHandler, PyFeeds, Provisioning, CloudRuns, QueryWorkspace, Exports, Webhook, Identity, Gateway,
    Backtest, Connectors, FeedHandlerRows

CONSTANTS
    Foci,      \* the facilities to look at
    QwRows     \* of the query workspace: the rows each target has at first
VARIABLE focus

vars == <<focus, fhVars, pfVars, pvVars, crVars, qwVars, exVars, whVars, idVars, gwVars, btVars, cnVars, frVars>>

-----------------------------------------------------------------------------
(* One facility at a time *)

\* A facility starts in one of its cases if it is the focus; in any one if it is not.
Of(f, cases) == IF focus = f THEN cases ELSE {CHOOSE c \in cases : TRUE}

Init ==
    /\ focus \in Foci
    /\ \E c \in Of("feedhandler", FhCases) : FhStart(c[1], c[2])
    /\ \E c \in Of("pyfeeds", PfCases) : PfStart(c)
    /\ \E c \in Of("provisioning", PvBackends) : PvStart(c)
    /\ \E c \in Of("cloud", CrRequests) : CrStart(c)
    /\ QwStart(QwRows)
    /\ \E c \in Of("exports", ExCases) : ExStart(c)
    /\ WhInit /\ IdInit /\ GwInit
    /\ \E c \in Of("backtest", BtTapes \X BtRequests) : BtStart(c[1], c[2])
    /\ \E c \in Of("connectors", CnMade) : CnStart(c)
    /\ FrInit

Next ==
    \/ focus = "feedhandler" /\ FhNext /\ UNCHANGED <<focus, pfVars, pvVars, crVars, qwVars, exVars, whVars, idVars, gwVars, btVars, cnVars, frVars>>
    \/ focus = "pyfeeds" /\ PfNext /\ UNCHANGED <<focus, fhVars, pvVars, crVars, qwVars, exVars, whVars, idVars, gwVars, btVars, cnVars, frVars>>
    \/ focus = "provisioning" /\ PvNext /\ UNCHANGED <<focus, fhVars, pfVars, crVars, qwVars, exVars, whVars, idVars, gwVars, btVars, cnVars, frVars>>
    \/ focus = "cloud" /\ CrNext /\ UNCHANGED <<focus, fhVars, pfVars, pvVars, qwVars, exVars, whVars, idVars, gwVars, btVars, cnVars, frVars>>
    \/ focus = "query" /\ QwNext /\ UNCHANGED <<focus, fhVars, pfVars, pvVars, crVars, exVars, whVars, idVars, gwVars, btVars, cnVars, frVars>>
    \/ focus = "exports" /\ ExNext /\ UNCHANGED <<focus, fhVars, pfVars, pvVars, crVars, qwVars, whVars, idVars, gwVars, btVars, cnVars, frVars>>
    \/ focus = "webhook" /\ WhNext /\ UNCHANGED <<focus, fhVars, pfVars, pvVars, crVars, qwVars, exVars, idVars, gwVars, btVars, cnVars, frVars>>
    \/ focus = "identity" /\ IdNext /\ UNCHANGED <<focus, fhVars, pfVars, pvVars, crVars, qwVars, exVars, whVars, gwVars, btVars, cnVars, frVars>>
    \/ focus = "gateway" /\ GwNext /\ UNCHANGED <<focus, fhVars, pfVars, pvVars, crVars, qwVars, exVars, whVars, idVars, btVars, cnVars, frVars>>
    \/ focus = "backtest" /\ BtNext /\ UNCHANGED <<focus, fhVars, pfVars, pvVars, crVars, qwVars, exVars, whVars, idVars, gwVars, cnVars, frVars>>
    \/ focus = "connectors" /\ CnNext /\ UNCHANGED <<focus, fhVars, pfVars, pvVars, crVars, qwVars, exVars, whVars, idVars, gwVars, btVars, frVars>>
    \/ focus = "rows" /\ FrNext /\ UNCHANGED <<focus, fhVars, pfVars, pvVars, crVars, qwVars, exVars, whVars, idVars, gwVars, btVars, cnVars>>

Spec == Init /\ [][Next]_vars

-----------------------------------------------------------------------------
(* The feed handler: tapes of each protocol, and feeds with what befalls them *)

Itch(code, stock) == [code |-> code, locate |-> 1, stock |-> stock, whole |-> TRUE, framed |-> "S"]
Sbe(code, whole) == [code |-> code, stock |-> "X", whole |-> whole]
MCTapes == [
    mold |-> <<Itch("R", "X"), Itch("P", "X"), Itch("R", "Y"), Itch("P", "Y")>>,
    soup |-> <<Itch("P", "X"), [Itch("P", "X") EXCEPT !.framed = "U"],
               [Itch("P", "X") EXCEPT !.whole = FALSE]>>,
    sbe |-> <<Sbe("Trade", TRUE), Sbe("AddOrder", TRUE), Sbe("Trade", FALSE), Sbe("Trade", TRUE)>>,
    fix |-> <<[seqNum |-> 1, entries |-> <<"bid", "trade">>, stock |-> "X"],
              [seqNum |-> 2, entries |-> <<>>, stock |-> "X"],
              [seqNum |-> 3, entries |-> <<"trade", "trade">>, stock |-> "X"]>>,
    wsjson |-> <<[code |-> "match", records |-> 2, stock |-> "X"],
                 [code |-> "other", records |-> 1, stock |-> "X"],
                 [code |-> "match", records |-> 1, stock |-> "X"]>>]
MCFeed(protocol, live, redundant, callbacks) ==
    [protocol |-> protocol, live |-> live, redundant |-> redundant, callbacks |-> callbacks]
MCFhBudget(b) == [k \in {"lost", "repeated", "rounds", "breaks", "idle"} |->
                    IF k \in DOMAIN b THEN b[k] ELSE 0]
MCFhCases == {
    <<MCFeed("sbe", FALSE, TRUE, {}), MCFhBudget([lost |-> 2])>>,
    <<MCFeed("mold", FALSE, FALSE, {}), MCFhBudget([lost |-> 1, rounds |-> 1])>>,
    <<MCFeed("mold", FALSE, FALSE, {"retransmit", "snapshot"}), MCFhBudget([lost |-> 1, repeated |-> 1])>>,
    <<MCFeed("sbe", FALSE, FALSE, {"snapshot"}), MCFhBudget([lost |-> 1])>>,
    <<MCFeed("soup", FALSE, FALSE, {}), MCFhBudget([breaks |-> 1, idle |-> 1])>>,
    <<MCFeed("fix", FALSE, FALSE, {}), MCFhBudget([breaks |-> 1, idle |-> 1])>>,
    <<MCFeed("wsjson", TRUE, FALSE, {}), MCFhBudget([breaks |-> 2, idle |-> 1])>>}

-----------------------------------------------------------------------------
(* The Python feeds *)

MCSymbol(l) == <<l, 0>>
MCEvent(l, price, qty, taker) == [kind |-> "trade", sym |-> MCSymbol(l), price |-> price, qty |-> qty, taker |-> taker, unit |-> "K"]
MCPfFrames == {<<MCEvent(1, "number", 20, "sell")>>, <<MCEvent(5, "number", 5, "none")>>, <<MCEvent(1, "number", 20, "sell"), MCEvent(5, "number", 5, "none")>>,
               <<MCEvent(1, "number", 15, "buy"), MCEvent(1, "text", 10, "buy"), [MCEvent(5, "number", 0, "sell") EXCEPT !.kind = "bid"],
                 MCEvent(5, "lettered", 0, "sell")>>}
MCPfCase(vendor, symbols) == [vendor |-> vendor, symbols |-> symbols, asksFor |-> "some", listed |-> TRUE, configured |-> TRUE, count |-> 0]
MCBoth == <<MCSymbol(1), MCSymbol(5)>>
MCPfCases == {MCPfCase(v, MCBoth) : v \in {"finnhub", "twelvedata", "coinbase", "kraken", "binance", "binance-depth", "bybit", "okx", "alpaca", "yahoo", "ibkr", "alphavantage", "bpipe", "nyse"}}
   \cup {[MCPfCase("crims", <<>>) EXCEPT !.count = 2], [MCPfCase("polygon", MCBoth) EXCEPT !.configured = FALSE], [MCPfCase("yahoo", MCBoth) EXCEPT !.asksFor = "all"], [MCPfCase("alphavantage", MCBoth) EXCEPT !.configured = FALSE]}
MCPfBuiltin == <<MCSymbol(5)>>

-----------------------------------------------------------------------------
(* Tick houses *)

MCRanged(ranges, idb) == [policy |-> "letter-range", ranges |-> ranges, symbols |-> <<>>, idb |-> idb,
                          target |-> TRUE, components |-> {}]
MCListed(symbols) == [MCRanged(<<>>, FALSE) EXCEPT !.policy = "explicit-symbols", !.symbols = symbols]
MCPvSpecs == {MCRanged(<<<<1, 2>>, <<3, 5>>>>, TRUE), MCRanged(<<<<2, 3>>, <<1, 2>>>>, FALSE),
              MCRanged(<<<<1, 1>>>>, FALSE), [MCRanged(<<<<1, 1>>>>, FALSE) EXCEPT !.target = FALSE],
              MCListed(<<{"x"}, {"y"}, {"z"}>>), MCListed(<<{"x", "y"}, {"y"}>>), MCListed([k \in 1 .. 6 |-> {k}])}

-----------------------------------------------------------------------------
(* Cloud runs *)

MCCrRequest == [provider |-> "aws", fields |-> {"access_key_id", "secret_access_key"}, serviceAccount |-> FALSE, confirmed |-> TRUE,
   profile |-> "ha", key |-> TRUE, license |-> TRUE, inCluster |-> FALSE]
MCCrRequests == {MCCrRequest, [MCCrRequest EXCEPT !.inCluster = TRUE, !.license = FALSE],
   [MCCrRequest EXCEPT !.provider = "gcp", !.fields = {"service_account_json"}, !.serviceAccount = TRUE],
   [MCCrRequest EXCEPT !.confirmed = FALSE], [MCCrRequest EXCEPT !.provider = "azure"], [MCCrRequest EXCEPT !.key = FALSE]}

-----------------------------------------------------------------------------
(* The query workspace *)

MCText(form, sym, syms, date) == [form |-> form, sym |-> sym, syms |-> syms, date |-> date]
MCBody(targets, query, limit) == [targets |-> targets, query |-> query, limit |-> limit]
MCQwBodies == {MCBody(<<Gateway>>, MCText("select", "in", {"a", "e"}, "none"), 2),
   MCBody(<<Gateway, <<"rdb", 0>>>>, MCText("exec", "none", {}, "none"), 4),
   MCBody(<<<<"hdb", 0>>, <<"rdb", 1>>>>, MCText("select", "none", {}, "past"), 0),
   MCBody(<<Gateway>>, MCText("select", "in", {"e"}, "past"), 1),
   MCBody(<<Gateway>>, MCText("select", "not in", {"e"}, "none"), 2),
   MCBody(<<<<"rdb", 0>>>>, MCText("denied", "none", {}, "none"), 0)}
MCQwSymbols == [a |-> 1, e |-> 5]
MCRow(sym, id) == [sym |-> sym, id |-> id]
MCQwRows == [leaf \in Leaves |-> CASE leaf = <<"rdb", 0>> -> <<MCRow("a", 1), MCRow("a", 2)>>
       [] leaf = <<"hdb", 1>> -> <<MCRow("e", 1), MCRow("e", 2)>>
       [] leaf = <<"rdb", 1>> -> <<MCRow("e", 1)>>
       [] OTHER -> <<>>]

-----------------------------------------------------------------------------
(* Exports *)

MCExCases == [sink : {"parquet", "s3", "snowflake", "databricks", "fabric"}, configured : {TRUE}, runs : {<<2, 1>>, <<0, 2>>}]
   \cup {[sink |-> "adls", configured |-> FALSE, runs |-> <<1, 0>>]}

-----------------------------------------------------------------------------
(* The webhook *)

MCWhPuts == {[allowed |-> {"A"}, max |-> 3], [enabled |-> TRUE], [allowed |-> {"B"}], [max |-> 1], [enabled |-> FALSE]}
MCWhAlerts == {[symbol |-> "A", side |-> "buy", qty |-> {4}], [symbol |-> "B", side |-> "sell", qty |-> {}]}

-----------------------------------------------------------------------------
(* The gateway *)

MCGwNumbers == 1 .. 12
MCGwMortal == {<<"rdb", 0>>, <<"rdb", 1>>}

-----------------------------------------------------------------------------
(* Identity *)

MCUser(tenant, role) == [tenant |-> tenant, role |-> role, active |-> TRUE, password |-> TRUE, provider |-> "local"]
MCIdSeed == [op |-> MCUser("none", "platform_admin"), ann |-> MCUser("x", "tenant_admin"), bob |-> MCUser("x", "tenant_admin")]
MCIdDomain == [op |-> "d", ann |-> "d", bob |-> "d", cyd |-> "e"]
MCPerson(authority, names, typed, groups) ==
    [authority |-> authority, names |-> names, typed |-> typed, memberships |-> groups, readable |-> TRUE]
MCIdPeople == {MCPerson("A", <<"bob">>, {}, {"g"}), MCPerson("A", <<"cyd", "ann">>, {}, {"g", "h"}),
               MCPerson("A", <<"op">>, {}, {"h"}), MCPerson("L", <<>>, {"cyd"}, {"h"}),
               [MCPerson("L", <<"bob">>, {}, {"h"}) EXCEPT !.readable = FALSE]}
MCDir(kind, authority, domains) ==
    [kind |-> kind, authority |-> authority, domains |-> domains, enabled |-> TRUE, direct |-> TRUE,
     map |-> [g |-> "functional_user", h |-> "platform_admin"], default |-> "tenant_admin"]
MCIdConfigs == {MCDir("entra", "A", {}), MCDir("entra", "A", {"d"}), [MCDir("entra", "B", {}) EXCEPT !.enabled = FALSE],
                MCDir("ldap", "L", {})}

-----------------------------------------------------------------------------
(* The backtest: tapes of five prints *)

MCTick(time, price) == [time |-> time, price |-> price]

\* A print now and then, one or two of them at a time, and a print that came late
\* before one without a price.
MCBtTapes ==
    {[k \in 1 .. 5 |-> MCTick(t[k], p[k])] :
        t \in {<<0, 1, 2, 3, 4>>, <<0, 1, 2, 2, 3>>, <<0, 1, 2, 4, 6>>, <<1, 2, 3, 5, 6>>},
        p \in [1 .. 5 -> {90, 100, 110}]}
    \cup {<<MCTick(1, 100), MCTick(0, 90), MCTick(2, 0), MCTick(2, 110), MCTick(3, 90)>>,
          <<MCTick(1, 90), MCTick(2, 100), MCTick(3, 110), MCTick(4, 110), MCTick(5, 0)>>, <<MCTick(1, 0)>>}
MCBtRequest == [start |-> 0, end |-> 6, lookback |-> 2, step |-> 1, stop |-> 5]
MCBtRequests == {MCBtRequest, [MCBtRequest EXCEPT !.lookback = 4], [MCBtRequest EXCEPT !.step = 2],
                 [MCBtRequest EXCEPT !.stop = 15, !.lookback = 3], [MCBtRequest EXCEPT !.end = 4],
                 [MCBtRequest EXCEPT !.end = 0], [MCBtRequest EXCEPT !.stop = 0],
                 [MCBtRequest EXCEPT !.step = 0]}

-----------------------------------------------------------------------------
(* Connectors and feed handler rows *)

MCScopes == {{}, {"AAPL"}}
MCHandler(provider, enabled, config, secrets, house) ==
    [provider |-> provider, enabled |-> enabled, config |-> config, secrets |-> secrets, house |-> house]
MCHandlers == {
    MCHandler("GENERIC_FIX", TRUE, "default", {"username", "password"}, 1),
    MCHandler("GENERIC_FIX", TRUE, "own", {"username"}, 0),
    MCHandler("NYSE", FALSE, "own", {}, 1)}
=============================================================================
