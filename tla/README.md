# A verification development for the kdb+ distributed control plane

The repository has a *data plane* of kdb+/q processes that move market data
from feeds to disk and to queries, and a *control plane* around it: a FastAPI
service, a watchdog, agents on remote hosts, a C++ feed handler, a web UI. This
directory holds TLA+ modules that model its core logic, TLC configurations
that check them on small instances, and proofs that TLAPS checks.

Paths below are relative to the repository; `q/` is `data-plane/q/`.

## 1. Inventory

### One shard of the data plane

The symbols are partitioned over shards. Each shard is six single-threaded q
processes that talk over kdb+ IPC and share two directories, `dbDir` (scratch
files `<date>/<table>`) and `hdbDir` (partitions `<date>/<table>`).

| process | state | operations | talks to |
|---|---|---|---|
| tickerplant `q/tick.q` | subscribers per table `.u.w`, trading day `.u.today`, open log, strikes per handle `.u.strikes`, what waits on each handle `.z.W` | `.u.sub`, `.u.upd`, `.u.broadcastWatermark`, `.u.end`, timer (`.u.checkEod`, `.u.checkSlow`), `.z.pc` | feeds call it; it sends `.u.upd`, `.u.shedTo`, `.u.eod` to subscribers, without acknowledgement |
| write-down database `q/wdb.q` | in-memory `trade` and `risk`, times of the last flush and catch-up check | `.wdb.upd`, flush, end of day (flush, seal, watermark, notify), catch-up seal, reconnect | subscribes to the tickerplant; writes both directories; asks the tickerplant to relay watermarks; notifies hdb and idb, best effort |
| chained RDB `q/rdb.q` | `trade`, `risk`, watermark | warm start from scratch files, `.rdb.upd`, `.rdb.shedTo`, `.rdb.eod`, reconnect | subscribes to the tickerplant; reads `dbDir` at startup |
| intraday database `q/idb.q` | rows, which files are loaded | scan, eviction, `dropDate` | polls `dbDir`; told by wdb to drop a sealed date |
| historical database `q/hdb.q` | the mapped dates | reload, purge | maps `hdbDir`; told by wdb to reload |
| gateway `q/gateway.q` | cached handles to the tiers of every shard | `.gw.fetch`, `.gw.bySym`, `.gw.all` | queries rdb, idb, hdb and concatenates |

A row travels feed → tickerplant (log, publish) → write-down database's memory
→ scratch file → partition, and is served meanwhile by the chained RDB, then
the intraday, then the historical database. What is hard: three clocks that
disagree about what "the day" is (UTC date, trading date by the timer, trading
date by the end-of-day message); messages that are lost when a connection ends
and sent only once; a seal of two tables in six separate effects on the disk,
any of which a crash may follow; catch-up checks that race the end-of-day
message; a restart that reads files another process is writing. What makes the
shard correct: the end-of-day message splits the stream where the log does; a
row that is on disk stays on disk; a sealed day is whole; a tier gives a row up
only when the next one has it; everything that was missed is made up for.

### Around the shard

| component | state | hard behaviour | what makes it correct |
|---|---|---|---|
| topology `control-api/app/topology.py`, `scripts/gen_topology.py`, `helm/…/_helpers.tpl`, `feeds/topology.py`, `q/gateway.q` | none: one number, the shard count | four runtimes compute the letters of a shard each for itself, one more reads them from a file | all agree on the shard of every symbol; the services of a shard are all there and wait for nothing that is not |
| gateway `q/gateway.q`, its client `control-api/app/kdb_client.py` | cached handles; one connection under a lock | processes die and start between the calls of a request; descriptor numbers are reused | an answer's parts come from where they are shown to; a restart is forgiven at the next look |
| C++ feed handler `data-plane/feedhandler-cpp/` | sequence numbers, gaps, arbitration window, batch, links | late, repeated and missing packets; two threads on one batch; a link that breaks unnoticed | a gap is told once; a trade is sent, lost with a link or in the batch, and counted so |
| python feeds `data-plane/feeds/` | one connection per chunk of symbols, one per shard | venues and tickerplants that go away; a library that reconnects | a row is in its own shard, once; a connection that came back carries what the first did |

### The control plane

| component | state | hard behaviour | what makes it correct |
|---|---|---|---|
| watchdog `watchdog/` | restart history and cooldown per service | statuses read once per pass, restarts take time, sliding windows | a crash loop is escalated and not hammered; a recovered service is restarted again |
| fleet queue and agent `routers/fleet.py`, `fleet_agent/` | servers, commands with a status, the agent's saved identity | lost replies, an agent that dies between two steps | a command is run at most once; an agent that enrolled can come back |
| tick houses `tickhouse.py`, `routers/tickhouse.py`, `fleet_agent/provisioner.py`, `backends.py` | a house's row, its commands, the cluster | two transactions of one request; a deployment that fails half-way; a retry | a status is what became of the last command; a success is a whole cluster |
| cloud runs `cloud_provisioner.py`, `routers/cloud_provision.py` | a run's row, a background thread, the cloud account | tools and database writes that fail, restarts | what the row says is what was done; nothing is billed unconfirmed; no credential of the account stays |
| orders and positions `oms.py`, `routers/trading.py`, `risk_check.py` | orders, positions, the daily baseline in a database; the broker's own book | concurrent sessions read, match and write the same rows; brokers answer late | the position is the fold of its fills, the cash adds up, the broker's fills are booked once |
| trading bot `routers/bot.py`, `bot_scheduler.py`, `signal_engine.py` | bot positions, configuration, a scheduler's session | a fill committed before the position that goes with it; exits by hand and by schedule | the bot's book is what it traded; the risk budget holds for the whole of it |
| TradingView webhook `routers/tradingview_webhook.py` | one row per tenant | a row read before an `await` | an order obeys one row |
| query workspace `routers/query.py`, `query_service.py`, `query_router.py`, `query_cost.py` | the accounts of a tenant | federated targets that fail or are cut one by one; a budget checked before and charged after | a grid that is not marked as cut is whole; narrowing loses nothing; overdraft is bounded |
| backtests `backtest.py`, `routers/backtest.py` | none: a walk over the prints that one query fetched | a decision may use only what was known then; a window that is empty, a step of zero, an answer that was cut | its trades are those the bot would have made |
| connectors `routers/connectors.py`, `orchestrator.py`, `routers/topology.py` | a row per connector, its container | two changes that are not one transaction, in concurrent requests; operators change containers alone | the row says what runs, and with which symbols |
| feed handler rows `routers/feedhandlers.py`, `feedhandler_catalog.py` | rows that name an entry of the catalogue and a tick house | what was checked is deleted or changed before the commit; numbers are given out again | a handler that is on can run, and publishes into a house of its own tenant |
| exports `export_jobs.py`, `data-plane/export/` | jobs in memory, files, destinations | one step of several failing, a retry | no job, no sink pretends to have written |
| identity `routers/auth*.py`, `users.py`, `tenants.py`, `provisioning.py`, `sso.py`, `ldap_auth.py` | users, tenants, directories, tokens believed until they expire | rows that change between a look and a write; directories that name anybody | a user stays in its tenant; an operator is seeded, never made |

The rest (signals, licensing, audit, other catalogues, the Kubernetes orchestrator, UI,
demonstrations, deployment) keeps no state of its own or only formats it.
`PROJECT.json` lists every component with its status, and every hazard with the
line at which it bites.

## 2. Plan

The plan has been carried out; the order is that in which the modules build on each other.

| module | models | builds on |
|---|---|---|
| `ShardTypes`, `ShardDisk` | the vocabulary of a shard, the directories | — |
| `Tickerplant`, `TickerplantAlone`, `TickerplantProofs` | `tick.q` with any environment | — |
| `WriteDownDb`, `WritePath`, `WritePathProofs` | `wdb.q`; tickerplant + wdb + disk | Tickerplant, WriteDownDb |
| `ChainedRdb`, `IntradayDb`, `HistoricalDb` | `rdb.q`, `idb.q`, `hdb.q` | — |
| `TickShard`, `TickShardProofs` | a whole shard; implements `WritePath` | all of the above |
| `Watchdog`, `WatchdogProofs` | a pass over services, runbooks, flap tracking, cooldowns | — |
| `CommandLife`, `FleetCommands`, `FleetProofs` | what a command is promised; the queue, the network and the agent, which implement it | CommandLife |
| `Orders`, `Bot` | requests on orders, fills and positions; the bot that trades through them | Bot on Orders |
| `Webhook`, `Backtest` | alerts that become orders; the bot's rules replayed over history | — |
| `TradingProofs` | theorems about the last two rows | Bot, Webhook, Backtest, NumberLemmas |
| `Topology` | shard count to letters, services, dependencies | — |
| `Provisioning`, `PyFeeds`, `QueryWorkspace`, `Gateway` | tick houses to clusters; feeds; queries; handles | Topology |
| `FeedHandler`, `CloudRuns`, `Exports`, `Identity`, `Connectors`, `FeedHandlerRows` | one facility each | — |
| `ServicesProofs` | theorems about the topology, the query budget, and the facilities of the last row but the C++ feed handler (that one is in `TickerplantProofs`), `Provisioning` and `Gateway` | those modules |
| `MCServices` | all facilities of this table's last rows, one at a time | all of them |

`NumberLemmas` holds the facts about division and least elements that `ServicesProofs`,
`TickerplantProofs`, `TradingProofs` and `WritePathProofs` share. What could be added next: the Python feeds and a
query's answer as theorems; the composition of the gateway with the shards it queries.

## 3. Modules and their correspondence to the code

Each action is one handler of a q process run to its end, since q runs one
handler at a time. The exception is the write-down database: its handlers have
several effects on the disk and talk to other processes in between, so a handler
puts its remaining work into `todo`, one element per effect, in the order of the
code. Until `todo` is empty the process reads nothing else; a crash may empty it
at any point.

* **`ShardTypes`**: clock readings are ticks, `DayLen` of them in a UTC day;
  `TradingDate` is `.u.tradingDate`, the day shifted by `EodOffset` (`-eodhour`).
  A row is its table and its timestamp, and stands for the batch with that stamp.
* **`Tickerplant`**: `subs` is `.u.w`, `today` and `logDate` are `.u.today` and the
  date in the log's file name, `strikes` is `.u.strikes`. `chan[h]` is what was
  sent to `h` and not processed yet; its length stands for the bytes of `.z.W h`.
  When a connection ends, any prefix of what was on its way may still arrive
  (`Truncated`). `breaches` is a history variable: the checks in a row that found
  the present connection of a handle over the limit. The sweep is assumed
  enabled (`SLOW_SUB_CHECK_MS` above 0), so `Timer` runs both checks at each tick, in
  the code's order.
* **`TickerplantAlone`** closes it with feeds, subscribers, watermark requests, a
  forced end of day and restarts.
* **`WriteDownDb`**: `buf` is the in-memory tables, `scratch`, `sealed` and `splays`
  (`ShardDisk`) are the rows of the scratch files, the rows of the partitions and
  the partitions themselves, an empty one included. `SealSteps` is `.wdb.seal`:
  for `trade`, then for `risk`: clear the target and take over the in-memory name,
  splay (`.Q.dpft`, which may signal, whereupon the code logs and goes on),
  delete the scratch file. `WdbEod` is `.wdb.eod`, `WdbCatchUp` is
  `.wdb.catchUpSeals`, `WdbTimer` is `.z.ts` with `.wdb.checkConnection`.
* **`WritePath`** composes both, with the disk and the faults. A fault of each kind
  (`FaultKinds`) happens at most `Budget` times.
* **`ChainedRdb`, `IntradayDb`, `HistoricalDb`**: one operator per handler;
  `rdbConn` is what `.rdb.connectTp` has still to subscribe to, and `rdbFirst`, history, whether
  the process and its connection are still the first ones.
* **`TickShard`** composes everything; `Visible` is what `.gw.all` concatenates. The
  readers' faults are bounded by `ReaderBudget`.
* **`MCWritePath`, `MCTickShard`** name the budgets of the runs.

The control plane:

* **`Watchdog`**: one action is what the watchdog does between two calls of the
  orchestrator or two sleeps; `pc`, `at` and `attempt` are its place in
  `check_and_heal` and `_restart_and_verify`, `statusMap` is `status_map`. A unit of
  time is 5 seconds, the poll interval and the recovery check delay alike.
  `restarts[s]` and `cooldown[s]` are `FlapTracker`'s, kept as ages and as time left
  instead of clock readings; an age is dropped as soon as it leaves the window, where
  the code drops it when it next looks (nobody can tell the two apart).
  `fate` says of each service whether its container can be kept up. Containers crash,
  come back under their restart policy, are removed or deployed between any two
  steps. `glimpsed` (the states a container was in during the pass) and `incidents`
  (all restarts of this process within a window, the ones the tracker was made to forget
  included) are history. **`MCWatchdog`** names the tiers and fates of the runs.
* **`CommandLife`** is the promise of the fleet queue, in the words of
  `list_agent_commands`: queued, dispatched, success or failure, and one execution.
* **`FleetCommands`**: `status` and `hash` are the rows of the control plane's
  database, `pc`, `file`, `secret` and `inbox` the agent, `net` and `reply` what is
  between them. A handler is one transaction, so one step, except `enroll`, which
  reads that nobody has enrolled, spends a while on the hash of the secret and then
  writes. A heartbeat updates the agent's row first and so excludes another one
  until it commits. The agent makes one call at a time; a call that fails is given
  up, and then its request may be lost, may have been served, or may be served at
  any later time (`Abandoned`). Secrets are numbered; a file that was opened for
  writing and not written is `Torn`. `ran`, `lost` and `interrupted` are history.
  The queues of two agents have nothing in common, so there is one agent.

* **`Orders`**: `req[t]` is what the request of thread `t` has read and where it is, between
  the statements at which another session can commit; `orders`, `positions` and `baseline` are
  tables, `exchange` the broker's book. Prices are multiples of 3600 so that averages of a
  few fills are exact. `lost` (fills whose request ended in an error), `overlapped` (symbols
  where a commit wrote over what it had not read) and an order's `at` (which of the broker's
  orders its fill is) are history.
* **`Bot`**: `pass` is the scheduler's session, with what it added and deleted and has not
  committed; `view` is the trend a symbol had in the pass. `strayed` and `sold` are history:
  symbols that a concurrent close, clear or crash took apart from the book, and rows a
  manual close has sold and not deleted.
* **`MCTrading`** closes both with how often each kind of request comes.

The facilities around the shard. Each has a prefix to its names (`fh`, `pf`, `pv`, `cr`, `qw`,
`ex`, `wh`, `id`, `gw`), as they are put side by side in one module:

* **`Topology`** has no variables: `Size`, `LetterRange` (control API, generator), `Offset`
  and `HelmRange` (chart), `GatewayShardOf` (the gateway's lookup), and the services, volumes
  and dependencies of the compose file. The alphabet is a constant.
* **`FeedHandler`**: packets of a *tape* (what the venue has to say) are in the air, in any order
  for multicast; `eng` is the chain decoder–arbiter–tracker–recovery–adapter run to its end per
  packet, as the transport's thread does; `pub` the batch. The messages of a packet and the
  events of a message are folds of `OnMessage` and `OnEvent` over the state they find. A flush by the main thread has two
  steps, as it encodes and sends without a lock. A link that died is noticed at the next
  send. `TapesAssumption` says what a tape is: typed messages, and each trade is of the stock that the directory's last
  message for its locate has named.
* **`PyFeeds`**: a feed is a vendor with its symbols; frames go through that vendor's
  normalizer (`…Ticks`), rows are sent one by one to the tickerplant of their letter; library
  reconnects and restarts of a tickerplant come at any step.
* **`Gateway`**: `gwFd` is what each descriptor number is connected to, `gwConn` is `.gw.conn`.
  A request is a list of calls; between two of them processes die and start. q frees the
  numbers of ended connections only between requests. `gwCaller` is `GatewayClient`.
* **`Provisioning`**: a house's row and its requests (with both transactions, any number at a time;
  one that is left over when the house is deleted may write to the next house of its number, or
  fail), the commands in
  their order, and the cluster: what generation wrote, what runs, what helm or compose say is
  deployed. `pvReqs` is a set: status requests that read the same are one element, which may write
  more than once.
* **`CloudRuns`**: `Pipeline` is the order of the tools, one action per tool. `Given` is what a tool is
  given and may repeat: the credentials, the control plane's own `Environment`, and for helm the secrets made for
  the cluster; `SecretValues` is what the step takes out of the output before the row gets it.
* **`QueryWorkspace`**: a text is its form and its clauses on `sym` and `date`; a leaf is a tier
  of a shard, the gateway stands for the leaves a text is routed to. `qwUsed[t]` keeps the
  charges of requests that were held against the budget apart from the others'.
* **`Exports`**: an upload of a job has been sent, may replace the object (`Lands`) at any time from then on, as often as the
  SDK tries and also after it was given up, and is acknowledged or not: `JobFails` says nothing of the object. Of the
  exporter a batch, an upload or a close that raises may have had its effect or not (`Attempted`,
  `CloseFails`), and a sink that is configured may still fail to open (`OpenFails`).
* **`Webhook`**, **`Identity`**: as their head comments say; an alert is read, awaited,
  and then sent in one piece, since the event loop is its own.
* **`Backtest`**: a tape of prints, the query that fetches them, and `run_backtest`, one decision
  point per step. A point's trend is that of the prints in its window that have a price (up, down or flat, by the
  bars of `BtBarLen`; a null arrives as NaN, which passes the fetch and which the forecast leaves out); profit, win rate and drawdown are left out.
* **`Connectors`**: `cnRow` is the rows of one tenant, `cnBox` the containers, `cnReq[t]` where
  the request of a thread is between the row's commit and the calls to Docker.
* **`FeedHandlerRows`**: `frRows` and `frHouses` are the tables, `frReq[t]` what a request has looked up
  and is about to commit. The catalogue is an entry of each kind. The database is SQLite, which
  checks no reference and gives the highest number out again once its row is deleted
  (`frReused`, history). A request writes the columns that differ from what it read, and the secrets
  whenever it was given some (`Writes`), since their ciphertext is always new. A handler that comes
  with its house is checked against the session's row of it, which may have been deleted by then.
* **`MCServices`** gives every facility its instance. They share no variable, so a
  behaviour is of one, the `focus`, chosen at the start, while the others rest: the states are
  the sum, not the product, of theirs.

An operator called *Variant* in its comment is a plausible mistake in the
operator that follows it; no specification uses it. Each property is known to
fail when its variant takes that operator's place.

## 4. What is checked

| run | instance | shows |
|---|---|---|
| `tickerplant` | one handle, days of 2 ticks that end 1 tick after midnight, 5 ticks, 2 rows, restarts | `StreamMirrorsLog` (a row is logged before it is published, the end-of-day message splits the stream as the log does, days close in order); `NoSlowSubscriberKept`, `DropsOnlyTheSlow`; `PlantKeepsUp` (a closed day is announced, a slow subscriber is shed) |
| `write_day` | two days and the start of a third, 2 rows, at most one forced end of day, no catch-up check before the clock stops | `SealedDaysAreWhole` (every row of the day, both tables, no row in scratch and partition at once but within a seal), `DurableForGood` |
| `write_faults` | two days, 1 row, one crash of each process, one lost connection, one splay that signals, catch-up checks | `SealsOnlyClosedDays`, `RetiredOnlyIntoHdb`, `BacklogDrains` |
| `shard_handover` | two days, 2 rows, idb and hdb that may each crash | `HandedOverToHdb`, `ImplementsWritePath`, `DurableBecomesVisible` |
| `shard_rdb` | one boundary, 1 row, a crash and a lost connection of the RDB | `RdbHoldsTheDay` (no row twice, none of a day whose end was handled); `RdbKeepsUp` (it subscribes again, and its window moves on) |
| `watchdog` | a tickerplant, a process that needs it and the gateway; one of the first two may be beyond repair; 2 faults | `NoHammering`, `OnlyTheDownAreStarted`, `RootCauseFirst`; `WatchdogKeepsUp` (everything that can be kept up recovers, crash loops are escalated) |
| `fleet` | three commands, two to a heartbeat, 3 faults | `NothingVanishes`, `OnlyEnrolmentLocksOut`, `ImplementsCommandLife`, `EveryCommandIsReported` |
| `trading` | two client threads and the scheduler, two symbols, two prices and quantities, nine cases of settings and requests | `BooksBalance`, `BrokerTruth`, `BotBooks`, `OpensWithinBudget` |
| `services` | each facility in the cases `MCServices` names | `SequenceIsKept`, `TradesArrive` (feed handler), `FeedsDeliver`, `GatewayAnswers`, `ProvisioningIsHonest`, `CloudRunsTell`, `QueryAnswers`, `BudgetHolds`, `ExportsTell`, `WebhookObeys`, `IdentityHolds`, `BacktestIsTheBots`, `ConnectorsTell`, `HandlerRowsAreSound` |
| `finding_boundary_rows`, `finding_catch_up_race`, `finding_mass_crash_loop` | no fault at all | violations, section 6 |

Several of these are conjunctions of parts that are stated, each with its comment, just
before them; `SealedDaysAreWhole` includes the write path's type invariant. Each property,
and most parts of one, is known to fail when a variant takes the place of the operator that it
depends on.

**Bounds.** `MaxTime`, `MaxRows`, `MaxChan`/`MaxQueue` and the budgets are the only
bounds; all of them are guards of the environment (clock, feeds, faults), never
of a handler. A day of two ticks has a row in it that is old enough to be flushed
and one that is not, and two tables and two dates give every combination of
a scratch file that exists and one that does not. With `FlushIntv = 0` and
`RetentionArg = 1` the flush cutoff and the watermark differ, so that rows are in a
scratch file and in the RDB at once. Two rows make a file that grows after it was
read. One fault of each kind, at any point, covers what two independent mistakes
can do; the effect of more is what the theorems are for. In runs with `Lingers` the
clock does not advance beyond `MaxTime` but time goes on within its last tick, so
that the timers keep coming: otherwise the bound, and not the code, would stop
them. Deadlock is not checked in the runs of the shard: one ends when the clock and
the budgets are used up and every queue is empty. It is checked in `watchdog` and
`fleet`, whose loops never end.

In `watchdog` the window of 6 units holds `FlapThreshold` restarts with all their
attempts (2 restarts of 2 units and the polls between them): in a shorter one no crash
loop could be told from single failures, which is what `finding_mass_crash_loop`
shows of the real numbers. The cooldown of 7 is the shortest that
`FlapCooldown > FlapWindow` allows, as 300 s is longer than 120 s. Two faults are a
crash and a call that fails or a restart of the watchdog on top of it. In `fleet`
three commands are more than a batch, so that the limit leaves one behind, and three
faults are a call that is given up, another one while the first is still on its way,
and a crash.

`trading` gives each kind of request a budget, chosen per case so that the interleavings that
matter occur: two requests on one symbol with a crash or midnight between their reads and
writes, two passes of the bot with a close by hand or a change of configuration within
them, the limits with two orders that use them up. The settings are those at which the
code takes different branches. The two clients are symmetric. In `services`, an alphabet of
5 letters over 2 shards has shards of unequal size, like 26 over most counts; two threads are
enough for one request to overtake another; the limits `MaxBatch`, `DedupWindow`, `PfBatch`,
`QwMaxRows` are small enough to be reached and passed; every vendor of the Python feeds and
every protocol of the feed handler is a case. `GwNumbers` has a number for each process and
two callers, so that it never ends. Two events of the gateway are a process that dies and
comes back, or two that die and whose numbers are exchanged. A backtest walks over every
tape of five prints at three prices and four patterns of times, which have two prints at once, gaps of
more than a step, and a start after the window's; the requests differ in each parameter at which
the code branches. Of the connectors one reads its symbols and one does not; two threads, four requests
and one failure are enough to come between a look and a write. Two failures of an export are one in a
run and one in the next, or an upload that raised and another job's. The handler rows have two tenants, so
that a house of the other one can be named. Deadlock is not
checked there or in `trading`: budgets run out.

**Fairness.** Weak fairness on the clock, on every timer (q runs `.z.ts` at each
period while the process lives), on reading a connection, on each step of a
running handler, and on the start of a dead process (`restart: unless-stopped` in
`docker-compose.yml`). Strong fairness on a timer tick of the write-down database that
reconnects: its backoff is at most 32 seconds (`q/wdb.q:285`), so among the ticks there is
always another that tries. Nothing is assumed about feeds, faults, operators,
or about when a message arrives relative to a timer. `Watchdog` assumes that its
loop goes on: every sleep ends and every call returns or raises (`main` catches
everything). `FleetCommands` assumes that the agent goes on and is started again when
it is down (`fleet_agent/README.md:54` deploys it in a cluster, which does that), and that a call which does not fail is
answered; nothing of requests that were given up.

**Preconditions.** In `RdbHoldsTheDay` the second part is asserted while no fault has hit the readers: a
lost connection may lose the end-of-day message, and an RDB restarted between
midnight and the end-of-day message loads rows of the closing day that stay
until the next watermark (`RdbKeepsUp` says that they do go). `SealedDaysAreWhole`
speaks of rows that were logged on the day they are stamped with; for the others
see section 6. `SealsOnlyClosedDays` exempts a day that an operator ended early.
`RetiredOnlyIntoHdb` exempts a date whose splay signalled. `BooksBalance` exempts a symbol
from when a session commits what it computed from rows that another has written since:
the code has no lock and no version there. `BotBooks` exempts a symbol that such a thing, a
clear or a crash took from the bot's book. `TradesAccounted` exempts a publisher after two
threads have worked on the batch at once, which is undefined behaviour. `HouseTellsItsCommand`
exempts a status request that overlaps a provision request, and a house whose number another had while
requests for it were pending; `RanIsDeployed` the retry that finds nothing to do; `SinksTell` asks of Databricks only
that each part is there; `AdminsRemain` an administrator
whose rows another request changes meanwhile. `GatewayAnswers` asks less once a number was given
away while it was cached. Each exemption is stated in its property and listed in section 6;
none of them holds from the start. Some leave out the very case of the hazard that names the property, because the
code does go wrong there: two overlapping fills (`BooksBalance`), two administrators who remove each other
(`AdminsRemain`), the retry after a failed start (`RanIsDeployed`), a house's number that is given out again
(`HandlerRowsAreSound`). What is shown is then that nothing beside that case goes wrong. The retention of
the historical database is 0 in the runs.

## 5. What is proved

`TickerplantProofs`, for every set of handles, every `MaxSubBytes`, every number of
strikes, every day length and offset, and every bound:

* `TypeCorrect`: `Spec => []TypeOK`. Beyond the types: the open log is always that of
  `.u.today`, and neither `strikes` nor `breaches` exceeds `SlowStrikes`.
* `StrikesOfConnection`: `Spec => []StrikesAreOfThisConnection`.
* `PlantIsProtected`: `Spec => []NoSlowSubscriberKept`.
* `OnlyTheSlowAreDropped`: `Spec => DropsOnlyTheSlow`.
* `LogIsWhatWasSent`: `Spec => []StreamMirrorsLog`.

The second is about the handle numbers that q reuses, on which the third and the fourth depend.
The first four rest on one inductive invariant, `SlowInv`: the type invariant, the
equality of strikes and breaches of a subscribed handle, and that both are below
`SlowStrikes`. The type invariant alone is not inductive: that a strike count stays
bounded needs that a handle which reaches the limit is dropped in the same sweep.
`SweepSlowInv` is the heart of it: one sweep over arbitrary queues keeps the
invariant. `StepSlowInv` goes through the actions. `LogIsWhatWasSent` needs another one, `MirrorInv`:
each queue mirrors the log, which the next row or end of day keeps only because the day in
progress has not ended in that queue (`UpToDay`). A restart may take `.u.today` back and so
breaks the second part for a queue whose connection has ended, which is why it is said of subscribers
only; that what is left of such a queue still mirrors the log is `PrefixMirrors`. The assumptions are those of
`ShardTypes` and `Tickerplant` on the constants (a day has at least one tick, the offset
is within it, at least one strike) and `BoundsAssumption`.

`TickerplantProofs` also holds the C++ feed handler's two invariants, for every tape, every
window of the arbiter and of the tracker, every threshold, batch size and bound:

* `SequencesAreKept`: `FhSpec => []SequenceIsKept`. A number below the expected one has been passed on
  or lies in exactly one gap that was told of, and behind the arbiter a number passes again only when
  the window has forgotten it. The property is not inductive: `ToldOnce` adds that every gap told of ended at or before
  the expected number, so that the next one cannot overlap it, and `Windowed` that what the arbiter remembers is the
  end of what it let through, at its full length or complete, which is why a number it does
  not remember is new or a window away (`ArbiterRemembers`).
* `TradesDoArrive`: `FhSpec => []TradesArrive`. As long as no flush overlapped the transport's
  thread (`raced`), every trade is as often with the tickerplant, in a broken connection and in the
  batch together as it was decoded (`Held`), and what a flush has begun to send is the batch, which is why it may
  be emptied afterwards. `Own` says that a trade goes by its stock's symbol. While nothing has been lost or repeated
  (`Ordered`), the directory has for each locate what the tape up to this place (`Place`) last
  gave it (`Names`), which is what the tape's trades mean (`SymbolIsOwn`).

A packet is a sequence of messages of any length. What holds before each message holds after it
(`MessageKeeps`), and `OnMessageFolds` and `OnEventFolds` unroll the folds by one element, so that
the least prefix at which the invariant failed would have a predecessor (`PacketKeeps`): an induction that needs
only that a set of numbers has a least element. `FhInv` lifts it to the packets in the air, which hold
the tape's messages at their numbers, and to the flushes. The assumptions are `FhAssumption` and `TapesAssumption`.

`WritePathProofs`, for every length of a day, every offset, interval and queue bound, every
number of rows and every number of faults of each kind:

* `PathTypeCorrect`: `PathSpec => []PathTypeOK`.
* `OnlyClosedDaysAreSealed`: `PathSpec => []SealsOnlyClosedDays`. The files on the disk say
  nothing about the next seal, which comes from a message sent earlier, or from a plan that a
  handler has begun. `SealInv` therefore says it of all of them: every end of day in a queue, every
  step planned (`DueMessage`, `DueStep`) and every partition is of a day in `ClosedDates`,
  a set that only grows, since the clock does not go back and the budget of early ends of day
  is only used up (`DueStays`). The two sources are `.u.checkEod`, which announces the day
  that was current before the date rolled (`AfterEodDue`), and the catch-up, which takes the
  oldest date left behind from those before the trading date (`OldestLeftBehind`: it exists because
  a nonempty set of natural numbers has a least member, `LeastNat`).
* `RetiredIntoHdb`: `PathSpec => RetiredOnlyIntoHdb`. `RetireInv` says that in every plan a
  deletion comes right after the splay of the same file, and that a plan that begins with a
  deletion finds its partition complete. It is kept because the process does nothing between
  the two steps, and because a crash discards the plan. Without the proviso on a `.Q.dpft`
  that signals the theorem would be false: the code deletes the file all the same.
* `DaysAreWhole`: `PathSpec /\ [][Undisturbed]_pathVars => []SealedDaysAreWhole`, and `NothingIsLost`,
  the same for `DurableForGood`. `Undisturbed` is what the run `write_day` gets from its budgets and
  intervals: the write-down database stays subscribed (which no crash, cut or drop of
  a slow subscriber leaves true), no `.Q.dpft` signals, and a catch-up check finds nothing
  left behind. Each of the three is needed: section 6 tells what happens without it. An early end of a day,
  rows of any age and a queue of any length are allowed. `DayInv` reads the rest of the plan as a
  position in the end of one day (`StepLeft`, `PlanInv`) and says by that position where every row is: on its way,
  in memory, in a scratch file, in a partition, or for one step in both (`Kept`, `Held`). That a day
  finds all its rows there is a matter of the queue: days are announced in order (`EodsInv`), no end of
  an earlier day comes behind a row (`Arrived`), and the end of its own day never passes it (`EndsAfter`).
  `PlanMoves` reduces the sixteen actions of `WritePath` to a dozen moves (`DayMove`), and one lemma for each
  move and each part of `DayInv` does the rest.

`TickShardProofs`, for the same constants and every set of readers:

* `ShardSealsOnlyClosedDays`: `Spec => []SealsOnlyClosedDays`, by `ShardInv`, which adds to
  `SealInv` that a chained RDB is up only where there is one (`ReadersInv`).
* `WritePathUndisturbed`: `Spec => ImplementsWritePath`, if `HdbRetention = 0`. Every step of
  the tickerplant and of the write-down database is the same step of `WritePath` once the queue of
  the chained RDB is left out (`SeenTpStep`, `SeenWriteStep`); a step of the RDB changes that
  queue only (`OtherConnection`), one of the IDB or the HDB nothing (`ReaderDisk`). The sweep
  of slow subscribers is where this could fail, since it goes over all of them at once
  (`SeenTimer`). A purge does remove partitions, which nothing in `WritePath` does: hence the
  assumption.

* `RdbIsOfTheDay`: `Spec => []RdbHoldsTheDay`. A row is fresh if neither the RDB nor a later message of
  its queue has it (`Fresh`), and a row of an earlier day is leaving if an end of day that
  will take it is still in the queue (`Leaving`). `RdbInv` says that all are, as long as the process
  and its connection are the first ones; otherwise only that no row comes twice. What the write-down database
  and the tickerplant do is summarised once (`PathMoves`, `TpMove`), so that each step of
  the RDB is set against a handful of ways in which its queue can grow.
* `HandedOver`: `Spec /\ [][Unhurried]_vars => HandedOverToHdb`, if `HdbRetention = 0`. `Unhurried` is
  `Undisturbed` and that the IDB's poll finds no date old enough to be evicted: `.idb.evictOld` looks at the
  date alone and would give up rows that are still waiting to be sealed. The readers may crash and start at any time.
  `HandInv` places every row that the IDB serves: it is in a scratch file, or in a partition
  of the day whose end is being handled, until the drop. Three facts carry it. Once a table's scratch file is
  retired no other of that date takes its place (`NoFileBehind`), so that a poll that replaces the rows of the open
  date finds them all again (`PollHands`). Clearing a partition removes nothing, since nothing
  has come into it (`NothingCleared`). And the HDB is told before the IDB (`ReloadHands`,
  `DropHands`); between the two notifications an HDB that starts or polls maps the day by itself (`ReaderHands`).

`WatchdogProofs`, for every number of shards, every order of tiers, every window, threshold
and number of attempts, whatever the containers do, and every number of faults:

* `HammeringBounded`: `Spec => []NoHammering`. The tracker forgets the restarts of a service
  when a cooldown ends, so that its list alone bounds nothing. `FlapInv` says that the list
  is nevertheless all that happened within the window (`incidents = restarts`), and
  that during a cooldown the age of each restart and the time left add up to at least the
  whole cooldown. What is wiped at its end has then left the window already
  (`WipeIsIdle`), because a cooldown is longer than the window (`FlapAssumption`); with a
  shorter one the theorem is false.
* `OnlyTheDown`, `TickerplantFirst`: `Spec => []OnlyTheDownAreStarted` and
  `Spec => []RootCauseFirst`. The statuses a pass acts on may be stale by the time it acts;
  `PassInv` says that each was true at some moment of this pass, and that a service being
  restarted was found down with its tickerplant up.
* `TypeCorrect`: `Spec => []TypeOK`, with the bound on cooldowns (`CooldownsBounded`).

`FleetProofs`, for every set of commands, every batch limit and every number of faults:

* `TypeCorrect`: `Spec => []TypeOK`, where `TypeOK` includes that the agent waits for one
  call at most. `CallInv` adds which call (`CallShape`): a request or an answer the agent
  waits for is one of the call its `pc` makes. Without it, a late answer could be
  taken for another one. `AnswerEnds`, `CallStarts` and `FailureEnds` are the three ways
  in which the present call changes.
* `CommandLifeImplemented`: `Spec => ImplementsCommandLife`, and `CommandsAreKept`:
  `Spec => []NothingVanishes`. `CommandInv` says where a command may be: in a batch or in
  the inbox if it has not run, in one report on its way, late or not, if it has, and
  nowhere twice. `StepRefines` maps each step to a step of `CommandLife` or to none.
* `RestartsAreAccepted`: `Spec => []OnlyEnrolmentLocksOut`. `SecretKept` follows the secret
  that the server expects: into the answer, the agent's memory, its file. It holds as long
  as no failure has hit an enrolment, since then there is one enrolment at most.

`TradingProofs`, for every number of threads, whatever the settings, requests, prices and quantities:

* `OrdersObeyOneRow`: `WhSpec => []WebhookObeys`. The row is read once, before the body is awaited, and
  may be changed or rotated meanwhile. `WebhookInv` keeps with each alert the rows that there have been since it came
  (`since`), of which the one it read is one, so that what is checked one after the other
  (token, symbol, quantity) is a property of one row. It also keeps that an alert is in one thread or is an
  order, once (`ComesOnce`).
* `BacktestsAreTheBots`: `BtSpec => []BacktestIsTheBots`. `BtInv` says of the position that is held, and
  of each trade, that every decision point since its entry would have kept it (`HeldOk`, `TradeOk`), and of each point
  at which the bot would enter that a trade or the position covers it. It is kept because what is known at a
  point does not change as the walk goes on (`SameWindow`).
* `BrokersFillsAreBooked`: `TradingSpec => []BrokerTruth`, where `TradingSpec` is the run's specification
  without its budgets. Every order that the broker has accepted is in exactly one place: with a
  thread, lost, or booked. `BrokerInv` (`EachOnce`) says so as a bijection between the broker's book, the
  requests and the rows (history `at`), which the three ways to end a request (a fill that is committed, an
  error, a crash) keep.
* `BotsBooksAreKept`: `TradingSpec => []BotBooks`. `BotInv` rests on `BrokerInv` and says how the three places that
  know of a position belong together: the table `held`, the session of the pass (`PassRows`: what it has bought is not
  in the table yet, what it has sold is in the set of sold ids), and a request that closes one by hand (`AskOk`,
  `ClientOk`). `SchedulerOk` ties the bot's order to the symbol at which the pass stands. `Bought` is the sum: fills of the
  bot's orders are the lots it watches, and a fill that is committed while its position is not
  (`Unbooked`). `BotBooks` alone is not inductive, because it says nothing of the moment between the two commits.
* `BudgetIsKept`: `TradingSpec => OpensWithinBudget`. `BudgetInv` says, on the paper router, that what the pass is about to buy
  fits: the risk of its working copy and of the order, at the price that it was sized at, stay below the cap, until the position is
  committed. That only deletions happen to the table meanwhile (`BudgetStays`) makes the working copy the larger of the two.

Both add over sets of any size with a fold. `SumExists`, `SumOrder` and `SumUnique` say what such a sum is: it
exists, does not depend on the order, and a member adds its value. They are proved by taking the least
cardinality at which they would fail (`LeastNat`), since the library's induction on finite sets needs an operator. `RiskGrows`,
`LotsOfOne` and `NetGrows` are what the proofs cite.

`ServicesProofs`. Of the topology, for every alphabet and every shard count up to its size:

* `HelmRangesPartition`: the letter ranges of the chart are not empty, pairwise disjoint and
  cover the alphabet. `RangesAdjoin` says that one range begins where the last one ends, from
  which they ascend (`RangesAscend`) and are disjoint (`RangesDisjoint`); that they cover
  needs the shard of a given letter, found by division, by two cases: below and above the
  last shard with one letter more (`RangesCover`).
* `FourRoutersAgree`: `RoutersAgree(n)`. The generator and the feeds add up the sizes of the
  shards before (`Before`, a recursive function), the chart multiplies. The chart's offsets
  satisfy the generator's recurrence (`OffsetRecurs`), so the recurrence has a solution and
  `Before` is one (`BeforeRecurs`); an index at which the two differ would have a least one
  (`LeastNat`), where one step of the recurrence refutes it (`BeforeIsOffset`). The gateway's
  first owner and the feeds' chosen owner are then the same shard because there is only one,
  and shard 0 for a symbol without a letter because there is none.

Of the query workspace, for every set of threads, tenants, queries, every budget and cost:

* `BudgetIsHeld`: `QwSpec(rows) => []BudgetHolds`. The property counts what the requests in
  flight may still cost, which makes it inductive (`BudgetInv` adds the types it needs).
  The step that matters is a request that passes the check (`AskKeeps`): it adds one to the
  requests in flight, of which there were fewer than threads, while what was charged is below
  the budget. A request that ends (`FinishKeeps`) turns what it might cost into what it did.

Of the rows that requests read and write in threads of their own, for every number of them:

* `IdentityIsKept`: `IdSpec => []IdentityHolds`. `IdInv` says of a request what it must not have
  read wrongly: what it is about to insert is of a tenant that there is or that it makes, what it
  is about to change is no tenant and no operator's role (`AskedOk`). That a tenant keeps an
  administrator is said of the updates that nothing came beside (`alone`): those still find, when they commit,
  what they were allowed on (`Unchanged`, `AnAdminRemains`). No map of groups and no
  default makes an operator (`NeverAnOperator`).
* `HandlerRowsStaySound`: `FrSpec => []HandlerRowsAreSound`. `FrInv` says of a request between its
  check and its commit that the row it read is of the entry and the tenant that is still stored
  (`UpdateOk`): nothing changes those, so what it checked cannot go stale, as the house it names can, which
  is why the property only says that the house was the tenant's once.
* `ConnectorsAreTold`: `CnSpec => []ConnectorsTell`. For each connector, `Steady` says that without a
  request the row and the container agree, `CleanOk` what a request that nothing has crossed
  will find and leave, and `Applied` which symbols the containers and the requests have
  once an answer has said that they are live. The lemmas `OthersKept`, `AstrayKeeps` and `OwnRequest` are the three
  ways in which a step can touch a connector.

Of what is told when a step fails:

* `ExportsAreTold`: `ExSpec => []ExportsTell`, for all jobs and runs of any number of batches.
  `ExInv` relates the batches read so far to the buffer, the file and the destination of
  each sink (`FirstBatches`), and a job's stage to whether its upload was sent and has landed. It
  assumes nothing of a failure: the object may be a failed job's, but it is always a whole file, and a
  success has been acknowledged.
* `CloudRunsAreTold`: `CrSpec => []CloudRunsTell`. `CrInv` says of each place in the pipeline what
  has been said (`SaidSoFar`) and what has been done (`DoneSoFar`) when the thread is there, and where it
  may have failed (`FailedAt`). It is kept because the row is written before, and not after, the tool
  that makes something is run. What stays of a step's output (`StepLogs`) is what it was given and did not take
  out: of the control plane's environment only, at most.
* `HousesAreToldOf`: `ProvisioningSpec => []ProvisioningIsHonest`, for every alphabet and every
  number of shards. `PvInv` has a part for the commands, for the row of the house (its status is the outcome of one
  of its commands, of the last unless a status request met a provision request or a request for an
  earlier house of the number was still pending), for the requests between their two
  transactions, and for the cluster. That a cluster which came up is whole rests on the compose file: what
  it contains (`ComposeParts`, `ComposeRows`, `ComposeProfiles`), that everything without
  a profile is started (`UpStarts`), and that nothing waits for what is not in it (`UpIsWhole`).
  `Overlapping` says that some two ranges meet, where the code sorts them and compares neighbours.

Of the gateway, for every alphabet, every number of shards and any number of events:

* `GatewayTellsWhatIsThere`: `GwSpec => []GatewayAnswers`, by `GwInv`. Which number belongs to whom is `GwLinks`: a number
  that is connected to a process is the one that is cached for it, and while no number was given away that was still cached,
  what is behind a cached number is its process or nothing. There is always a number for the next connection
  (`SomeNumberIsFree`, by the pigeonhole principle): a number in use is cached, or is the
  control API's or a guest's, and of those there is one each. That a process which was up through two passes is
  reported up rests on `GwFresh`: the pass that counts a process for the first time asks for it (`GwUnasked`, until it has),
  and the answer, whether it succeeded or failed, leaves a handle that is good or none. That
  the passes ask for every process is said by `AskedCalls`, over the sequences that requests are made of: what is
  true of all parts of a concatenation and kept by joining two is true of it (`FlattenIn`, `FlattenHas`). For rows, `GwQuery`
  says that a request's handle is the cached one, or none for a process that was down when it was opened; for the control API,
  `GwCall` that a call has seen as many failures as it has used tries, one more while its
  connection is gone and it has not noticed.

The assumptions are those stated with the constants of each module. They say of what shape a
request, a body or a row of the seed is (`IdentityAssumption`, `WebhookAssumption`,
`ProvisioningAssumption`, `CloudRunsAssumption`, `TapesAssumption`, `BacktestAssumption`, ...), as the code's schemas do, and
that counts are natural numbers. `BotAssumption` says that the symbols are finitely many, and that there is a largest risk
budget, as there is a largest `float`. `GatewayAssumption` gives the handles as many numbers as there are processes and two
more; that a process may always open another, as `hopen` can, is then not assumed but proved (`SomeNumberIsFree`).

**What only TLC checks.** Liveness, since fairness and `ENABLED` are beyond the prover: `PlantKeepsUp`,
`BacklogDrains`, `DurableBecomesVisible`, `RdbKeepsUp`, `WatchdogKeepsUp`, `EveryCommandIsReported`.
`BooksBalance` says what each fill in a sequence of them has done to cash and average, with divisions that round: it needs
the order of the fills, which the lemmas about sums over sets do not have; it has no theorem.
`FeedsDeliver` counts rows over queues and tickerplants, and `QueryAnswers` rests on the concatenation
of the answers of all targets; they have no theorem yet.

## 6. Known divergences

Checked by a run that is expected to fail:

* `finding_boundary_rows` — at the end of a day `.wdb.seal` binds the in-memory
  table's name to the rows of the scratch file (`q/wdb.q:137`) and truncates it afterwards
  (`q/wdb.q:164`). Rows of the *new* day that are in memory then, because they
  were relayed after midnight and before the tickerplant's timer announced the
  end of the day, are lost. `docs/getting-started.md:48-51` says that the write-down
  database seals the whole day.
* `finding_catch_up_race` — between midnight and the processing of the
  end-of-day message, the closed day is backlog to `.wdb.catchUpSeals` (`q/wdb.q:241`),
  which seals it and retires its files. `.wdb.eod` then seals the same date again:
  it removes the partition (`q/wdb.q:149`) and splays an empty one.
* `finding_mass_crash_loop` — with the default numbers, and the tickerplant, the
  historical database and the gateway dying as soon as they start (an expired licence, a
  broken image), each pass restarts all three, waits 15 s for each and polls after 5 s:
  50 s. Of three successive restarts of one service the first has then left the window
  of 120 s (`watchdog/flap.py:31`), the threshold of 3 is never reached, and all three are
  restarted for ever. `docs/tickerplant-administration.md:137-138` and
  `watchdog/flap.py:4-7` say that a crash loop is escalated. The other tiers wait for the
  tickerplant and cost no time, so they are left out of the instance.

Met while modelling. The models do what the code does here; the properties exempt it, or
speak of what is left. In the write path and the shard:

* a splay that signals is logged and the scratch file deleted all the same
  (`q/wdb.q:150-165`): the rows are nowhere;
* a crash after the `trade` file was retired and before `risk` was splayed, on a
  date without `risk` rows, leaves a partition with one table and nothing that
  would complete it (`q/wdb.q:127-134`, `230-234`): `SealedDaysAreWhole` is checked
  without crashes;
* the watermark is computed from the clock (`q/wdb.q:108`), so rows that the write-down
  database has not read yet are shed from the RDB before they are on disk,
  although the comment at `q/wdb.q:102-104` rules that out;
* with an end of day after midnight UTC, the intraday database takes a date to be
  closed at midnight and caches its file, which the write-down database goes on
  appending to until the trading day ends (`q/idb.q:33-47`, `61`);
* after a forced end of day, a restart of the tickerplant before midnight makes
  the ended day the current one again, and it will be ended, and sealed, twice;
* descriptor numbers are reused while `.gw.conn` still has them: if two processes die and the
  one that is fetched first gets the number of the other, `.gw.fetch` shows one shard's health
  for the other from then on, as no call fails, and `.gw.all` may count one tier twice. The
  comment at `q/gateway.q:67-70` says that the next fetch re-hopens what a restart left stale.
  The number may also be that of the caller, who is then sent the query.
  `.gw.all` and `.gw.bySym` fail on a stale handle until a `.gw.fetch` has dropped it.

In the feeds:

* `KdbPublisher.hpp:46-48` says that a batch that could not be sent is retried; it is cleared
  (`KdbPublisher.cpp`). While disconnected it only grows. Both threads work on it unlocked;
* `RecoveryManager` without callbacks stays in `Recovering` (`RecoveryManager.hpp:87-92`); a websocket whose
  handshake is refused just returns, and the connection that the comment there says is dropped
  stays open, silent (`WebSocketTransport.cpp:74-78`);
* a batch whose send fails is dropped (`feeds/feed_common.py:78`), and one tickerplant
  that cannot be reached blocks the feed for all shards;
* Finnhub, Twelve Data, Polygon, Yahoo and Kraken lose a whole frame on one unreadable price;
  Alpha Vantage without a key polls for ever (`alphavantage.py:31-32`, `polling.py:45-51`) where the runner ends the others
  with exit code 2; IBKR remembers for ever that a contract was not found; Coinbase's last
  match is published again after each reconnect.

In the fleet and its clusters:

* a failure while the agent enrolls locks it out for good: its token is spent, a second
  `enroll` is refused with 409 (`routers/fleet.py:195-201`), and the secret is in an answer that
  nobody read, in a process that died, or in a file that was emptied and not written
  (`fleet_agent/config.py:56-60`). Two enrolments that both pass the check before either commits
  (`routers/fleet.py:195-211`) end with the secret of the later one;
* a heartbeat takes commands without an order (`routers/fleet.py:243-247`), so two commands that
  were queued one after the other may run the other way round. `Batches` allows it;
* what an agent had in hand when it died stays `dispatched` for ever, as
  `routers/fleet.py:240-242` says it shall: no command runs twice, some do not run;
* "reconciled to N shards" (`fleet_agent/provisioner.py:25-27`) may be said of a cluster that is
  not there: the count is read off a file that generation wrote before a failed start, and
  that taking everything down leaves (`backends.py:124-132`);
* a tick house's own letter ranges and symbols are never deployed, only their number
  (`fleet_agent/tickhouse_render.py:7-9`); validation lets gaps between ranges pass; more than
  26 explicit shards are accepted and refused by the agent; deleting a house leaves its cluster;
* a status request may write over a provision request made meanwhile; with SQLite a house may get the
  number of one that was deleted, and a request that had read the old row may then write to the new one;
* `cloud_provisioner.py:15-19` and `models.py:301-307` say that a cloud run ends in a tick house;
  none is made. A database error in `on_progress` fails the run, although
  `routers/cloud_provision.py:85-89` says otherwise. Outputs are cut to 4000 characters before they
  are parsed, so kubectl may be left unconfigured and helm install into the control
  plane's own cluster; a restart leaves the run where it was;
* every tool of a cloud run gets the control plane's whole environment (`cloud_provisioner.py:222`), with its
  signing and encryption keys, the KX token and the licence, but each step takes only the account's credentials out of
  the output, helm's the secrets it was given as well, and the licence's step alone the token and the licence (`205-210`, `322`,
  `340-349`). What a tool repeats of the rest is kept in the run's row. `NothingGivenStays` therefore
  speaks of the credentials and of the secrets of the cluster. Values are taken out as a whole: a part of one,
  such as a line of a GCP key file, or one that is escaped, may pass, and is not modelled.

In the order desk, the backtest, the queries and the identities:

* two sessions that overlap on a symbol: an order may fill twice or after it was cancelled, a
  fill may be lost from the position, two positions may be made (`routers/trading.py:226-236`, `336-390`);
* a concentration limit refuses the first order of an empty book (`risk_check.py:246-258`);
* a manual close and a pass of the bot may sell one position twice (`routers/bot.py:156`);
* a quantity of `nan` is above no cap (`routers/tradingview_webhook.py`);
* a print without a price is a null in q, which arrives as NaN and passes the filter on `None`
  (`backtest.py:100`): it counts as a print, keeps an empty history from being refused, and, if it is the last one, closes
  what is left open at NaN (`backtest.py:240-246`);
* a backtest's prints are cut off at the row limit of a query without a word, where
  `backtest.py:72-73` says what filters them; a decision uses the prints up to its cursor, that one included, where
  `backtest.py:20` says strictly before; a step of zero or less never ends the loop; a position entered after
  the last print is closed before it was entered; what is asserted of the decision points
  does not depend on how often one came, so they are kept as a set;
* symbols that are put while a connector is off are not applied when it is switched on, although
  by `models.py:189-192` the list scopes the feed; deleting a tick house leaves the feed handlers that
  publish into it, with a house that is not there (`models.py:584-585` has them point at one), or, once
  its number was given out again, with another house, of another tenant perhaps. What `HandlerRowsAreSound`
  says is that the house was the tenant's once, and nothing of rows whose own number had an earlier row;
* `date=.z.d` is routed to the RDB, which has no date column, and refused before that as it names
  `.z`; the gateway's answers leave failed shards out without a word; combining uses the limit that was
  asked for, not the one that was applied; a clause that excludes a symbol narrows as one that
  includes it would (`query_router.py:16-17` says that the results are identical), which `NarrowingIsSafe`
  exempts;
* an export job whose targets failed in part succeeds with the rest; one whose upload raised is
  `failed`, though the object may have been replaced (`export_sinks.py:51-54`, `87-91`,
  `export_jobs.py:173-175`): a lost acknowledgement is not told from a refusal. A failed run of the exporter
  still closes its sink, so that S3 and ADLS get a partial file; Databricks skips parts
  whose names it has loaded, so that of a second run into the same table the property asks only that as
  many parts are there, each of some run and in its place; Fabric keeps the parts of a longer run; Snowflake appends
  again on a retry; the runner builds the S3 and ADLS sinks without configuration, which refuse;
* two administrators may each remove the other and leave none (`routers/users.py:128-133`); an operator's
  change of a role is undone at the next directory login; a local user who logs in through a
  directory keeps the password (`provisioning.py:6-7` says never); a disabled SSO configuration
  still answers callbacks; suspending a tenant ends no login; a token is
  believed until it expires.

## 7. Not modelled

Of the watchdog, the Kubernetes backend and the HTTP health probe; of the feed handler, byte
layouts, JSON, hashes and the status server; of the brokers, their protocols; of the query
workspace, the advisor, the code generators and natural language; of the tick houses, the
installer of kdb+ and rendered text; of the identities, cryptography and the storage of
secrets. Left out for good: numerical code over floating point (signals, forecasts,
Greeks, what a backtest reckons from its trades), licensing and audit (a signature check, an append-only
log), other catalogues, the Kubernetes orchestrator (each operation is one patch of a Deployment),
presentation and deployment.
Of the exporter, the end of its process in the middle of a run; and an upload of its that raised is taken to have
replaced the object by then or never, whereas those of the control plane's jobs may still land later.
Within the data plane: metrics, logging, the content and types of rows, a reload of
the historical database that fails, disks that fill up, and the gateway's start with a
`shards.json` of an earlier generation.
