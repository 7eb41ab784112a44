----------------------------- MODULE Topology -----------------------------
(***************************************************************************)
(* One number, the shard count n, and what is derived from it: the letters *)
(* of each shard, computed by four runtimes; the services, volumes and     *)
(* dependencies of the compose file.  The letters are 1 .. Letters (26 in  *)
(* the code), NoLetter stands for a symbol that has none; shards are       *)
(* 0 .. n - 1.                                                             *)
(***************************************************************************)
EXTENDS Integers, Functions

CONSTANT Letters

ASSUME LettersAssumption == Letters \in Nat \ {0}

NoLetter == 0
ValidCount(n) == n \in 1 .. Letters
ShardIds(n) == 0 .. n - 1

-----------------------------------------------------------------------------
(* The letters of a shard *)

Size(n, i) == Letters \div n + (IF i < Letters % n THEN 1 ELSE 0)

\* letter_ranges, by its running index: the letters before shard i's.
Before(n) ==
    LET offset[i \in 0 .. Letters] ==
            IF i = 0 THEN 0 ELSE offset[i - 1] + Size(n, i - 1)
    IN offset

LetterRange(n, i) == Before(n)[i] + 1 .. Before(n)[i] + Size(n, i)

\* Variant: the shards that get one more letter are not counted for the later ones.
PlainOffset(n, i) == i * (Letters \div n)

\* The Helm chart computes the offset instead.
Offset(n, i) == i * (Letters \div n) + (IF i < Letters % n THEN i ELSE Letters % n)

HelmRange(n, i) == Offset(n, i) + 1 .. Offset(n, i) + Size(n, i)

\* shard_of: what the feeds publish to.
ShardOf(n, letter) ==
    IF letter = NoLetter THEN 0
    ELSE CHOOSE i \in ShardIds(n) : letter \in LetterRange(n, i)

\* The gateway: the first row of its table whose range has the letter, else the first.
GatewayShardOf(table, letter) ==
    LET owners == {i \in DOMAIN table : letter \in table[i]}
    IN IF owners = {} THEN 0 ELSE CHOOSE i \in owners : \A j \in owners : i <= j

\* shards.json
ShardsJson(n) == [i \in ShardIds(n) |-> LetterRange(n, i)]

-----------------------------------------------------------------------------
(* The compose file *)

ShardTiers == {"tp", "wdb", "rdb", "idb", "hdb"}
Sims == {"bpipe-sim", "crims-sim"}
Providers == {"finnhub", "alpaca", "ibkr", "twelvedata", "coinbase", "kraken", "binance",
              "binance-depth", "bybit", "okx", "yahoo"}

Service(deps, volumes, restart, profile) ==
    [deps |-> deps, volumes |-> volumes, restart |-> restart, profile |-> profile]

\* A shard's five processes.
ShardService(tier, i) ==
    CASE tier = "tp" -> Service({}, {<<"tp-log", i>>}, "unless-stopped", "")
      [] tier = "wdb" -> Service({<<"tp", i>>}, {<<"db", i>>, <<"hdb", i>>}, "unless-stopped", "")
      [] tier = "rdb" -> Service({<<"tp", i>>}, {<<"db", i>>}, "unless-stopped", "")
      [] tier = "idb" -> Service({<<"wdb", i>>}, {<<"db", i>>}, "unless-stopped", "")
      [] tier = "hdb" -> Service({<<"wdb", i>>}, {<<"hdb", i>>}, "unless-stopped", "")

ShardServices(n) ==
    [s \in ShardTiers \X ShardIds(n) |-> ShardService(s[1], s[2])]

GatewayService(n) ==
    [s \in {<<"gateway", 0>>} |->
        Service({"rdb", "idb", "wdb", "hdb"} \X ShardIds(n), {}, "unless-stopped", "")]

\* The simulated feeds, and the providers' that a profile adds.
SimServices(n) ==
    [s \in Sims \X {0} |-> Service({"tp"} \X ShardIds(n), {}, "on-failure", "")]
ProviderServices(n) ==
    [s \in Providers \X {0} |-> Service({"tp"} \X ShardIds(n), {}, "on-failure", "providers")]
HandlerService ==
    [s \in {<<"feedhandler-cpp", 0>>} |-> Service({<<"tp", 0>>}, {}, "on-failure", "providers")]

\* The control plane.
ControlServices ==
    [s \in {"postgres", "control-api", "ollama", "watchdog", "web-ui"} \X {0} |->
        CASE s[1] = "postgres" -> Service({}, {<<"postgres-data", 0>>}, "unless-stopped", "postgres")
          [] s[1] = "control-api" ->
                Service({<<"gateway", 0>>}, {<<"control-api-data", 0>>}, "unless-stopped", "")
          [] s[1] = "ollama" -> Service({}, {<<"ollama-data", 0>>}, "unless-stopped", "llm")
          [] s[1] \in {"watchdog", "web-ui"} ->
                Service({<<"control-api", 0>>}, {}, "unless-stopped", "")]

Compose(n) ==
    LET parts == <<ShardServices(n), GatewayService(n), SimServices(n), ProviderServices(n),
                   HandlerService, ControlServices>>
        names == UNION {DOMAIN parts[k] : k \in DOMAIN parts}
    IN [s \in names |-> parts[CHOOSE k \in DOMAIN parts : s \in DOMAIN parts[k]][s]]

Volumes(n) ==
    ({"tp-log", "db", "hdb"} \X ShardIds(n))
        \cup ({"control-api-data", "postgres-data", "ollama-data"} \X {0})

\* What the watchdog looks after: the feeds are left to the user.
HealedServices(n) == ShardTiers \X ShardIds(n) \cup {<<"gateway", 0>>}

\* What one `up` starts: the services of no profile, and of those that are asked for.
Enabled(n, profiles) == {s \in DOMAIN Compose(n) : Compose(n)[s].profile \in {""} \cup profiles}

-----------------------------------------------------------------------------
(* What must be true of every shard count *)

\* The four runtimes send a symbol to the same shard.
RoutersAgree(n) ==
    /\ \A i \in ShardIds(n) : HelmRange(n, i) = LetterRange(n, i)
    /\ \A letter \in NoLetter .. Letters :
          GatewayShardOf(ShardsJson(n), letter) = ShardOf(n, letter)

\* Nothing in the file waits for, or is mounted from, what is not in it; nothing that is
\* started waits for what is not; and every service that the watchdog restarts is one that
\* the engine restarts too.
ComposeIsWhole(n, profiles) ==
    /\ \A s \in DOMAIN Compose(n) :
          Compose(n)[s].deps \subseteq DOMAIN Compose(n) /\ Compose(n)[s].volumes \subseteq Volumes(n)
    /\ \A s \in Enabled(n, profiles) : Compose(n)[s].deps \subseteq Enabled(n, profiles)
    /\ \A s \in HealedServices(n) :
          s \in Enabled(n, {}) /\ Compose(n)[s].restart = "unless-stopped"
=============================================================================
