----------------------------- MODULE MCWatchdog -----------------------------
(* Instances of Watchdog. *)
EXTENDS Watchdog

\* The tiers of the small instance: the root of a shard and one process that needs it.
TwoTiers == <<"tickerplant", "wdb">>

\* The tiers that are restarted while the tickerplant is down: the others wait for it, and
\* take no time in a pass.
RootTiers == <<"tickerplant", "hdb">>

\* Nothing is beyond repair; or the tickerplant, which is visited before the others,
\* cannot be started at all; or the write-down database dies whenever it is started.
OneBroken ==
    LET Broken(tier, how) ==
            [s \in Service |-> IF s[1] = tier THEN how ELSE "runs"]
    IN {Broken("tickerplant", "runs"), Broken("tickerplant", "raises"), Broken("wdb", "dies")}

\* Every container dies as soon as it is started: an expired licence, a broken image.
AllDie == {[s \in Service |-> "dies"]}
=============================================================================
