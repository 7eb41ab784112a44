----------------------------- MODULE MCTrading -----------------------------
EXTENDS Bot, TLC
CONSTANTS Cases   \* settings, with how often each kind of step is taken
VARIABLE left
vars == <<tradingVars, left>>
Use(k) == left[k] > 0 /\ left' = [left EXCEPT ![k] = @ - 1]
Free == UNCHANGED left
Clients == Threads \ {Scheduler}
Init == \E c \in Cases : DeskStart(c[1]) /\ BotInit /\ left = c[2]
Next ==
    \/ \E t \in Clients :
         \/ DeskRequest(t) /\ UNCHANGED botVars /\ Use("requests")
         \/ DeskStep(t) /\ UNCHANGED botVars /\ Free
         \/ ClientFill(t) /\ Free
         \/ CloseRead(t) /\ Use("closes")
         \/ CloseDone(t) /\ Free
         \/ PutConfig(t) /\ Use("puts")
         \/ PutCommit(t) /\ Free
    \/ BrokerDecides /\ UNCHANGED botVars /\ Free
    \/ TradingDies /\ Use("crashes")
    \/ Midnight /\ UNCHANGED botVars /\ Use("midnights")
    \/ PassStart /\ Use("passes")
    \/ BotStep /\ Free
    \/ (ForceClear \/ HardReset) /\ Use("clears")
Spec == Init /\ [][Next]_vars

Kinds == {"requests", "closes", "crashes", "midnights", "passes", "puts", "clears"}
Budget(b) == [k \in Kinds |-> IF k \in DOMAIN b THEN b[k] ELSE 0]
NoLimits(router) == [router |-> router, failOpen |-> FALSE, loss |-> 0, share |-> 0]
Limits(loss, share) == [router |-> "paper", failOpen |-> TRUE, loss |-> loss, share |-> share]
MCCases == {
    <<NoLimits("paper"), Budget([requests |-> 2, midnights |-> 1, crashes |-> 1])>>,
    <<NoLimits("broker"), Budget([requests |-> 2, crashes |-> 1])>>,
    <<NoLimits("both"), Budget([requests |-> 1])>>,
    <<Limits(1800, 0), Budget([requests |-> 2, midnights |-> 1])>>,
    <<Limits(0, 60), Budget([requests |-> 2])>>,
    <<NoLimits("paper"), Budget([passes |-> 2, puts |-> 2, closes |-> 1])>>,
    <<NoLimits("broker"), Budget([passes |-> 1, puts |-> 2, closes |-> 1, crashes |-> 1])>>,
    <<NoLimits("paper"), Budget([passes |-> 1, puts |-> 2, clears |-> 1, requests |-> 1])>>,
    <<Limits(1800, 0), Budget([passes |-> 2, puts |-> 2])>>}
MCSettings == {c[1] : c \in MCCases}
MCBaskets == {<<"A">>, <<"A", "B">>}
ClientSymmetry == Permutations(Clients)
=============================================================================
