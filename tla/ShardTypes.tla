----------------------------- MODULE ShardTypes -----------------------------
(***************************************************************************)
(* The vocabulary shared by the processes of one shard (data-plane/q):     *)
(* clock readings, trading dates, rows and the messages a tickerplant      *)
(* sends on a subscriber's connection.                                     *)
(*                                                                         *)
(* A clock reading is a natural number of ticks; a day is DayLen ticks.    *)
(* A row keeps only its table and its timestamp: it stands for the batch   *)
(* of rows of that table that carry that timestamp.                        *)
(***************************************************************************)
EXTENDS Integers, Sequences, FiniteSets

CONSTANTS
    DayLen,      \* ticks in a calendar day
    EodOffset    \* ticks after midnight UTC at which a trading day ends (-eodhour)

ASSUME DayLenAssumption == DayLen \in Nat \ {0}
ASSUME EodOffsetAssumption == EodOffset \in 0 .. (DayLen - 1)

Tables == {"trade", "risk"}

\* The null timestamp and the null date of q (0Np, 0Nd): before every other.
NoTime == -1
NoDate == -2

\* `date$t : the calendar date of a timestamp.
DateOf(t) == t \div DayLen

\* `timestamp$d : midnight of a date.
Midnight(d) == d * DayLen

\* .u.tradingDate, .wdb.tradingDate: the trading day a clock reading belongs to.
TradingDate(t) == (t - EodOffset) \div DayLen

Row == [tbl : Tables, time : Nat]

\* (`.u.upd;t;d), (`.u.shedTo;w) and (`.u.eod;d) on a subscriber's connection.
UpdMsg(r) == [kind |-> "upd", row |-> r]
ShedMsg(wm) == [kind |-> "shed", wm |-> wm]
EodMsg(d) == [kind |-> "eod", date |-> d]

Message == [kind : {"upd"}, row : Row]
             \cup [kind : {"shed"}, wm : Int]
             \cup [kind : {"eod"}, date : Int]

\* The rows that a queue of messages still has to deliver.
RowsIn(q) == {q[i].row : i \in {j \in 1 .. Len(q) : q[j].kind = "upd"}}

=============================================================================
