------------------------------ MODULE Webhook ------------------------------
(***************************************************************************)
(* The TradingView webhook of one tenant: a row with a token, an allowlist *)
(* and a cap, that the tenant's users read and change in a pool of         *)
(* threads, and alerts that come with a token and become orders.  An alert *)
(* reads the row once; then its body is awaited, and after that the event  *)
(* loop is its own until the order is placed.                              *)
(***************************************************************************)
EXTENDS Integers, FiniteSets

CONSTANTS
    WhThreads,     \* requests at one time, of users and of alerts
    WhPuts,        \* bodies of put_config: the fields that are given
    WhAlerts,      \* bodies of alerts
    WhQtyCap,      \* MAX_QTY_CAP
    WhMaxRequests  \* a bound: requests in all

ASSUME WebhookAssumption ==
    /\ WhQtyCap \in Nat \ {0}
    /\ \A body \in WhPuts : DOMAIN body \subseteq {"enabled", "allowed", "max"}
                            /\ ("max" \in DOMAIN body => body.max \in Nat)
    /\ \A alert \in WhAlerts : alert.qty \subseteq Int /\ \A p, q \in alert.qty : p = q

VARIABLES
    whRow,    \* the row of the tenant, a set of none or one
    whReq,    \* the request of each thread
    whPast,   \* every row there has been
    whOrders, \* the orders that alerts have placed
    whCount   \* requests so far, tokens so far

whVars == <<whRow, whReq, whPast, whOrders, whCount>>

WhFree == [at |-> "idle"]
WhDone(t) == whReq' = [whReq EXCEPT ![t] = WhFree]
Fresh == [enabled |-> FALSE, token |-> whCount.tokens, allowed |-> {}, max |-> 1]
Stored(row) == whRow' = {row} /\ whPast' = whPast \cup {row}
Issued == whCount' = [whCount EXCEPT !.tokens = @ + 1]
SameRow == UNCHANGED <<whRow, whPast>>

-----------------------------------------------------------------------------
(* The users' requests *)

\* get_config, put_config, rotate_token: the row is looked up.
Begin(t, op, body) ==
    /\ whReq[t] = WhFree /\ whCount.requests < WhMaxRequests
    /\ whCount' = [whCount EXCEPT !.requests = @ + 1]
    /\ whReq' = [whReq EXCEPT ![t] =
          [at |-> IF whRow = {} THEN "create" ELSE "write", op |-> op, body |-> body, read |-> whRow]]
    /\ SameRow /\ UNCHANGED whOrders

\* _get_or_create_config: a second row of a tenant is refused, and the request with it.
CreateConfig(t) ==
    /\ whReq[t].at = "create"
    /\ IF whRow = {}
       THEN /\ Stored(Fresh) /\ Issued
            /\ whReq' = [whReq EXCEPT ![t].at = "write", ![t].read = {Fresh}]
       ELSE SameRow /\ WhDone(t) /\ UNCHANGED whCount
    /\ UNCHANGED whOrders

\* The row as the request leaves it: what is given, the cap held.
Asks(row, body) ==
    [f \in DOMAIN row |->
        IF f \notin DOMAIN body THEN row[f]
        ELSE IF f = "max" /\ body[f] > WhQtyCap THEN WhQtyCap ELSE body[f]]

\* Only columns that have another value than was read are written.
Columns(stored, read, new) ==
    [f \in DOMAIN stored |-> IF new[f] = read[f] THEN stored[f] ELSE new[f]]

PutWebhook(t) ==
    /\ whReq[t].at = "write" /\ whReq[t].op = "put"
    /\ LET read == CHOOSE r \in whReq[t].read : TRUE
           stored == CHOOSE r \in whRow : TRUE
           body == whReq[t].body
           new == Asks(read, body)
       IN IF "enabled" \in DOMAIN body /\ new.enabled /\ new.allowed = {}
          THEN SameRow
          ELSE Stored(Columns(stored, read, new))
    /\ WhDone(t) /\ UNCHANGED <<whOrders, whCount>>

GetConfig(t) ==
    /\ whReq[t].at = "write" /\ whReq[t].op = "get"
    /\ WhDone(t) /\ SameRow /\ UNCHANGED <<whOrders, whCount>>

RotateToken(t) ==
    /\ whReq[t].at = "write" /\ whReq[t].op = "rotate"
    /\ \E stored \in whRow : Stored([stored EXCEPT !.token = Fresh.token])
    /\ Issued /\ WhDone(t) /\ UNCHANGED whOrders

-----------------------------------------------------------------------------
(* Alerts *)

LoopFree == \A t \in WhThreads : whReq[t].at # "placing"

\* The row of the token, and no answer but an error when there is none or it is disabled.
AlertComes(t, token, alert) ==
    /\ whReq[t] = WhFree /\ LoopFree /\ whCount.requests < WhMaxRequests
    /\ whCount' = [whCount EXCEPT !.requests = @ + 1]
    /\ \/ /\ \E row \in whRow : row.token = token /\ row.enabled
          /\ whReq' = [whReq EXCEPT ![t] = [at |-> "body", alert |-> alert, token |-> token,
                                            since |-> whRow, n |-> whCount.requests, read |-> whRow]]
       \/ (\A row \in whRow : row.token # token \/ ~row.enabled) /\ UNCHANGED whReq
    /\ SameRow /\ UNCHANGED whOrders

\* Variant: the quantity that is asked for.
AsAsked(alert, row) == CHOOSE q \in alert.qty \cup {row.max} : q \in alert.qty \/ alert.qty = {}

\* The quantity, or the cap, whichever is less; the cap when none is given.
Quantity(alert, row) ==
    CHOOSE q \in alert.qty \cup {row.max} : \A other \in alert.qty \cup {row.max} : q <= other

\* Variant: the allowlist is looked up again.
ReadAgain(request) == CHOOSE row \in whRow : TRUE

\* The row that the body is held against: as it was read.
RowOf(request) == CHOOSE row \in request.read : TRUE

\* The body is there: from here to the order nothing else runs on the loop.
BodyRead(t) ==
    /\ whReq[t].at = "body" /\ LoopFree
    /\ LET alert == whReq[t].alert
           row == RowOf(whReq[t])
       IN IF /\ alert.side \in {"buy", "sell"} /\ alert.symbol \in row.allowed
             /\ Quantity(alert, row) > 0
          THEN whReq' = [whReq EXCEPT ![t].at = "placing", ![t].read = {row}]
          ELSE WhDone(t)
    /\ SameRow /\ UNCHANGED <<whOrders, whCount>>

\* place_market_order_internal, which may refuse; no price is an error as well.
SendOrder(t) ==
    /\ whReq[t].at = "placing"
    /\ LET alert == whReq[t].alert
           order == [n |-> whReq[t].n, symbol |-> alert.symbol, side |-> alert.side,
                     qty |-> Quantity(alert, RowOf(whReq[t])), token |-> whReq[t].token,
                     since |-> whReq[t].since]
       IN whOrders' \in {whOrders, whOrders \cup {order}}
    /\ WhDone(t) /\ SameRow /\ UNCHANGED whCount

-----------------------------------------------------------------------------
WhInit ==
    /\ whRow = {} /\ whPast = {} /\ whOrders = {}
    /\ whReq = [t \in WhThreads |-> WhFree]
    /\ whCount = [requests |-> 0, tokens |-> 1]

WhNext ==
    \E t \in WhThreads :
       \/ \E body \in WhPuts : Begin(t, "put", body)
       \/ \E op \in {"get", "rotate"} : Begin(t, op, <<>>)
       \/ CreateConfig(t) \/ PutWebhook(t) \/ GetConfig(t) \/ RotateToken(t)
       \/ \E token \in 1 .. whCount.tokens, alert \in WhAlerts : AlertComes(t, token, alert)
       \/ BodyRead(t) \/ SendOrder(t)

WhSpec == WhInit /\ [][WhNext]_whVars

-----------------------------------------------------------------------------
\* tradingview_webhook.py: however the row is changed, rotated or disabled in the middle,
\* an order obeys one row, that which was there when its alert came: its token, enabled,
\* its allowlist and its cap; and an alert that came once has placed one order at most.
WebhookObeys ==
    /\ \A o \in whOrders : \E row \in o.since :
          /\ row \in whPast /\ row.enabled /\ row.token = o.token
          /\ o.symbol \in row.allowed /\ 0 < o.qty /\ o.qty <= row.max /\ row.max <= WhQtyCap
    /\ Cardinality({o.n : o \in whOrders}) = Cardinality(whOrders)
=============================================================================
