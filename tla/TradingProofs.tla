--------------------------- MODULE TradingProofs ---------------------------
(***************************************************************************)
(* What TLAPS proves about trading: an alert that becomes an order does so *)
(* once and by a row that allowed it, for any number of threads, rows and  *)
(* alerts; a backtest makes the trades the bot's rules make, for any tape  *)
(* and request; and, for any number of threads, symbols and orders, a fill *)
(* of the broker is booked once, the bot watches what it has bought, and   *)
(* it opens no position that its risk budget does not pay for.             *)
(***************************************************************************)
EXTENDS Bot, Webhook, Backtest, NumberLemmas, FiniteSetTheorems, TLAPS

-----------------------------------------------------------------------------
(* The webhook *)

\* A row of the webhook, as it is stored: its cap is held.
WebhookRow(r) == DOMAIN r = {"enabled", "token", "allowed", "max"} /\ r.max \in Int /\ r.max <= WhQtyCap

WhTypes ==
    /\ whRow \subseteq whPast
    /\ \A r \in whPast : WebhookRow(r)
    /\ \A r, s \in whRow : r = s
    /\ whCount = [requests |-> whCount.requests, tokens |-> whCount.tokens]
    /\ whCount.requests \in Nat
    /\ whReq = [t \in WhThreads |-> whReq[t]]
    /\ \A t \in WhThreads : whReq[t].at \in {"idle", "create", "write", "body", "placing"}

\* A user's request: what it has read of the row stands in for it until it writes.
UserAsks(t) ==
    /\ whReq[t] = [at |-> whReq[t].at, op |-> whReq[t].op, body |-> whReq[t].body, read |-> whReq[t].read]
    /\ whReq[t].op = "put" => whReq[t].body \in WhPuts
    /\ whReq[t].at = "write" =>
          whRow # {} /\ \E r \in whPast : whReq[t].read = {r}

\* An alert's request: it goes by the row that was there when it came.
Alerted(t) ==
    /\ whReq[t] = [at |-> whReq[t].at, alert |-> whReq[t].alert, token |-> whReq[t].token,
                   since |-> whReq[t].since, n |-> whReq[t].n, read |-> whReq[t].read]
    /\ whReq[t].alert \in WhAlerts
    /\ whReq[t].n \in Nat /\ whReq[t].n < whCount.requests
    /\ \E r \in whPast :
          /\ whReq[t].since = {r} /\ whReq[t].read = {r} /\ r.enabled /\ r.token = whReq[t].token
          /\ whReq[t].at = "placing" =>
                whReq[t].alert.symbol \in r.allowed /\ Quantity(whReq[t].alert, r) > 0

UserAt == {"create", "write"}
AlertAt == {"body", "placing"}

\* An alert that came once is one request or one order.
ComesOnce ==
    /\ \A t, u \in WhThreads :
          whReq[t].at \in AlertAt /\ whReq[u].at \in AlertAt /\ whReq[t].n = whReq[u].n => t = u
    /\ \A t \in WhThreads, o \in whOrders : whReq[t].at \in AlertAt => whReq[t].n # o.n
    /\ \A o, p \in whOrders : o.n = p.n => o = p
    /\ \A o \in whOrders : o.n \in Nat /\ o.n < whCount.requests

Obeys(o) ==
    \E row \in o.since :
        /\ row \in whPast /\ row.enabled /\ row.token = o.token
        /\ o.symbol \in row.allowed /\ 0 < o.qty /\ o.qty <= row.max /\ row.max <= WhQtyCap

WebhookInv ==
    /\ WhTypes
    /\ \A t \in WhThreads : whReq[t].at \in UserAt => UserAsks(t)
    /\ \A t \in WhThreads : whReq[t].at \in AlertAt => Alerted(t)
    /\ IsFiniteSet(whOrders) /\ ComesOnce
    /\ \A o \in whOrders : Obeys(o)

\* The quantity is one of those compared, and none of them is less.
LEMMA QuantityIsLeast ==
    ASSUME NEW alert \in WhAlerts, NEW row, WebhookRow(row)
    PROVE  Quantity(alert, row) \in Int /\ Quantity(alert, row) <= row.max
<1> DEFINE among == alert.qty \cup {row.max}
           Least(q) == \A other \in among : q <= other
<1>1. row.max \in Int
  BY DEF WebhookRow
<1>2. \E q \in among : Least(q)
  <2>1. CASE alert.qty = {}
    BY <1>1, <2>1
  <2>2. ASSUME NEW q \in alert.qty PROVE \E least \in among : Least(least)
    <3>1. q \in Int /\ among = {q, row.max}
      BY WebhookAssumption
    <3>2. CASE q <= row.max
      BY <1>1, <3>1, <3>2
    <3>3. CASE ~(q <= row.max)
      BY <1>1, <3>1, <3>3
    <3> QED
      BY <3>2, <3>3
  <2> QED
    BY <2>1, <2>2, WebhookAssumption
<1>3. Quantity(alert, row) \in among /\ Least(Quantity(alert, row))
  BY <1>2 DEF Quantity
<1>4. among \subseteq Int
  BY <1>1, WebhookAssumption
<1> QED
  BY <1>3, <1>4

\* What put_config leaves of a row is a row, though only some columns are written.
LEMMA PutKeepsRows ==
    ASSUME NEW stored, NEW read, NEW body \in WhPuts, WebhookRow(stored), WebhookRow(read)
    PROVE  WebhookRow(Columns(stored, read, Asks(read, body)))
<1> DEFINE new == Asks(read, body)
<1>1. WhQtyCap \in Nat
  BY WebhookAssumption
<1>2. DOMAIN body \subseteq {"enabled", "allowed", "max"} /\ ("max" \in DOMAIN body => body.max \in Nat)
  BY WebhookAssumption
<1>3. new.max \in Int /\ new.max <= WhQtyCap
  <2>1. CASE "max" \in DOMAIN body
    BY <1>1, <1>2, <2>1 DEF Asks, WebhookRow
  <2>2. CASE "max" \notin DOMAIN body
    BY <1>1, <1>2, <2>2 DEF Asks, WebhookRow
  <2> QED
    BY <2>1, <2>2
<1> HIDE DEF new
<1> QED
  BY <1>3 DEF Columns, WebhookRow, new

-----------------------------------------------------------------------------
(* What the others' steps leave alone *)

\* Rows are added and never taken away, and a number that was given stays given.
WebhookGrows ==
    /\ whPast \subseteq whPast' /\ (whRow # {} => whRow' # {})
    /\ whCount'.requests \in Nat /\ whCount.requests <= whCount'.requests

\* A request that takes no step stays what it was.
LEMMA RequestKept ==
    ASSUME WebhookInv, WebhookGrows, NEW u \in WhThreads, whReq'[u] = whReq[u]
    PROVE  /\ whReq'[u].at \in UserAt => UserAsks(u)'
           /\ whReq'[u].at \in AlertAt => Alerted(u)'
<1>1. whReq[u].at \in UserAt => UserAsks(u)
  BY DEF WebhookInv
<1>2. whReq[u].at \in AlertAt => Alerted(u)
  BY DEF WebhookInv
<1>3. ASSUME whReq[u].at \in UserAt PROVE UserAsks(u)'
  BY <1>1, <1>3 DEF UserAsks, WebhookGrows
<1>4. ASSUME whReq[u].at \in AlertAt PROVE Alerted(u)'
  <2>1. Alerted(u) /\ whCount.requests \in Nat
    BY <1>2, <1>4 DEF WebhookInv, WhTypes
  <2>2. whReq[u].n \in Nat /\ whReq[u].n < whCount'.requests
    BY <2>1 DEF Alerted, WebhookGrows
  <2>3. PICK r \in whPast :
          /\ whReq[u].since = {r} /\ whReq[u].read = {r} /\ r.enabled /\ r.token = whReq[u].token
          /\ whReq[u].at = "placing" =>
                whReq[u].alert.symbol \in r.allowed /\ Quantity(whReq[u].alert, r) > 0
    BY <2>1 DEF Alerted
  <2> QED
    BY <2>1, <2>2, <2>3 DEF Alerted, WebhookGrows, Quantity
<1> QED
  BY <1>3, <1>4

\* Nor does an order change.
LEMMA OrdersKept ==
    ASSUME WebhookInv, WebhookGrows, NEW o \in whOrders
    PROVE  Obeys(o)'
BY DEF WebhookInv, WebhookGrows, Obeys

\* Where no alert comes and no order is placed, nothing is had twice that was had once.
LEMMA OnceKept ==
    ASSUME WebhookInv, WebhookGrows, UNCHANGED whOrders,
           \A u \in WhThreads : whReq'[u].at \in AlertAt =>
                whReq[u].at \in AlertAt /\ whReq'[u].n = whReq[u].n
    PROVE  ComesOnce'
<1>1. ComesOnce /\ whCount.requests \in Nat
  BY DEF WebhookInv, WhTypes
<1> QED
  BY <1>1 DEF ComesOnce, WebhookGrows

\* So a step of one thread preserves the invariant if it does what follows.
LEMMA StepOfOne ==
    ASSUME WebhookInv, WebhookGrows, WhTypes', NEW t \in WhThreads, UNCHANGED whOrders,
           \A u \in WhThreads \ {t} : whReq'[u] = whReq[u],
           whReq'[t].at \in UserAt => UserAsks(t)',
           whReq'[t].at \in AlertAt => Alerted(t)' /\ whReq[t].at \in AlertAt /\ whReq'[t].n = whReq[t].n
    PROVE  WebhookInv'
<1>1. \A u \in WhThreads : whReq'[u].at \in UserAt => UserAsks(u)'
  BY RequestKept
<1>2. \A u \in WhThreads : whReq'[u].at \in AlertAt => Alerted(u)'
  BY RequestKept
<1>3. ComesOnce'
  BY OnceKept
<1>4. IsFiniteSet(whOrders') /\ \A o \in whOrders' : Obeys(o)'
  BY OrdersKept DEF WebhookInv
<1> QED
  BY <1>1, <1>2, <1>3, <1>4 DEF WebhookInv

-----------------------------------------------------------------------------
(* The steps of the users' requests *)

LEMMA BeginKeeps ==
    ASSUME WebhookInv, NEW t \in WhThreads, NEW op, NEW body, op = "put" => body \in WhPuts,
           Begin(t, op, body)
    PROVE  WebhookInv'
<1>1. WhTypes
  BY DEF WebhookInv
<1>2. whReq'[t] = [at |-> IF whRow = {} THEN "create" ELSE "write", op |-> op, body |-> body, read |-> whRow]
  BY <1>1 DEF Begin, WhTypes
<1>3. \A u \in WhThreads \ {t} : whReq'[u] = whReq[u]
  BY <1>1 DEF Begin, WhTypes
<1>4. WhTypes' /\ WebhookGrows
  <2>1. whCount' = [requests |-> whCount.requests + 1, tokens |-> whCount.tokens]
    BY <1>1 DEF Begin, WhTypes
  <2>2. whReq' = [u \in WhThreads |-> whReq'[u]]
    BY <1>1 DEF Begin, WhTypes
  <2>3. \A u \in WhThreads : whReq'[u].at \in {"idle", "create", "write", "body", "placing"}
    BY <1>1, <1>2, <1>3 DEF WhTypes
  <2> QED
    BY <1>1, <2>1, <2>2, <2>3 DEF Begin, SameRow, WhTypes, WebhookRow, WebhookGrows
<1>5. UserAsks(t)'
  <2>1. whRow # {} => \E r \in whPast : whRow = {r}
    BY <1>1 DEF WhTypes
  <2> QED
    BY <1>2, <2>1 DEF UserAsks, Begin, SameRow
<1>6. UNCHANGED whOrders
  BY DEF Begin
<1> QED
  BY <1>2, <1>3, <1>4, <1>5, <1>6, StepOfOne DEF AlertAt

\* A request that ends.
LEMMA DoneKeeps ==
    ASSUME WebhookInv, NEW t \in WhThreads, WhDone(t), SameRow, UNCHANGED <<whOrders, whCount>>
    PROVE  WebhookInv'
<1>1. WhTypes
  BY DEF WebhookInv
<1>2. whReq'[t] = WhFree
  BY <1>1 DEF WhDone, WhTypes
<1>3. \A u \in WhThreads \ {t} : whReq'[u] = whReq[u]
  BY <1>1 DEF WhDone, WhTypes
<1>4. WhTypes' /\ WebhookGrows
  <2>1. whReq' = [u \in WhThreads |-> whReq'[u]]
    BY <1>1 DEF WhDone, WhTypes
  <2>2. \A u \in WhThreads : whReq'[u].at \in {"idle", "create", "write", "body", "placing"}
    BY <1>1, <1>2, <1>3 DEF WhTypes, WhFree
  <2> QED
    BY <1>1, <2>1, <2>2 DEF SameRow, WhTypes, WebhookRow, WebhookGrows
<1> QED
  BY <1>2, <1>3, <1>4, StepOfOne DEF WhFree, UserAt, AlertAt

\* A request that has its row, as a record of its fields.
LEMMA HasRow ==
    ASSUME NEW r, r = [at |-> r.at, op |-> r.op, body |-> r.body, read |-> r.read], NEW x
    PROVE  [[r EXCEPT !.at = "write"] EXCEPT !.read = x] =
              [at |-> "write", op |-> r.op, body |-> r.body, read |-> x]
<1>1. [r EXCEPT !.at = "write"] = [at |-> "write", op |-> r.op, body |-> r.body, read |-> r.read]
  OBVIOUS
<1>2. \A w : w = [at |-> "write", op |-> r.op, body |-> r.body, read |-> r.read] =>
                [w EXCEPT !.read = x] = [at |-> "write", op |-> r.op, body |-> r.body, read |-> x]
  OBVIOUS
<1> QED
  BY <1>1, <1>2, Zenon

\* The count of requests is left, that of tokens may not be.
SameRequests == whCount' = [requests |-> whCount.requests, tokens |-> whCount'.tokens]

\* Issuing a token counts no request.
LEMMA IssuedSameRequests ==
    ASSUME WhTypes, Issued PROVE SameRequests
BY DEF WhTypes, Issued, SameRequests

\* A row is stored in the place of the one there was, and the request ends or goes on.
LEMMA StoredTypes ==
    ASSUME WhTypes, NEW row, WebhookRow(row), Stored(row), NEW t \in WhThreads,
           whReq' = [u \in WhThreads |-> whReq'[u]], \A u \in WhThreads \ {t} : whReq'[u] = whReq[u],
           whReq'[t].at \in {"idle", "write"}, SameRequests
    PROVE  WhTypes' /\ WebhookGrows /\ whRow' = {row} /\ row \in whPast'
<1>1. whCount' = [requests |-> whCount'.requests, tokens |-> whCount'.tokens]
      /\ whCount'.requests = whCount.requests
  BY DEF SameRequests
<1>2. \A u \in WhThreads : whReq'[u].at \in {"idle", "create", "write", "body", "placing"}
  BY DEF WhTypes
<1>3. whRow' = {row} /\ whPast' = whPast \cup {row}
  BY DEF Stored
<1> QED
  BY <1>1, <1>2, <1>3 DEF WhTypes, WebhookGrows, WebhookRow

LEMMA CreateKeeps ==
    ASSUME WebhookInv, NEW t \in WhThreads, CreateConfig(t)
    PROVE  WebhookInv'
<1>1. WhTypes /\ UserAsks(t) /\ whReq[t].at = "create" /\ UNCHANGED whOrders
  BY DEF WebhookInv, CreateConfig, UserAt
<1>2. CASE whRow # {}
  BY <1>2, DoneKeeps DEF CreateConfig
<1>3. CASE whRow = {}
  <2> DEFINE new == [at |-> "write", op |-> whReq[t].op, body |-> whReq[t].body, read |-> {Fresh}]
  <2>1. whReq' = [whReq EXCEPT ![t] = new]
    <3>1. whReq' = [whReq EXCEPT ![t].at = "write", ![t].read = {Fresh}]
      BY <1>3 DEF CreateConfig
    <3>2. [[whReq[t] EXCEPT !.at = "write"] EXCEPT !.read = {Fresh}] = new
      BY <1>1, HasRow DEF UserAsks
    <3> HIDE DEF new
    <3>3. whReq' = [whReq EXCEPT ![t] = [[whReq[t] EXCEPT !.at = "write"] EXCEPT !.read = {Fresh}]]
      BY <1>1, <3>1 DEF WhTypes
    <3> QED
      BY <3>2, <3>3
  <2>2. whReq'[t] = new /\ \A u \in WhThreads \ {t} : whReq'[u] = whReq[u]
    BY <1>1, <2>1 DEF WhTypes
  <2>3. WebhookRow(Fresh)
    BY WebhookAssumption DEF WebhookRow, Fresh
  <2>4. WhTypes' /\ WebhookGrows /\ whRow' = {Fresh} /\ Fresh \in whPast'
    <3>1. Stored(Fresh) /\ SameRequests
      BY <1>1, <1>3, IssuedSameRequests DEF CreateConfig
    <3>2. whReq' = [u \in WhThreads |-> whReq'[u]]
      BY <1>1, <2>1 DEF WhTypes
    <3> QED
      BY <1>1, <2>2, <2>3, <3>1, <3>2, StoredTypes
  <2>5. UserAsks(t)'
    BY <1>1, <2>2, <2>4 DEF UserAsks
  <2> QED
    BY <1>1, <2>2, <2>4, <2>5, StepOfOne DEF AlertAt
<1> QED
  BY <1>2, <1>3

\* A row that is stored as the last thing of a request.
LEMMA StoredKeeps ==
    ASSUME WebhookInv, NEW t \in WhThreads, NEW row, WebhookRow(row), Stored(row), WhDone(t), SameRequests,
           UNCHANGED whOrders
    PROVE  WebhookInv'
<1>1. WhTypes
  BY DEF WebhookInv
<1>2. /\ whReq' = [u \in WhThreads |-> whReq'[u]]
      /\ whReq'[t] = WhFree /\ \A u \in WhThreads \ {t} : whReq'[u] = whReq[u]
  BY <1>1 DEF WhDone, WhTypes
<1>3. whReq'[t].at = "idle"
  BY <1>2 DEF WhFree
<1>4. WhTypes' /\ WebhookGrows
  BY <1>1, <1>2, <1>3, StoredTypes
<1> QED
  BY <1>2, <1>3, <1>4, StepOfOne DEF UserAt, AlertAt

LEMMA PutKeeps ==
    ASSUME WebhookInv, NEW t \in WhThreads, PutWebhook(t)
    PROVE  WebhookInv'
<1> DEFINE read == CHOOSE r \in whReq[t].read : TRUE
           stored == CHOOSE r \in whRow : TRUE
           body == whReq[t].body
           new == Asks(read, body)
<1>1. WhTypes /\ UserAsks(t) /\ whReq[t].at = "write" /\ whReq[t].op = "put"
  BY DEF WebhookInv, PutWebhook, UserAt
<1>2. body \in WhPuts /\ whRow # {} /\ \E r \in whPast : whReq[t].read = {r}
  BY <1>1 DEF UserAsks
<1>3. WebhookRow(read) /\ WebhookRow(stored)
  <2>1. read \in whPast /\ stored \in whPast
    BY <1>1, <1>2 DEF WhTypes
  <2> QED
    BY <1>1, <2>1 DEF WhTypes
<1>4. WebhookRow(Columns(stored, read, new))
  BY <1>2, <1>3, PutKeepsRows
<1>5. (SameRow \/ Stored(Columns(stored, read, new))) /\ WhDone(t) /\ UNCHANGED <<whOrders, whCount>>
  BY DEF PutWebhook
<1> HIDE DEF read, stored, body, new
<1>0. SameRequests
  BY <1>1, <1>5 DEF SameRequests, WhTypes
<1>6. CASE SameRow
  BY <1>5, <1>6, DoneKeeps
<1>7. CASE Stored(Columns(stored, read, new))
  BY <1>0, <1>4, <1>5, <1>7, StoredKeeps
<1> QED
  BY <1>5, <1>6, <1>7

LEMMA RotateKeeps ==
    ASSUME WebhookInv, NEW t \in WhThreads, RotateToken(t)
    PROVE  WebhookInv'
<1>1. PICK stored \in whRow : Stored([stored EXCEPT !.token = Fresh.token])
  BY DEF RotateToken
<1>2. WebhookRow([stored EXCEPT !.token = Fresh.token])
  <2>1. WebhookRow(stored)
    BY DEF WebhookInv, WhTypes
  <2> QED
    BY <2>1 DEF WebhookRow
<1>3. WhDone(t) /\ SameRequests /\ UNCHANGED whOrders
  BY IssuedSameRequests DEF RotateToken, WebhookInv
<1> QED
  BY <1>1, <1>2, <1>3, StoredKeeps

-----------------------------------------------------------------------------
(* The steps of the alerts *)

LEMMA AlertComesKeeps ==
    ASSUME WebhookInv, NEW t \in WhThreads, NEW token, NEW alert \in WhAlerts,
           AlertComes(t, token, alert)
    PROVE  WebhookInv'
<1>1. WhTypes /\ ComesOnce /\ UNCHANGED <<whRow, whPast, whOrders>> /\ whReq[t] = WhFree
  BY DEF WebhookInv, AlertComes, SameRow
<1>2. /\ whCount' = [requests |-> whCount.requests + 1, tokens |-> whCount.tokens]
      /\ whCount'.requests = whCount.requests + 1 /\ whCount.requests \in Nat
  BY <1>1 DEF AlertComes, WhTypes
<1>3. WebhookGrows
  BY <1>1, <1>2 DEF WebhookGrows
<1>4. CASE UNCHANGED whReq
  <2>1. WhTypes'
    BY <1>1, <1>2, <1>4 DEF WhTypes, WebhookRow
  <2>2. whReq[t].at = "idle"
    BY <1>1 DEF WhFree
  <2> QED
    BY <1>1, <1>3, <1>4, <2>1, <2>2, StepOfOne DEF UserAt, AlertAt
<1>5. CASE /\ \E row \in whRow : row.token = token /\ row.enabled
           /\ whReq' = [whReq EXCEPT ![t] = [at |-> "body", alert |-> alert, token |-> token,
                                             since |-> whRow, n |-> whCount.requests, read |-> whRow]]
  <2>1. PICK row \in whRow : row.token = token /\ row.enabled
    BY <1>5
  <2>2. whRow = {row} /\ row \in whPast
    BY <1>1, <2>1 DEF WhTypes
  <2>3. /\ whReq' = [u \in WhThreads |-> whReq'[u]]
        /\ whReq'[t] = [at |-> "body", alert |-> alert, token |-> token,
                        since |-> whRow, n |-> whCount.requests, read |-> whRow]
        /\ \A u \in WhThreads \ {t} : whReq'[u] = whReq[u]
    BY <1>1, <1>5 DEF WhTypes
  <2>4. WhTypes'
    BY <1>1, <1>2, <2>3 DEF WhTypes, WebhookRow
  <2>5. Alerted(t)'
    BY <1>1, <1>2, <2>1, <2>2, <2>3 DEF Alerted
  <2>6. \A u \in WhThreads : /\ whReq'[u].at \in UserAt => UserAsks(u)'
                             /\ whReq'[u].at \in AlertAt => Alerted(u)'
    <3>1. ASSUME NEW u \in WhThreads \ {t}
          PROVE  (whReq'[u].at \in UserAt => UserAsks(u)') /\ (whReq'[u].at \in AlertAt => Alerted(u)')
      BY <1>3, <2>3, <3>1, RequestKept
    <3> QED
      BY <2>3, <2>5, <3>1 DEF UserAt
  <2>7. \A u \in WhThreads \ {t} : whReq'[u].at \in AlertAt =>
            whReq'[u].n \in Nat /\ whReq'[u].n < whCount.requests
    <3>1. ASSUME NEW u \in WhThreads \ {t}, whReq'[u].at \in AlertAt
          PROVE  whReq'[u].n \in Nat /\ whReq'[u].n < whCount.requests
      BY <2>3, <3>1 DEF WebhookInv, Alerted
    <3> QED
      BY <3>1
  <2>8. ComesOnce'
    <3>1. ASSUME NEW u \in WhThreads, NEW v \in WhThreads, whReq'[u].at \in AlertAt,
                 whReq'[v].at \in AlertAt, whReq'[u].n = whReq'[v].n
          PROVE  u = v
      BY <1>1, <1>2, <2>3, <2>7, <3>1 DEF ComesOnce
    <3>2. ASSUME NEW u \in WhThreads, NEW o \in whOrders', whReq'[u].at \in AlertAt
          PROVE  whReq'[u].n # o.n
      BY <1>1, <1>2, <2>3, <3>2 DEF ComesOnce
    <3>3. \A o \in whOrders' : o.n \in Nat /\ o.n < whCount'.requests
      BY <1>1, <1>2 DEF ComesOnce
    <3>4. \A o, p \in whOrders' : o.n = p.n => o = p
      BY <1>1 DEF ComesOnce
    <3> QED
      BY <3>1, <3>2, <3>3, <3>4 DEF ComesOnce
  <2>9. IsFiniteSet(whOrders') /\ \A o \in whOrders' : Obeys(o)'
    BY <1>1, <1>3, OrdersKept DEF WebhookInv
  <2> QED
    BY <2>4, <2>6, <2>8, <2>9 DEF WebhookInv
<1> QED
  BY <1>4, <1>5 DEF AlertComes

\* A request that was read for, as a record of its fields.
LEMMA HasBody ==
    ASSUME NEW r, r = [at |-> r.at, alert |-> r.alert, token |-> r.token, since |-> r.since,
                       n |-> r.n, read |-> r.read], NEW x
    PROVE  [[r EXCEPT !.at = "placing"] EXCEPT !.read = x] =
              [at |-> "placing", alert |-> r.alert, token |-> r.token, since |-> r.since,
               n |-> r.n, read |-> x]
<1>1. [r EXCEPT !.at = "placing"] =
          [at |-> "placing", alert |-> r.alert, token |-> r.token, since |-> r.since,
           n |-> r.n, read |-> r.read]
  OBVIOUS
<1>2. \A w : w = [at |-> "placing", alert |-> r.alert, token |-> r.token, since |-> r.since,
                  n |-> r.n, read |-> r.read] =>
          [w EXCEPT !.read = x] = [at |-> "placing", alert |-> r.alert, token |-> r.token,
                                   since |-> r.since, n |-> r.n, read |-> x]
  OBVIOUS
<1> QED
  BY <1>1, <1>2, Zenon

LEMMA BodyReadKeeps ==
    ASSUME WebhookInv, NEW t \in WhThreads, BodyRead(t)
    PROVE  WebhookInv'
<1> DEFINE alert == whReq[t].alert
           row == RowOf(whReq[t])
           new == [at |-> "placing", alert |-> whReq[t].alert, token |-> whReq[t].token,
                   since |-> whReq[t].since, n |-> whReq[t].n, read |-> {row}]
<1>1. WhTypes /\ Alerted(t) /\ whReq[t].at = "body" /\ UNCHANGED <<whRow, whPast, whOrders, whCount>>
  BY DEF WebhookInv, BodyRead, SameRow, AlertAt
<1>2. PICK r \in whPast : whReq[t].since = {r} /\ whReq[t].read = {r} /\ r.enabled /\ r.token = whReq[t].token
  BY <1>1 DEF Alerted
<1>3. row = r
  BY <1>2 DEF RowOf
<1>4. CASE WhDone(t)
  BY <1>1, <1>4, DoneKeeps DEF SameRow
<1>5. CASE /\ alert.symbol \in row.allowed /\ Quantity(alert, row) > 0
           /\ whReq' = [whReq EXCEPT ![t].at = "placing", ![t].read = {row}]
  <2>1. [[whReq[t] EXCEPT !.at = "placing"] EXCEPT !.read = {row}] = new
    BY <1>1, HasBody DEF Alerted
  <2> HIDE DEF new, row
  <2>2. whReq' = [whReq EXCEPT ![t] = [[whReq[t] EXCEPT !.at = "placing"] EXCEPT !.read = {row}]]
    BY <1>1, <1>5 DEF WhTypes
  <2>3. /\ whReq' = [u \in WhThreads |-> whReq'[u]]
        /\ whReq'[t] = new /\ \A u \in WhThreads \ {t} : whReq'[u] = whReq[u]
    BY <1>1, <2>1, <2>2 DEF WhTypes
  <2>4. new.at = "placing"
    BY DEF new
  <2>5. WhTypes' /\ WebhookGrows
    BY <1>1, <2>3, <2>4 DEF WhTypes, WebhookRow, WebhookGrows
  <2>6. Alerted(t)' /\ whReq'[t].n = whReq[t].n
    <3>1. alert \in WhAlerts /\ whReq[t].n \in Nat /\ whReq[t].n < whCount.requests
      BY <1>1 DEF Alerted
    <3>2. /\ whReq'[t] = [at |-> "placing", alert |-> whReq'[t].alert, token |-> whReq'[t].token,
                          since |-> whReq'[t].since, n |-> whReq'[t].n, read |-> whReq'[t].read]
          /\ whReq'[t].alert = alert /\ whReq'[t].n = whReq[t].n /\ whReq'[t].since = {r}
          /\ whReq'[t].read = {r} /\ whReq'[t].token = whReq[t].token /\ whReq'[t].at = "placing"
      BY <1>2, <1>3, <2>3 DEF new
    <3>3. alert.symbol \in r.allowed /\ Quantity(alert, r) > 0
      BY <1>3, <1>5
    <3>4. whReq'[t].alert.symbol \in r.allowed /\ Quantity(whReq'[t].alert, r) > 0
      BY <3>2, <3>3
    <3> HIDE DEF alert
    <3> QED
      BY <1>1, <1>2, <3>1, <3>2, <3>4 DEF Alerted, Quantity
  <2> QED
    BY <1>1, <2>3, <2>4, <2>5, <2>6, StepOfOne DEF UserAt, AlertAt
<1> QED
  BY <1>4, <1>5 DEF BodyRead

LEMMA SendOrderKeeps ==
    ASSUME WebhookInv, NEW t \in WhThreads, SendOrder(t)
    PROVE  WebhookInv'
<1> DEFINE alert == whReq[t].alert
           order == [n |-> whReq[t].n, symbol |-> alert.symbol, side |-> alert.side,
                     qty |-> Quantity(alert, RowOf(whReq[t])), token |-> whReq[t].token,
                     since |-> whReq[t].since]
<1>1. /\ WhTypes /\ ComesOnce /\ Alerted(t) /\ whReq[t].at = "placing" /\ IsFiniteSet(whOrders)
      /\ UNCHANGED <<whRow, whPast, whCount>> /\ WhDone(t)
  BY DEF WebhookInv, SendOrder, SameRow, AlertAt
<1>2. CASE whOrders' = whOrders
  BY <1>1, <1>2, DoneKeeps DEF SameRow
<1>3. CASE whOrders' = whOrders \cup {order}
  <2>1. /\ whReq' = [u \in WhThreads |-> whReq'[u]]
        /\ whReq'[t] = WhFree /\ \A u \in WhThreads \ {t} : whReq'[u] = whReq[u]
    BY <1>1 DEF WhDone, WhTypes
  <2>2. whReq'[t].at = "idle"
    BY <2>1 DEF WhFree
  <2>3. WhTypes' /\ WebhookGrows
    BY <1>1, <2>1, <2>2 DEF WhTypes, WebhookRow, WebhookGrows
  <2>4. \A u \in WhThreads : /\ whReq'[u].at \in UserAt => UserAsks(u)'
                             /\ whReq'[u].at \in AlertAt => Alerted(u)'
    <3>1. ASSUME NEW u \in WhThreads \ {t}
          PROVE  (whReq'[u].at \in UserAt => UserAsks(u)') /\ (whReq'[u].at \in AlertAt => Alerted(u)')
      BY <2>1, <2>3, <3>1, RequestKept
    <3> QED
      BY <2>2, <3>1 DEF UserAt, AlertAt
  <2>5. order.n = whReq[t].n /\ order.n \in Nat /\ order.n < whCount.requests
    BY <1>1 DEF Alerted
  <2>5a. PICK placed : placed = order
    OBVIOUS
  <2>6. Obeys(placed)'
    <3>1. PICK r \in whPast :
            /\ whReq[t].since = {r} /\ whReq[t].read = {r} /\ r.enabled /\ r.token = whReq[t].token
            /\ alert.symbol \in r.allowed /\ Quantity(alert, r) > 0
      BY <1>1 DEF Alerted
    <3>2. RowOf(whReq[t]) = r
      BY <3>1 DEF RowOf
    <3>3. WebhookRow(r) /\ alert \in WhAlerts
      BY <1>1 DEF WhTypes, Alerted
    <3>4. Quantity(alert, r) \in Int /\ Quantity(alert, r) <= r.max /\ r.max <= WhQtyCap
      BY <3>3, QuantityIsLeast DEF WebhookRow
    <3>5. /\ order.qty = Quantity(alert, r) /\ order.since = {r} /\ order.token = r.token
          /\ order.symbol = alert.symbol
      BY <3>1, <3>2
    <3> HIDE DEF order
    <3> QED
      BY <1>1, <2>5a, <3>1, <3>4, <3>5 DEF Obeys
  <2> HIDE DEF order
  <2>7. ComesOnce'
    <3>1. \A u, v \in WhThreads :
            whReq'[u].at \in AlertAt /\ whReq'[v].at \in AlertAt /\ whReq'[u].n = whReq'[v].n => u = v
      BY <1>1, <2>1, <2>2 DEF ComesOnce, AlertAt
    <3>2. \A u \in WhThreads, o \in whOrders' : whReq'[u].at \in AlertAt => whReq'[u].n # o.n
      BY <1>1, <1>3, <2>1, <2>2, <2>5 DEF ComesOnce, AlertAt
    <3>3. \A o, p \in whOrders' : o.n = p.n => o = p
      BY <1>1, <1>3, <2>5 DEF ComesOnce, AlertAt
    <3>4. \A o \in whOrders' : o.n \in Nat /\ o.n < whCount'.requests
      BY <1>1, <1>3, <2>5 DEF ComesOnce
    <3> QED
      BY <3>1, <3>2, <3>3, <3>4 DEF ComesOnce
  <2>8. IsFiniteSet(whOrders')
    BY <1>1, <1>3, FS_AddElement
  <2>9. \A o \in whOrders' : Obeys(o)'
    BY <1>3, <2>3, <2>5a, <2>6, OrdersKept
  <2> QED
    BY <2>3, <2>4, <2>7, <2>8, <2>9 DEF WebhookInv
<1> QED
  BY <1>2, <1>3 DEF SendOrder

-----------------------------------------------------------------------------
\* No alert has been received yet.
LEMMA InitWebhookInv == WhInit => WebhookInv
<1> SUFFICES ASSUME WhInit PROVE WebhookInv
  OBVIOUS
<1>1. \A t \in WhThreads : whReq[t].at = "idle"
  BY DEF WhInit, WhFree
<1>2. WhTypes
  BY <1>1 DEF WhInit, WhTypes
<1>3. IsFiniteSet(whOrders) /\ ComesOnce /\ \A o \in whOrders : Obeys(o)
  BY <1>1, FS_EmptySet DEF WhInit, ComesOnce, AlertAt
<1> QED
  BY <1>1, <1>2, <1>3 DEF WebhookInv, UserAt, AlertAt

LEMMA StepWebhookInv == WebhookInv /\ [WhNext]_whVars => WebhookInv'
<1> SUFFICES ASSUME WebhookInv, [WhNext]_whVars PROVE WebhookInv'
  OBVIOUS
<1>1. ASSUME NEW t \in WhThreads, NEW body \in WhPuts, Begin(t, "put", body) PROVE WebhookInv'
  BY <1>1, BeginKeeps
<1>2. ASSUME NEW t \in WhThreads, NEW op \in {"get", "rotate"}, Begin(t, op, <<>>) PROVE WebhookInv'
  BY <1>2, BeginKeeps
<1>3. ASSUME NEW t \in WhThreads, CreateConfig(t) PROVE WebhookInv'
  BY <1>3, CreateKeeps
<1>4. ASSUME NEW t \in WhThreads, PutWebhook(t) PROVE WebhookInv'
  BY <1>4, PutKeeps
<1>5. ASSUME NEW t \in WhThreads, GetConfig(t) PROVE WebhookInv'
  BY <1>5, DoneKeeps DEF GetConfig
<1>6. ASSUME NEW t \in WhThreads, RotateToken(t) PROVE WebhookInv'
  BY <1>6, RotateKeeps
<1>7. ASSUME NEW t \in WhThreads, NEW token, NEW alert \in WhAlerts, AlertComes(t, token, alert)
      PROVE  WebhookInv'
  BY <1>7, AlertComesKeeps
<1>8. ASSUME NEW t \in WhThreads, BodyRead(t) PROVE WebhookInv'
  BY <1>8, BodyReadKeeps
<1>9. ASSUME NEW t \in WhThreads, SendOrder(t) PROVE WebhookInv'
  BY <1>9, SendOrderKeeps
<1>10. CASE UNCHANGED whVars
  <2>1. WhTypes' /\ WebhookGrows
    BY <1>10 DEF whVars, WebhookInv, WhTypes, WebhookGrows, WebhookRow
  <2>2. \A u \in WhThreads : /\ whReq'[u].at \in UserAt => UserAsks(u)'
                             /\ whReq'[u].at \in AlertAt => Alerted(u)'
    BY <1>10, <2>1, RequestKept DEF whVars
  <2>3. ComesOnce'
    BY <1>10, <2>1, OnceKept DEF whVars
  <2>4. IsFiniteSet(whOrders') /\ \A o \in whOrders' : Obeys(o)'
    BY <1>10, <2>1, OrdersKept DEF whVars, WebhookInv
  <2> QED
    BY <2>1, <2>2, <2>3, <2>4 DEF WebhookInv
<1> QED
  BY <1>1, <1>2, <1>3, <1>4, <1>5, <1>6, <1>7, <1>8, <1>9, <1>10 DEF WhNext

\* Orders of one number are one, so there are as many numbers as orders.
LEMMA InvObeys == WebhookInv => WebhookObeys
<1> SUFFICES ASSUME WebhookInv PROVE WebhookObeys
  OBVIOUS
<1> DEFINE number == [o \in whOrders |-> o.n]
<1>1. IsFiniteSet(whOrders) /\ \A o, p \in whOrders : o.n = p.n => o = p
  BY DEF WebhookInv, ComesOnce
<1>2. number \in Bijection(whOrders, {o.n : o \in whOrders})
  BY <1>1 DEF Bijection, Injection, Surjection, IsInjective
<1>3. Cardinality({o.n : o \in whOrders}) = Cardinality(whOrders)
  BY <1>1, <1>2, FS_Bijection DEF ExistsBijection
<1> QED
  BY <1>3 DEF WebhookObeys, WebhookInv, Obeys

\* However the row of a webhook is changed, rotated or disabled while alerts wait for their
\* bodies, in any number of threads, every order obeys the one row that was there when its
\* alert came, and no alert places two (tradingview_webhook.py).
THEOREM OrdersObeyOneRow == WhSpec => []WebhookObeys
<1>1. WhInit => WebhookInv
  BY InitWebhookInv
<1>2. WebhookInv /\ [WhNext]_whVars => WebhookInv'
  BY StepWebhookInv
<1>3. WebhookInv => WebhookObeys
  BY InvObeys
<1> QED
  BY <1>1, <1>2, <1>3, PTL DEF WhSpec

-----------------------------------------------------------------------------
(* Backtests *)

HeldOk(p) ==
    /\ p.entry \in btPoints /\ Enters(Window(p.entry)) /\ p.entryPrice = LastIn(Window(p.entry))
    /\ \A c \in btPoints : c > p.entry => ~LeavesAt(Window(c), p)

TradeOk(trade) ==
    /\ trade.entry \in btPoints /\ Enters(Window(trade.entry))
    /\ trade.entryPrice = LastIn(Window(trade.entry))
    /\ \A c \in btPoints :
          c > trade.entry /\ (trade.reason = "end_of_window" \/ c < trade.exit) => ~LeavesAt(Window(c), trade)
    /\ trade.reason # "end_of_window" =>
          /\ trade.exit \in btPoints /\ LeavesAt(Window(trade.exit), trade)
          /\ trade.exitPrice = LastIn(Window(trade.exit))
          /\ trade.reason = "stop_loss" <=> HitsStop(trade.exitPrice, trade)

Covers(trade, c) == trade.entry <= c /\ (trade.reason = "end_of_window" \/ c <= trade.exit)
Covered(c) == (\E p \in btHeld : p.entry <= c) \/ (\E k \in DOMAIN btTrades : Covers(btTrades[k], c))

BtTypes ==
    /\ btReq \in BtRequests /\ btCursor \in Nat /\ btPoints \subseteq 0 .. btCursor
    /\ \E T : btTrades \in Seq(T)
    /\ \A p, q \in btHeld : p = q
    /\ btAt \in {"asked", "refused"} => btHeld = {} /\ btTrades = <<>> /\ btPoints = {}
    /\ \A k \in DOMAIN btTrades : btTrades[k].reason = "end_of_window" => btAt = "done"

BtInv ==
    /\ BtTypes
    /\ \A p \in btHeld : HeldOk(p)
    /\ \A k \in DOMAIN btTrades : TradeOk(btTrades[k])
    /\ \A k \in DOMAIN btTrades : \A p \in btHeld : btTrades[k].exit <= p.entry
    /\ \A j, k \in DOMAIN btTrades : j < k =>
          btTrades[j].reason # "end_of_window" /\ btTrades[j].exit <= btTrades[k].entry
    /\ \A c \in btPoints : Enters(Window(c)) => Covered(c)
    /\ NothingIsLeftOpen

LEMMA InvIsTheBots == BtInv => BacktestIsTheBots
BY DEF BtInv, BtTypes, BacktestIsTheBots, TradesFollowTheRules, OneAtATime, HeldOk, TradeOk, Covered, Covers, Entered

\* What is known at a time does not change while the walk goes on.
LEMMA SameWindow ==
    ASSUME UNCHANGED <<btRows, btReq>>, NEW c, NEW p, NEW x
    PROVE  /\ Window(c)' = Window(c)
           /\ LastIn(Window(c))' = LastIn(Window(c))
           /\ Enters(Window(c))' <=> Enters(Window(c))
           /\ LeavesAt(Window(c), p)' <=> LeavesAt(Window(c), p)
           /\ HitsStop(x, p)' <=> HitsStop(x, p)
<1>1. Window(c)' = Window(c)
  BY DEF Window
<1>2. \A S : LastIn(S)' = LastIn(S) /\ Bars(S)' = Bars(S)
  BY DEF LastIn, Bars, Bar
<1>3. \A S, b : Closing(S, b)' = Closing(S, b)
  BY DEF Closing, LastIn, Bar
<1>4. \A S : Trend(S)' = Trend(S)
  BY <1>2, <1>3 DEF Trend
<1>5. \A y, q : HitsStop(y, q)' <=> HitsStop(y, q)
  BY DEF HitsStop
<1> HIDE DEF Window
<1> QED
  BY <1>1, <1>2, <1>4, <1>5 DEF Enters, LeavesAt

\* A trade is held against the price it was entered at.
LEMMA SamePrice ==
    ASSUME NEW p, NEW q, p.entryPrice = q.entryPrice, NEW S, NEW x
    PROVE  (LeavesAt(S, p) <=> LeavesAt(S, q)) /\ (HitsStop(x, p) <=> HitsStop(x, q))
BY DEF LeavesAt, HitsStop

-----------------------------------------------------------------------------
\* A backtest that has fetched nothing has done nothing.
LEMMA BtInitInv == BtInit => BtInv
<1> SUFFICES ASSUME BtInit PROVE BtInv
  OBVIOUS
<1>1. BtTypes
  <2>1. btCursor \in Nat /\ btReq \in BtRequests
    BY BacktestAssumption DEF BtInit, BtStart
  <2>2. <<>> \in Seq({})
    OBVIOUS
  <2> QED
    BY <2>1, <2>2 DEF BtInit, BtStart, BtTypes
<1> QED
  BY <1>1 DEF BtInit, BtStart, BtInv, NothingIsLeftOpen

\* A trade stands, whatever the next decision point is.
LEMMA TradeKept ==
    ASSUME BtInv, UNCHANGED <<btRows, btReq>>,
           NEW k \in DOMAIN btTrades, NEW trade, trade = btTrades[k],
           btPoints' = btPoints \/ (btAt = "walking" /\ btPoints' = btPoints \cup {btCursor})
    PROVE  TradeOk(trade)'
<1>1. TradeOk(trade) /\ btPoints \subseteq 0 .. btCursor /\ btCursor \in Nat
  BY DEF BtInv, BtTypes
<1>2. \A c, x : /\ Window(c)' = Window(c)
                /\ LastIn(Window(c))' = LastIn(Window(c))
                /\ Enters(Window(c))' <=> Enters(Window(c))
                /\ LeavesAt(Window(c), trade)' <=> LeavesAt(Window(c), trade)
                /\ HitsStop(x, trade)' <=> HitsStop(x, trade)
  BY SameWindow
<1>3. ASSUME btAt = "walking" PROVE trade.reason # "end_of_window" /\ trade.exit \in 0 .. btCursor
  BY <1>1, <1>3 DEF BtInv, BtTypes, TradeOk
<1>4. \A c \in btPoints' : c \in btPoints \/ (btAt = "walking" /\ c = btCursor)
  OBVIOUS
<1>5. ASSUME NEW c \in btPoints', c > trade.entry, trade.reason = "end_of_window" \/ c < trade.exit
      PROVE  ~LeavesAt(Window(c), trade)'
  <2>1. c \in btPoints
    BY <1>1, <1>3, <1>4, <1>5
  <2> QED
    BY <1>1, <1>2, <1>5, <2>1 DEF TradeOk
<1> HIDE DEF Window, LastIn, Enters, LeavesAt, HitsStop
<1>6. /\ trade.entry \in btPoints' /\ Enters(Window(trade.entry))'
      /\ trade.entryPrice = LastIn(Window(trade.entry))'
  BY <1>1, <1>2 DEF TradeOk
<1>7. trade.reason # "end_of_window" =>
        /\ trade.exit \in btPoints' /\ LeavesAt(Window(trade.exit), trade)'
        /\ trade.exitPrice = LastIn(Window(trade.exit))'
        /\ trade.reason = "stop_loss" <=> HitsStop(trade.exitPrice, trade)'
  BY <1>1, <1>2 DEF TradeOk
<1> QED
  BY <1>5, <1>6, <1>7 DEF TradeOk

\* So does the position that is held on to.
LEMMA HeldKept ==
    ASSUME BtInv, UNCHANGED <<btRows, btReq>>, NEW p \in btHeld,
           \/ btPoints' = btPoints
           \/ btPoints' = btPoints \cup {btCursor} /\ ~LeavesAt(Window(btCursor), p)
    PROVE  HeldOk(p)'
<1>1. HeldOk(p)
  BY DEF BtInv
<1>2. \A c : /\ LastIn(Window(c))' = LastIn(Window(c))
             /\ Enters(Window(c))' <=> Enters(Window(c))
             /\ LeavesAt(Window(c), p)' <=> LeavesAt(Window(c), p)
  BY SameWindow
<1>3. \A c \in btPoints' : c > p.entry => ~LeavesAt(Window(c), p)'
  BY <1>1, <1>2 DEF HeldOk
<1>4. p.entry \in btPoints' /\ Enters(Window(p.entry))' /\ p.entryPrice = LastIn(Window(p.entry))'
  BY <1>1, <1>2 DEF HeldOk
<1> QED
  BY <1>3, <1>4 DEF HeldOk

LEMMA FetchKeeps == ASSUME BtInv, FetchRows PROVE BtInv'
<1>1. btHeld' = {} /\ btTrades' = <<>> /\ btPoints' = {} /\ btAt' \in {"refused", "walking"}
  BY DEF BtInv, BtTypes, FetchRows
<1>2. UNCHANGED <<btReq, btCursor>>
  BY DEF FetchRows
<1>3. BtTypes'
  <2>1. <<>> \in Seq({})
    OBVIOUS
  <2> QED
    BY <1>1, <1>2, <2>1 DEF BtInv, BtTypes
<1> QED
  BY <1>1, <1>3 DEF BtInv, NothingIsLeftOpen

\* A turn of the walk changes nothing else than these.
LEMMA WalkMoves ==
    ASSUME BtInv, Walk
    PROVE  /\ btAt = "walking" /\ UNCHANGED <<btAt, btReq, btRows>>
           /\ btCursor \in Nat /\ btCursor' \in Nat /\ btCursor <= btCursor'
           /\ btPoints' \subseteq 0 .. btCursor' /\ NothingIsLeftOpen'
           /\ btPoints' = btPoints \/ btPoints' = btPoints \cup {btCursor}
           /\ \A k \in DOMAIN btTrades : btTrades[k].reason # "end_of_window" /\ btTrades[k].exit \in 0 .. btCursor
<1>1. btAt = "walking" /\ UNCHANGED <<btAt, btReq, btRows>>
  BY DEF Walk
<1>2. btCursor \in Nat /\ btReq.step \in Nat /\ btPoints \subseteq 0 .. btCursor
  BY BacktestAssumption DEF BtInv, BtTypes
<1>3. btCursor' \in Nat /\ btCursor <= btCursor'
  BY <1>2 DEF Walk, Advanced
<1>4. btPoints' = btPoints \/ btPoints' = btPoints \cup {btCursor}
  BY DEF Walk, Decide
<1>5. \A k \in DOMAIN btTrades : btTrades[k].reason # "end_of_window" /\ btTrades[k].exit \in 0 .. btCursor
  BY <1>1, <1>2 DEF BtInv, BtTypes, TradeOk
<1>6. btPoints' \subseteq 0 .. btCursor'
  <2>1. ASSUME NEW c \in btPoints' PROVE c \in 0 .. btCursor'
    <3>1. c \in btPoints \/ c = btCursor
      BY <1>4
    <3>2. CASE c \in btPoints
      BY <1>2, <1>3, <3>2
    <3>3. CASE c = btCursor
      BY <1>2, <1>3, <3>3
    <3> QED
      BY <3>1, <3>2, <3>3
  <2> QED
    BY <2>1
<1>7. NothingIsLeftOpen'
  BY <1>1 DEF NothingIsLeftOpen
<1> QED
  BY <1>1, <1>2, <1>3, <1>4, <1>5, <1>6, <1>7

\* A turn that leaves the position and the trades alone: it goes by without a decision, or
\* the decision is to stay.
LEMMA StayKeeps ==
    ASSUME BtInv, Walk, UNCHANGED <<btHeld, btTrades>>,
           \/ btPoints' = btPoints
           \/ /\ btPoints' = btPoints \cup {btCursor}
              /\ IF btHeld = {} THEN ~Enters(Window(btCursor))
                 ELSE \A p \in btHeld : ~LeavesAt(Window(btCursor), p)
    PROVE  BtInv'
<1>1. /\ btAt = "walking" /\ UNCHANGED <<btAt, btReq, btRows>>
      /\ btCursor' \in Nat /\ btPoints' \subseteq 0 .. btCursor' /\ NothingIsLeftOpen'
  BY WalkMoves
<1>2. BtTypes'
  BY <1>1 DEF BtInv, BtTypes
<1>3. \A p \in btHeld' : HeldOk(p)'
  BY <1>1, HeldKept
<1>4. \A k \in DOMAIN btTrades' : TradeOk(btTrades[k])'
  <2>1. TAKE k \in DOMAIN btTrades'
  <2>2. PICK trade : trade = btTrades[k]
    OBVIOUS
  <2>3. TradeOk(trade)'
    BY <1>1, <2>2, TradeKept
  <2>4. btTrades'[k] = trade
    BY <2>2
  <2> QED
    BY <2>3, <2>4 DEF TradeOk
<1>5. \A c \in btPoints' : Enters(Window(c))' => Covered(c)'
  <2>1. \A c : (Enters(Window(c))' <=> Enters(Window(c))) /\ (Covered(c)' <=> Covered(c))
    BY <1>1, SameWindow DEF Covered, Covers
  <2>2. \A c \in btPoints : Enters(Window(c)) => Covered(c)
    BY DEF BtInv
  <2>3. ASSUME btHeld # {} PROVE Covered(btCursor)
    <3>1. PICK p \in btHeld : TRUE
      BY <2>3
    <3>2. p.entry \in 0 .. btCursor
      BY <3>1 DEF BtInv, BtTypes, HeldOk
    <3>3. p.entry <= btCursor
      BY <3>2, WalkMoves
    <3> QED
      BY <3>1, <3>3 DEF Covered
  <2> QED
    BY <2>1, <2>2, <2>3
<1> QED
  BY <1>1, <1>2, <1>3, <1>4, <1>5 DEF BtInv

\* A position is entered where there was none.
LEMMA EnterKeeps ==
    ASSUME BtInv, Walk, btHeld = {}, Enters(Window(btCursor)), btPoints' = btPoints \cup {btCursor},
           btHeld' = {[entry |-> btCursor, entryPrice |-> LastIn(Window(btCursor))]}, UNCHANGED btTrades
    PROVE  BtInv'
<1>1. /\ btAt = "walking" /\ UNCHANGED <<btAt, btReq, btRows>>
      /\ btCursor' \in Nat /\ btPoints' \subseteq 0 .. btCursor' /\ NothingIsLeftOpen' /\ btCursor \in Nat
      /\ \A k \in DOMAIN btTrades : btTrades[k].reason # "end_of_window" /\ btTrades[k].exit \in 0 .. btCursor
  BY WalkMoves
<1>2. PICK p : p = [entry |-> btCursor, entryPrice |-> LastIn(Window(btCursor))]
  OBVIOUS
<1>3. btHeld' = {p} /\ p.entry = btCursor /\ p.entryPrice = LastIn(Window(btCursor))
  BY <1>2
<1>4. \A c : /\ LastIn(Window(c))' = LastIn(Window(c))
             /\ Enters(Window(c))' <=> Enters(Window(c))
  BY <1>1, SameWindow
<1>5. HeldOk(p)'
  <2>1. btPoints \subseteq 0 .. btCursor
    BY DEF BtInv, BtTypes
  <2>2. \A c \in btPoints' : ~(c > p.entry)
    BY <1>1, <1>3, <2>1
  <2>3. p.entry \in btPoints' /\ Enters(Window(p.entry))' /\ p.entryPrice = LastIn(Window(p.entry))'
    BY <1>3, <1>4
  <2> QED
    BY <2>2, <2>3 DEF HeldOk
<1>6. BtTypes'
  BY <1>1, <1>3 DEF BtInv, BtTypes
<1>7. \A k \in DOMAIN btTrades' : TradeOk(btTrades[k])'
  <2>1. TAKE k \in DOMAIN btTrades'
  <2>2. PICK trade : trade = btTrades[k]
    OBVIOUS
  <2>3. TradeOk(trade)'
    BY <1>1, <2>2, TradeKept
  <2>4. btTrades'[k] = trade
    BY <2>2
  <2> QED
    BY <2>3, <2>4 DEF TradeOk
<1>8. \A k \in DOMAIN btTrades' : \A q \in btHeld' : btTrades'[k].exit <= q.entry
  BY <1>1, <1>3
<1>9. \A c \in btPoints' : Enters(Window(c))' => Covered(c)'
  <2>1. \A c : Covered(c) => Covered(c)'
    BY DEF Covered, Covers
  <2>2. \A c \in btPoints : Enters(Window(c)) => Covered(c)
    BY DEF BtInv
  <2>3. ASSUME NEW c \in btPoints', Enters(Window(c))' PROVE Covered(c)'
    <3>1. Enters(Window(c))
      BY <1>4, <2>3
    <3>2. CASE c \in btPoints
      <4>1. Covered(c)
        BY <2>2, <3>1, <3>2
      <4> QED
        BY <4>1 DEF Covered, Covers
    <3>3. CASE c = btCursor
      BY <1>1, <1>3, <3>3 DEF Covered
    <3> QED
      BY <3>2, <3>3
  <2> QED
    BY <2>3
<1>10. \A p1 \in btHeld' : HeldOk(p1)'
  BY <1>3, <1>5
<1>11. \A j, k \in DOMAIN btTrades' : j < k =>
          btTrades'[j].reason # "end_of_window" /\ btTrades'[j].exit <= btTrades'[k].entry
  BY DEF BtInv
<1> QED
  BY <1>1, <1>6, <1>7, <1>8, <1>9, <1>10, <1>11 DEF BtInv

\* What is appended to trades that follow the rules, and follows them, leaves trades that do.
LEMMA TradesGrow ==
    ASSUME BtInv, NEW T, btTrades \in Seq(T), NEW new, btTrades' = Append(btTrades, new), btHeld' = {},
           UNCHANGED <<btRows, btReq>>,
           btPoints' = btPoints \/ (btAt = "walking" /\ btPoints' = btPoints \cup {btCursor}),
           \A k \in DOMAIN btTrades : btTrades[k].reason # "end_of_window" /\ btTrades[k].exit <= new.entry,
           TradeOk(new)'
    PROVE  /\ \E U : btTrades' \in Seq(U)
           /\ \A k \in DOMAIN btTrades' : TradeOk(btTrades[k])'
           /\ \A j, k \in DOMAIN btTrades' : j < k =>
                btTrades'[j].reason # "end_of_window" /\ btTrades'[j].exit <= btTrades'[k].entry
           /\ DOMAIN btTrades' = DOMAIN btTrades \cup {Len(btTrades) + 1}
           /\ \A k \in DOMAIN btTrades : btTrades'[k] = btTrades[k]
           /\ btTrades'[Len(btTrades) + 1] = new
<1>1. btTrades' \in Seq(T \cup {new})
  <2>1. btTrades \in Seq(T \cup {new})
    OBVIOUS
  <2> QED
    BY <2>1
<1>2. /\ DOMAIN btTrades = 1 .. Len(btTrades) /\ Len(btTrades) \in Nat
      /\ DOMAIN btTrades' = 1 .. Len(btTrades) + 1
      /\ \A k \in 1 .. Len(btTrades) : btTrades'[k] = btTrades[k]
      /\ btTrades'[Len(btTrades) + 1] = new
  OBVIOUS
<1>3. \A k \in DOMAIN btTrades' : k \in DOMAIN btTrades \/ k = Len(btTrades) + 1
  BY <1>2
<1>4. ASSUME NEW k \in DOMAIN btTrades' PROVE TradeOk(btTrades[k])'
  <2>1. CASE k \in DOMAIN btTrades
    <3>1. PICK trade : trade = btTrades[k]
      OBVIOUS
    <3>2. TradeOk(trade)'
      BY <2>1, <3>1, TradeKept
    <3>3. btTrades'[k] = trade
      BY <1>2, <2>1, <3>1
    <3> QED
      BY <3>2, <3>3 DEF TradeOk
  <2>2. CASE k = Len(btTrades) + 1
    <3>1. btTrades'[k] = new
      BY <1>2, <2>2
    <3> QED
      BY <3>1 DEF TradeOk
  <2> QED
    BY <1>3, <2>1, <2>2
<1>5. ASSUME NEW j \in DOMAIN btTrades', NEW k \in DOMAIN btTrades', j < k
      PROVE  btTrades'[j].reason # "end_of_window" /\ btTrades'[j].exit <= btTrades'[k].entry
  <2>1. j \in DOMAIN btTrades /\ btTrades'[j] = btTrades[j]
    BY <1>2, <1>5
  <2>2. CASE k \in DOMAIN btTrades
    BY <1>2, <1>5, <2>1, <2>2 DEF BtInv
  <2>3. CASE k = Len(btTrades) + 1
    BY <1>2, <2>1, <2>3
  <2> QED
    BY <1>3, <2>2, <2>3
<1> QED
  BY <1>1, <1>2, <1>4, <1>5

\* A position is left, and is a trade.
LEMMA LeaveKeeps ==
    ASSUME BtInv, Walk, NEW p \in btHeld, LeavesAt(Window(btCursor), p), btHeld' = {},
           btPoints' = btPoints \cup {btCursor},
           btTrades' = Append(btTrades, TradeOf(p, btCursor, LastIn(Window(btCursor)),
                   IF HitsStop(LastIn(Window(btCursor)), p) THEN "stop_loss" ELSE "trend_flip"))
    PROVE  BtInv'
<1>1. /\ btAt = "walking" /\ UNCHANGED <<btAt, btReq, btRows>>
      /\ btCursor' \in Nat /\ btPoints' \subseteq 0 .. btCursor' /\ NothingIsLeftOpen' /\ btCursor \in Nat
      /\ \A k \in DOMAIN btTrades : btTrades[k].reason # "end_of_window" /\ btTrades[k].exit \in 0 .. btCursor
  BY WalkMoves
<1>2. PICK new : new = TradeOf(p, btCursor, LastIn(Window(btCursor)),
                   IF HitsStop(LastIn(Window(btCursor)), p) THEN "stop_loss" ELSE "trend_flip")
  OBVIOUS
<1>3. /\ new.entry = p.entry /\ new.entryPrice = p.entryPrice /\ new.exit = btCursor
      /\ new.exitPrice = LastIn(Window(btCursor)) /\ new.reason # "end_of_window"
      /\ new.reason = "stop_loss" <=> HitsStop(LastIn(Window(btCursor)), p)
  BY <1>2 DEF TradeOf
<1>4. HeldOk(p) /\ btPoints \subseteq 0 .. btCursor
  BY DEF BtInv, BtTypes
<1>5. \A c, x : /\ LastIn(Window(c))' = LastIn(Window(c))
                /\ Enters(Window(c))' <=> Enters(Window(c))
                /\ LeavesAt(Window(c), new)' <=> LeavesAt(Window(c), p)
                /\ HitsStop(x, new)' <=> HitsStop(x, p)
  BY <1>1, <1>3, SameWindow, SamePrice
<1>6. TradeOk(new)'
  <2>1. ASSUME NEW c \in btPoints', c > new.entry, new.reason = "end_of_window" \/ c < new.exit
        PROVE  ~LeavesAt(Window(c), new)'
    <3>1. c \in btPoints
      BY <1>1, <1>3, <2>1
    <3> QED
      BY <1>3, <1>4, <1>5, <2>1, <3>1 DEF HeldOk
  <2>2. /\ new.entry \in btPoints' /\ Enters(Window(new.entry))'
        /\ new.entryPrice = LastIn(Window(new.entry))'
    BY <1>3, <1>4, <1>5 DEF HeldOk
  <2>3. new.exit \in btPoints' /\ LeavesAt(Window(new.exit), new)'
    BY <1>3, <1>5
  <2>4. new.exitPrice = LastIn(Window(new.exit))'
    BY <1>3, <1>5
  <2>5. new.reason = "stop_loss" <=> HitsStop(new.exitPrice, new)'
    BY <1>3, <1>5
  <2> HIDE DEF Window, LastIn, Enters, LeavesAt, HitsStop
  <2> QED
    BY <2>1, <2>2, <2>3, <2>4, <2>5 DEF TradeOk
<1>7. PICK T : btTrades \in Seq(T)
  BY DEF BtInv, BtTypes
<1>8. btTrades' = Append(btTrades, new)
  BY <1>2
<1>9. \A k \in DOMAIN btTrades : btTrades[k].exit <= new.entry
  BY <1>3 DEF BtInv
<1>10. /\ \E U : btTrades' \in Seq(U)
       /\ \A k \in DOMAIN btTrades' : TradeOk(btTrades[k])'
       /\ \A j, k \in DOMAIN btTrades' : j < k =>
            btTrades'[j].reason # "end_of_window" /\ btTrades'[j].exit <= btTrades'[k].entry
       /\ DOMAIN btTrades' = DOMAIN btTrades \cup {Len(btTrades) + 1}
       /\ \A k \in DOMAIN btTrades : btTrades'[k] = btTrades[k]
       /\ btTrades'[Len(btTrades) + 1] = new
  BY <1>1, <1>6, <1>7, <1>8, <1>9, TradesGrow
<1>11. BtTypes'
  <2>1. \A k \in DOMAIN btTrades' : btTrades'[k].reason # "end_of_window"
    BY <1>1, <1>3, <1>10
  <2>2. btReq' \in BtRequests
    BY <1>1 DEF BtInv, BtTypes
  <2> QED
    BY <1>1, <1>10, <2>1, <2>2 DEF BtTypes
<1>12. ASSUME NEW c \in btPoints', Enters(Window(c))' PROVE Covered(c)'
  <2>1. c \in 0 .. btCursor /\ (c \in btPoints \/ c = btCursor)
    BY <1>1, <1>4
  <2>2. p.entry \in 0 .. btCursor
    BY <1>4 DEF HeldOk
  <2>3. CASE p.entry <= c
    <3>1. Covers(new, c)
      BY <1>3, <2>1, <2>3 DEF Covers
    <3> QED
      BY <1>10, <3>1 DEF Covered, Covers
  <2>4. CASE ~(p.entry <= c)
    <3>1. c \in btPoints
      BY <2>1, <2>2, <2>4
    <3>2. Covered(c)
      BY <1>5, <1>12, <3>1 DEF BtInv
    <3>3. \A q \in btHeld : q = p
      BY DEF BtInv, BtTypes
    <3>4. PICK k \in DOMAIN btTrades : Covers(btTrades[k], c)
      BY <2>4, <3>2, <3>3 DEF Covered
    <3> QED
      BY <1>10, <3>4 DEF Covered, Covers
  <2> QED
    BY <2>3, <2>4
<1> QED
  BY <1>1, <1>10, <1>11, <1>12 DEF BtInv

LEMMA WalkKeeps == ASSUME BtInv, Walk PROVE BtInv'
<1>1. CASE Window(btCursor) = {}
  BY <1>1, StayKeeps DEF Walk
<1>2. CASE Window(btCursor) # {}
  <2>1. Decide(Window(btCursor))
    BY <1>2 DEF Walk
  <2>2. btPoints' = btPoints \cup {btCursor}
    BY <2>1 DEF Decide
  <2>3. CASE /\ btHeld = {} /\ Enters(Window(btCursor))
             /\ btHeld' = {[entry |-> btCursor, entryPrice |-> LastIn(Window(btCursor))]}
             /\ UNCHANGED btTrades
    BY <2>2, <2>3, EnterKeeps
  <2>4. CASE \E p \in btHeld :
             /\ LeavesAt(Window(btCursor), p)
             /\ btHeld' = {}
             /\ btTrades' = Append(btTrades, TradeOf(p, btCursor, LastIn(Window(btCursor)),
                   IF HitsStop(LastIn(Window(btCursor)), p) THEN "stop_loss" ELSE "trend_flip"))
    BY <2>2, <2>4, LeaveKeeps
  <2>5. CASE /\ IF btHeld = {} THEN ~Enters(Window(btCursor))
                ELSE \A p \in btHeld : ~LeavesAt(Window(btCursor), p)
             /\ UNCHANGED <<btHeld, btTrades>>
    BY <2>2, <2>5, StayKeeps
  <2> QED
    BY <2>1, <2>3, <2>4, <2>5 DEF Decide
<1> QED
  BY <1>1, <1>2

\* What is left at the end is a trade that was never to be left.
LEMMA ConcludesKeeps == ASSUME BtInv, Concludes PROVE BtInv'
<1>1. /\ btAt = "walking" /\ btAt' = "done" /\ btHeld' = {} /\ btTrades' = Ending
      /\ UNCHANGED <<btReq, btRows, btCursor, btPoints>>
  BY DEF Concludes
<1>2. /\ btCursor' \in Nat /\ btPoints' \subseteq 0 .. btCursor' /\ btReq' \in BtRequests
      /\ \A k \in DOMAIN btTrades : btTrades[k].reason # "end_of_window"
  BY <1>1 DEF BtInv, BtTypes
<1>3. \A c : /\ Enters(Window(c))' <=> Enters(Window(c))
             /\ LastIn(Window(c))' = LastIn(Window(c))
  BY <1>1, SameWindow
<1>4. PICK T : btTrades \in Seq(T)
  BY DEF BtInv, BtTypes
<1>5. CASE btHeld = {}
  <2>1. btTrades' = btTrades
    BY <1>1, <1>5 DEF Ending
  <2>2. BtTypes'
    BY <1>1, <1>2, <1>4, <2>1 DEF BtTypes
  <2>3. \A k \in DOMAIN btTrades' : TradeOk(btTrades[k])'
    <3>1. TAKE k \in DOMAIN btTrades'
    <3>2. PICK trade : trade = btTrades[k]
      OBVIOUS
    <3>3. TradeOk(trade)'
      BY <1>1, <2>1, <3>2, TradeKept
    <3>4. btTrades'[k] = trade
      BY <2>1, <3>2
    <3> QED
      BY <3>3, <3>4 DEF TradeOk
  <2>4. ASSUME NEW c \in btPoints', Enters(Window(c))' PROVE Covered(c)'
    <3>1. Covered(c)
      BY <1>1, <1>3, <2>4 DEF BtInv
    <3> QED
      BY <1>1, <1>5, <2>1, <3>1 DEF Covered, Covers
  <2>5. NothingIsLeftOpen'
    BY <1>1, <1>2, <2>1 DEF NothingIsLeftOpen
  <2>6. \A j, k \in DOMAIN btTrades' : j < k =>
            btTrades'[j].reason # "end_of_window" /\ btTrades'[j].exit <= btTrades'[k].entry
    BY <2>1 DEF BtInv
  <2> QED
    BY <1>1, <2>2, <2>3, <2>4, <2>5, <2>6 DEF BtInv
<1>6. CASE btHeld # {}
  <2>1. PICK p \in btHeld : TRUE
    BY <1>6
  <2>2. HeldOk(p) /\ \A q \in btHeld : q = p
    BY DEF BtInv, BtTypes
  <2>3. PICK new : new = TradeOf(p, btRows[Len(btRows)].time, btRows[Len(btRows)].price, "end_of_window")
    OBVIOUS
  <2>4. /\ new.entry = p.entry /\ new.entryPrice = p.entryPrice /\ new.reason = "end_of_window"
        /\ new.exit = btRows[Len(btRows)].time /\ new.exitPrice = btRows[Len(btRows)].price
    BY <2>3 DEF TradeOf
  <2>5. btTrades' = Append(btTrades, new)
    <3>1. (CHOOSE q \in btHeld : TRUE) = p
      BY <2>1, <2>2
    <3> QED
      BY <1>1, <1>6, <2>3, <3>1 DEF Ending
  <2>6. TradeOk(new)'
    <3>1. ASSUME NEW c \in btPoints', c > new.entry PROVE ~LeavesAt(Window(c), new)'
      <4>1. ~LeavesAt(Window(c), p)
        BY <1>1, <2>2, <2>4, <3>1 DEF HeldOk
      <4> QED
        BY <1>1, <2>4, <4>1, SameWindow, SamePrice
    <3>2. /\ new.entry \in btPoints' /\ Enters(Window(new.entry))'
          /\ new.entryPrice = LastIn(Window(new.entry))'
      BY <1>1, <1>3, <2>2, <2>4 DEF HeldOk
    <3> HIDE DEF Window, LastIn, Enters, LeavesAt, HitsStop
    <3> QED
      BY <2>4, <3>1, <3>2 DEF TradeOk
  <2>7. \A k \in DOMAIN btTrades : btTrades[k].exit <= new.entry
    BY <2>1, <2>4 DEF BtInv
  <2>8. /\ \E U : btTrades' \in Seq(U)
        /\ \A k \in DOMAIN btTrades' : TradeOk(btTrades[k])'
        /\ \A j, k \in DOMAIN btTrades' : j < k =>
             btTrades'[j].reason # "end_of_window" /\ btTrades'[j].exit <= btTrades'[k].entry
        /\ DOMAIN btTrades' = DOMAIN btTrades \cup {Len(btTrades) + 1}
        /\ \A k \in DOMAIN btTrades : btTrades'[k] = btTrades[k]
        /\ btTrades'[Len(btTrades) + 1] = new
    BY <1>1, <1>2, <1>4, <2>5, <2>6, <2>7, TradesGrow
  <2>9. BtTypes'
    BY <1>1, <1>2, <2>8 DEF BtTypes
  <2>10. NothingIsLeftOpen'
    BY <1>1, <1>2, <2>4, <2>8 DEF NothingIsLeftOpen
  <2>11. ASSUME NEW c \in btPoints', Enters(Window(c))' PROVE Covered(c)'
    <3>1. Covered(c)
      BY <1>1, <1>3, <2>11 DEF BtInv
    <3>2. CASE p.entry <= c
      <4>1. Covers(new, c)
        BY <2>4, <3>2 DEF Covers
      <4> QED
        BY <2>8, <4>1 DEF Covered, Covers
    <3>3. CASE ~(p.entry <= c)
      <4>1. PICK k \in DOMAIN btTrades : Covers(btTrades[k], c)
        BY <2>2, <3>1, <3>3 DEF Covered
      <4> QED
        BY <2>8, <4>1 DEF Covered, Covers
    <3> QED
      BY <3>2, <3>3
  <2> QED
    BY <1>1, <2>8, <2>9, <2>10, <2>11 DEF BtInv
<1> QED
  BY <1>5, <1>6

LEMMA BtStutterKeeps == ASSUME BtInv, UNCHANGED btVars PROVE BtInv'
<1>1. BtTypes'
  BY DEF BtInv, BtTypes, btVars
<1>2. \A p \in btHeld' : HeldOk(p)'
  BY HeldKept DEF btVars
<1>3. \A k \in DOMAIN btTrades' : TradeOk(btTrades[k])'
  <2>1. TAKE k \in DOMAIN btTrades'
  <2>2. PICK trade : trade = btTrades[k]
    OBVIOUS
  <2>3. TradeOk(trade)'
    BY <2>2, TradeKept DEF btVars
  <2>4. btTrades'[k] = trade
    BY <2>2 DEF btVars
  <2> QED
    BY <2>3, <2>4 DEF TradeOk
<1>4. ASSUME NEW c \in btPoints', Enters(Window(c))' PROVE Covered(c)'
  <2>1. Covered(c)
    BY <1>4, SameWindow DEF BtInv, btVars
  <2> QED
    BY <2>1 DEF Covered, Covers, btVars
<1>5. /\ \A j, k \in DOMAIN btTrades' : j < k =>
            btTrades'[j].reason # "end_of_window" /\ btTrades'[j].exit <= btTrades'[k].entry
      /\ \A k \in DOMAIN btTrades' : \A p \in btHeld' : btTrades'[k].exit <= p.entry
      /\ NothingIsLeftOpen'
  BY DEF BtInv, btVars, NothingIsLeftOpen
<1> QED
  BY <1>1, <1>2, <1>3, <1>4, <1>5 DEF BtInv

\* backtest.py walks the tape as bot_engine.py ticks: whatever the prints, the trades of a finished backtest
\* are those the bot's rules make at the same points, and it ends with nothing open.
THEOREM BacktestsAreTheBots == BtSpec => []BacktestIsTheBots
<1>1. BtInit => BtInv
  BY BtInitInv
<1>2. BtInv /\ [BtNext]_btVars => BtInv'
  BY FetchKeeps, WalkKeeps, ConcludesKeeps, BtStutterKeeps DEF BtNext
<1>3. BtInv => BacktestIsTheBots
  BY InvIsTheBots
<1> QED
  BY <1>1, <1>2, <1>3, PTL DEF BtSpec


-----------------------------------------------------------------------------
(* The broker's fills and the orders table *)

IsSeq(s) == \E n \in Nat : s = [i \in 1 .. n |-> s[i]]

Carrying == {"gate", "route", "match", "wait", "fold", "commit", "filled", "refused"}
Fields == {"pc", "by", "sym", "side", "qty", "price", "limit", "at", "fills", "via", "row",
           "read", "working", "pos"}

PaperOrders == {k \in DOMAIN orders : orders[k].via = "paper"}
Booked == {k \in DOMAIN orders : orders[k].via = "broker"}

\* A request whose order is with the broker, or whose fill is not recorded yet.
Holds(r) == r.pc \in {"wait", "fold", "commit"} /\ r.at # 0

\* What a thread knows of the tables stays true of them until it is done.
RequestOk(r) ==
    /\ r.pc \in Carrying \cup {"idle", "cancel", "put"}
    /\ r.pc \in Carrying => DOMAIN r = Fields
    /\ r.pc \in {"gate", "route", "match"} => r.at = 0
    /\ r.pc = "wait" => r.at # 0
    /\ r.pc = "match" => r.working \subseteq PaperOrders
    /\ r.pc = "cancel" => r.order \in PaperOrders
    /\ r.pc \in {"fold", "commit"} /\ r.at = 0 => r.via = "paper" /\ Matched(r.fills) \subseteq PaperOrders
    /\ r.pc \in {"fold", "commit"} /\ r.at # 0 =>
          /\ r.via = "broker" /\ exchange[r.at].status = "filled"
          /\ r.fills = OwnFill(r, exchange[r.at].price)
    /\ Holds(r) =>
          /\ r.at \in DOMAIN exchange /\ r.at \notin lost
          /\ exchange[r.at].sym = r.sym /\ exchange[r.at].side = r.side /\ exchange[r.at].qty = r.qty
          /\ \A k \in Booked : orders[k].at # r.at

\* A broker's order in the table is one that the broker filled.
OrderOk(o) ==
    /\ DOMAIN o = {"sym", "side", "qty", "limit", "status", "price", "via", "by", "at"}
    /\ o.via \in {"paper", "broker"}
    /\ o.via = "broker" =>
          /\ o.at \in DOMAIN exchange /\ o.at \notin lost
          /\ o.status = "filled" /\ exchange[o.at].status = "filled"
          /\ o.sym = exchange[o.at].sym /\ o.side = exchange[o.at].side
          /\ o.qty = exchange[o.at].qty /\ o.price = exchange[o.at].price

TablesOk ==
    /\ IsSeq(orders) /\ IsSeq(exchange)
    /\ req = [t \in Threads |-> req[t]]
    /\ \A i \in DOMAIN exchange : DOMAIN exchange[i] = {"sym", "side", "qty", "status", "price"}

\* Every order of the broker is lost, with a thread, or booked; and it is one of these once.
EachOnce ==
    /\ \A i \in DOMAIN exchange :
          i \in lost \/ (\E t \in Threads : Holds(req[t]) /\ req[t].at = i) \/ \E k \in Booked : orders[k].at = i
    /\ \A t, u \in Threads : Holds(req[t]) /\ Holds(req[u]) /\ req[t].at = req[u].at => t = u
    /\ \A j, k \in Booked : orders[j].at = orders[k].at => j = k

BrokerInv ==
    /\ TablesOk /\ lost \subseteq DOMAIN exchange
    /\ \A t \in Threads : RequestOk(req[t])
    /\ \A k \in DOMAIN orders : OrderOk(orders[k])
    /\ EachOnce

\* What Append makes of a sequence.
LEMMA Appended ==
    ASSUME NEW s, NEW x, IsSeq(s)
    PROVE  /\ Len(s) \in Nat /\ DOMAIN s = 1 .. Len(s)
           /\ IsSeq(Append(s, x)) /\ Len(Append(s, x)) = Len(s) + 1
           /\ DOMAIN Append(s, x) = 1 .. (Len(s) + 1)
           /\ Append(s, x)[Len(s) + 1] = x
           /\ \A i \in 1 .. Len(s) : Append(s, x)[i] = s[i]
<1>1. PICK n \in Nat : s = [i \in 1 .. n |-> s[i]]
  BY DEF IsSeq
<1> DEFINE M == {s[i] : i \in 1 .. n} \cup {x}
<1>2. s \in Seq(M) /\ Len(s) = n /\ DOMAIN s = 1 .. n
  <2>1. \A i \in 1 .. n : s[i] \in M
    OBVIOUS
  <2> HIDE DEF M
  <2>2. s \in [1 .. n -> M]
    BY <1>1, <2>1
  <2> QED
    BY <1>1, <2>2
<1>3. x \in M
  OBVIOUS
<1> HIDE DEF M
<1>4. Append(s, x) \in Seq(M) /\ Len(Append(s, x)) = n + 1
  BY <1>2, <1>3
<1> DEFINE a == Append(s, x)
<1>5. a[n + 1] = x /\ \A i \in 1 .. n : a[i] = s[i]
  BY <1>2, <1>3
<1> HIDE DEF a
<1>6. a \in [1 .. (n + 1) -> M]
  <2>1. a \in Seq(M) /\ Len(a) = n + 1
    BY <1>4 DEF a
  <2> QED
    BY <2>1
<1>7. n + 1 \in Nat /\ DOMAIN a = 1 .. (n + 1) /\ a = [i \in 1 .. (n + 1) |-> a[i]]
  BY <1>6
<1>8. IsSeq(a)
  BY <1>7 DEF IsSeq
<1>9. Len(s) = n /\ Len(a) = n + 1 /\ DOMAIN s = 1 .. n
  BY <1>2, <1>4 DEF a
<1>10. IsSeq(Append(s, x)) /\ Len(Append(s, x)) = Len(s) + 1 /\ DOMAIN Append(s, x) = 1 .. (Len(s) + 1)
  BY <1>7, <1>8, <1>9 DEF a
<1>11. Append(s, x)[Len(s) + 1] = x /\ \A i \in 1 .. Len(s) : Append(s, x)[i] = s[i]
  BY <1>5, <1>9 DEF a
<1> QED
  BY <1>9, <1>10, <1>11

\* A step of one thread that is not with the broker, and does not go there.
LEMMA MoveKeeps ==
    ASSUME BrokerInv, NEW t \in Threads, NEW x,
           req' = [req EXCEPT ![t] = x], UNCHANGED <<orders, exchange, lost>>,
           ~Holds(req[t]), RequestOk(x), ~Holds(x)
    PROVE  BrokerInv'
<1>1. req'[t] = x /\ (\A u \in Threads : u # t => req'[u] = req[u]) /\ req' = [u \in Threads |-> req'[u]]
  BY DEF BrokerInv, TablesOk
<1>2. TablesOk'
  BY <1>1 DEF BrokerInv, TablesOk, IsSeq
<1>3. ASSUME NEW u \in Threads PROVE RequestOk(req[u])'
  <2>1. PICK r : r = req'[u]
    OBVIOUS
  <2>2. RequestOk(r)
    BY <1>1, <2>1 DEF BrokerInv
  <2>3. RequestOk(r)'
    BY <2>2 DEF RequestOk, PaperOrders, Booked
  <2> QED
    BY <2>1, <2>3
<1>4. \A k \in DOMAIN orders' : OrderOk(orders[k])'
  BY DEF BrokerInv, OrderOk
<1>5. EachOnce'
  BY <1>1 DEF BrokerInv, EachOnce, Booked, Holds
<1>6. lost' \subseteq DOMAIN exchange'
  BY DEF BrokerInv
<1> QED
  BY <1>2, <1>3, <1>4, <1>5, <1>6 DEF BrokerInv

\* A step of a thread that stays with the broker.
LEMMA AwaitKeeps ==
    ASSUME BrokerInv, NEW t \in Threads, NEW x,
           req' = [req EXCEPT ![t] = x], UNCHANGED <<orders, exchange, lost>>,
           Holds(req[t]), RequestOk(x), Holds(x), x.at = req[t].at
    PROVE  BrokerInv'
<1>1. req'[t] = x /\ (\A u \in Threads : u # t => req'[u] = req[u]) /\ req' = [u \in Threads |-> req'[u]]
  BY DEF BrokerInv, TablesOk
<1>2. TablesOk' /\ lost' \subseteq DOMAIN exchange'
  BY <1>1 DEF BrokerInv, TablesOk, IsSeq
<1>3. ASSUME NEW u \in Threads PROVE RequestOk(req[u])'
  <2>1. PICK r : r = req'[u]
    OBVIOUS
  <2>2. RequestOk(r)
    BY <1>1, <2>1 DEF BrokerInv
  <2>3. RequestOk(r)'
    BY <2>2 DEF RequestOk, PaperOrders, Booked
  <2> QED
    BY <2>1, <2>3
<1>4. \A k \in DOMAIN orders' : OrderOk(orders[k])'
  BY DEF BrokerInv, OrderOk
<1>5. EachOnce'
  <2>1. \A u \in Threads : /\ Holds(req[u])' <=> Holds(req[u])
                           /\ Holds(req[u]) => req'[u].at = req[u].at
    BY <1>1 DEF Holds
  <2> QED
    BY <2>1 DEF BrokerInv, EachOnce, Booked
<1> QED
  BY <1>2, <1>3, <1>4, <1>5 DEF BrokerInv

\* A request that ends in an error leaves its order with the broker behind.
LEMMA AbandonKeeps ==
    ASSUME BrokerInv, NEW t \in Threads, NEW x,
           req' = [req EXCEPT ![t] = x], UNCHANGED <<orders, exchange>>, lost' = lost \cup {req[t].at},
           Holds(req[t]), x.pc \in {"idle", "refused"}, x.pc = "refused" => DOMAIN x = Fields
    PROVE  BrokerInv'
<1>1. req'[t] = x /\ (\A u \in Threads : u # t => req'[u] = req[u]) /\ req' = [u \in Threads |-> req'[u]]
  BY DEF BrokerInv, TablesOk
<1>2. TablesOk'
  BY <1>1 DEF BrokerInv, TablesOk, IsSeq
<1>3. \A u \in Threads : RequestOk(req[u])'
  <2>1. RequestOk(req[t])'
    BY <1>1 DEF RequestOk, Holds, Carrying
  <2>2. ASSUME NEW u \in Threads, u # t PROVE RequestOk(req[u])'
    <3>1. PICK r : r = req[u]
      OBVIOUS
    <3>2. RequestOk(r) /\ (Holds(r) => r.at # req[t].at)
      BY <2>2, <3>1 DEF BrokerInv, EachOnce
    <3>3. RequestOk(r)'
      BY <3>2 DEF RequestOk, PaperOrders, Booked
    <3> QED
      BY <1>1, <2>2, <3>1, <3>3
  <2> QED
    BY <2>1, <2>2
<1>4. ASSUME NEW k \in DOMAIN orders' PROVE OrderOk(orders[k])'
  <2>1. OrderOk(orders[k]) /\ (orders[k].via = "broker" => orders[k].at # req[t].at)
    BY DEF BrokerInv, RequestOk, Booked
  <2> QED
    BY <2>1 DEF OrderOk
<1>5. EachOnce'
  <2>1. /\ \A u \in Threads : u # t => req'[u] = req[u]
        /\ ~Holds(req[t])'
    BY <1>1 DEF Holds
  <2> QED
    BY <2>1 DEF BrokerInv, EachOnce, Booked, Holds
<1>6. lost' \subseteq DOMAIN exchange'
  BY DEF BrokerInv, RequestOk
<1> QED
  BY <1>2, <1>3, <1>4, <1>5, <1>6 DEF BrokerInv

\* The broker accepts an order; its thread waits for the fill, or has lost the answer.
LEMMA SubmitKeeps ==
    ASSUME BrokerInv, NEW t \in Threads, NEW x, NEW e,
           req' = [req EXCEPT ![t] = x], UNCHANGED orders, exchange' = Append(exchange, e),
           ~Holds(req[t]), DOMAIN e = {"sym", "side", "qty", "status", "price"},
           \/ /\ lost' = lost /\ x.pc = "wait" /\ x.at = Len(exchange) + 1
              /\ DOMAIN x = Fields /\ e.sym = x.sym /\ e.side = x.side /\ e.qty = x.qty
           \/ /\ lost' = lost \cup {Len(exchange) + 1}
              /\ x.pc \in {"idle", "refused"} /\ (x.pc = "refused" => DOMAIN x = Fields)
    PROVE  BrokerInv'
<1> DEFINE n == Len(exchange)
<1>1. req'[t] = x /\ (\A u \in Threads : u # t => req'[u] = req[u]) /\ req' = [u \in Threads |-> req'[u]]
  BY DEF BrokerInv, TablesOk
<1>2. /\ n \in Nat /\ DOMAIN exchange = 1 .. n /\ DOMAIN exchange' = 1 .. (n + 1) /\ IsSeq(exchange')
      /\ exchange'[n + 1] = e /\ \A i \in DOMAIN exchange : exchange'[i] = exchange[i]
  BY Appended DEF BrokerInv, TablesOk
<1> HIDE DEF n
<1>3. /\ n + 1 \notin DOMAIN exchange /\ n + 1 \notin lost /\ n + 1 # 0
      /\ DOMAIN exchange \subseteq DOMAIN exchange'
      /\ \A i \in DOMAIN exchange' : i = n + 1 \/ i \in DOMAIN exchange
      /\ n + 1 \in DOMAIN exchange'
      /\ \A i \in DOMAIN exchange : i # n + 1
  BY <1>2 DEF BrokerInv
<1>4. TablesOk'
  <2>1. \A i \in DOMAIN exchange' : DOMAIN exchange'[i] = {"sym", "side", "qty", "status", "price"}
    BY <1>2, <1>3 DEF BrokerInv, TablesOk
  <2>2. IsSeq(orders)'
    BY DEF BrokerInv, TablesOk, IsSeq
  <2>3. IsSeq(exchange)'
    BY <1>2 DEF IsSeq
  <2> QED
    BY <1>1, <2>1, <2>2, <2>3 DEF TablesOk
<1>5. \A i \in lost' : i \in lost \/ i = n + 1
  BY DEF n
<1>6. ASSUME NEW k \in DOMAIN orders' PROVE OrderOk(orders[k])'
  <2>1. OrderOk(orders[k])
    BY DEF BrokerInv
  <2> QED
    BY <1>2, <1>3, <1>5, <2>1 DEF OrderOk
<1>7. \A u \in Threads : RequestOk(req[u])'
  <2>1. RequestOk(req[t])'
    <3>1. \A k \in Booked' : orders'[k].at # n + 1
      BY <1>3 DEF BrokerInv, OrderOk, Booked
    <3> QED
      BY <1>1, <1>2, <1>3, <3>1 DEF RequestOk, Holds, Carrying, n
  <2>2. ASSUME NEW u \in Threads, u # t PROVE RequestOk(req[u])'
    <3>1. PICK r : r = req[u]
      OBVIOUS
    <3>2. RequestOk(r)
      BY <3>1 DEF BrokerInv
    <3>3. r.pc \in {"fold", "commit"} /\ r.at # 0 => exchange'[r.at] = exchange[r.at]
      BY <1>2, <3>2 DEF RequestOk, Holds
    <3>4. RequestOk(r)'
      BY <1>2, <1>3, <1>5, <3>2, <3>3 DEF RequestOk, PaperOrders, Booked, Holds, OwnFill
    <3> QED
      BY <1>1, <2>2, <3>1, <3>4
  <2> QED
    BY <2>1, <2>2
<1>8. EachOnce'
  <2>1. \A u \in Threads : u # t => req'[u] = req[u] /\ (Holds(req[u]) => req[u].at # n + 1)
    BY <1>1, <1>3 DEF BrokerInv, RequestOk
  <2>2. n + 1 \in lost' \/ (Holds(req[t])' /\ req'[t].at = n + 1)
    BY <1>1, <1>3 DEF Holds, n
  <2>3. Holds(req[t])' => req'[t].at = n + 1
    BY <1>1 DEF Holds, n
  <2>4. lost \subseteq lost'
    OBVIOUS
  <2>5. \A i \in DOMAIN exchange' :
           i \in lost' \/ (\E u \in Threads : Holds(req[u])' /\ req'[u].at = i) \/ \E k \in Booked' : orders'[k].at = i
    BY <1>3, <2>1, <2>2, <2>4 DEF BrokerInv, EachOnce, Booked, Holds
  <2>6. \A u, v \in Threads : Holds(req[u])' /\ Holds(req[v])' /\ req'[u].at = req'[v].at => u = v
    BY <2>1, <2>3 DEF BrokerInv, EachOnce, Holds
  <2>7. \A j, k \in Booked' : orders'[j].at = orders'[k].at => j = k
    BY DEF BrokerInv, EachOnce, Booked
  <2> QED
    BY <2>5, <2>6, <2>7 DEF EachOnce
<1>9. lost' \subseteq DOMAIN exchange'
  BY <1>3, <1>5 DEF BrokerInv
<1> QED
  BY <1>4, <1>6, <1>7, <1>8, <1>9 DEF BrokerInv

\* Orders of the internal matcher are added or change; and a thread that is not with the
\* broker takes a step.
LEMMA PaperKeeps ==
    ASSUME BrokerInv, NEW t \in Threads, NEW x,
           req' = [req EXCEPT ![t] = x], UNCHANGED <<exchange, lost>>,
           ~Holds(req[t]), x.pc \in {"idle", "filled"}, x.pc = "filled" => DOMAIN x = Fields,
           IsSeq(orders'), DOMAIN orders \subseteq DOMAIN orders',
           \A k \in DOMAIN orders :
              \/ orders'[k] = orders[k]
              \/ orders[k].via = "paper" /\ orders'[k].via = "paper" /\ DOMAIN orders'[k] = DOMAIN orders[k],
           \A k \in DOMAIN orders' \ DOMAIN orders :
              /\ orders'[k].via = "paper"
              /\ DOMAIN orders'[k] = {"sym", "side", "qty", "limit", "status", "price", "via", "by", "at"}
    PROVE  BrokerInv'
<1>1. req'[t] = x /\ (\A u \in Threads : u # t => req'[u] = req[u]) /\ req' = [u \in Threads |-> req'[u]]
  BY DEF BrokerInv, TablesOk
<1>2. TablesOk' /\ lost' \subseteq DOMAIN exchange'
  BY <1>1 DEF BrokerInv, TablesOk, IsSeq
<1>3. ASSUME NEW k \in DOMAIN orders' PROVE OrderOk(orders[k])'
  <2>1. CASE k \in DOMAIN orders
    <3>1. OrderOk(orders[k])
      BY <2>1 DEF BrokerInv
    <3> QED
      BY <2>1, <3>1 DEF OrderOk
  <2>2. CASE k \notin DOMAIN orders
    BY <2>2 DEF OrderOk
  <2> QED
    BY <2>1, <2>2
<1>4. Booked' = Booked /\ (\A k \in Booked : orders'[k] = orders[k]) /\ PaperOrders \subseteq PaperOrders'
  <2>1. \A k \in DOMAIN orders : orders'[k].via = orders[k].via
    OBVIOUS
  <2>2. \A k \in Booked : orders'[k] = orders[k]
    BY DEF Booked
  <2>3. Booked \subseteq Booked' /\ PaperOrders \subseteq PaperOrders'
    BY <2>1 DEF Booked, PaperOrders
  <2>4. Booked' \subseteq Booked
    BY <2>1 DEF Booked
  <2> QED
    BY <2>2, <2>3, <2>4
<1>5. \A u \in Threads : RequestOk(req[u])'
  <2>1. RequestOk(req[t])'
    BY <1>1 DEF RequestOk, Holds, Carrying
  <2>2. ASSUME NEW u \in Threads, u # t PROVE RequestOk(req[u])'
    <3>1. PICK r : r = req[u]
      OBVIOUS
    <3>2. RequestOk(r)
      BY <3>1 DEF BrokerInv
    <3>3. RequestOk(r)'
      BY <1>4, <3>2 DEF RequestOk
    <3> QED
      BY <1>1, <2>2, <3>1, <3>3
  <2> QED
    BY <2>1, <2>2
<1>6. EachOnce'
  <2>1. \A u \in Threads : /\ Holds(req[u])' <=> Holds(req[u])
                           /\ Holds(req[u]) => req'[u].at = req[u].at
    BY <1>1 DEF Holds
  <2> QED
    BY <1>4, <2>1 DEF BrokerInv, EachOnce
<1> QED
  BY <1>2, <1>3, <1>5, <1>6 DEF BrokerInv

\* A fill of the broker is committed.
LEMMA BookKeeps ==
    ASSUME BrokerInv, NEW t \in Threads, NEW x, NEW o,
           req' = [req EXCEPT ![t] = x], UNCHANGED <<exchange, lost>>, orders' = Append(orders, o),
           Holds(req[t]), x.pc \in {"idle", "filled"}, x.pc = "filled" => DOMAIN x = Fields,
           OrderOk(o), o.via = "broker", o.at = req[t].at
    PROVE  BrokerInv'
<1> DEFINE n == Len(orders)
<1>1. req'[t] = x /\ (\A u \in Threads : u # t => req'[u] = req[u]) /\ req' = [u \in Threads |-> req'[u]]
  BY DEF BrokerInv, TablesOk
<1>2. /\ n \in Nat /\ DOMAIN orders = 1 .. n /\ DOMAIN orders' = 1 .. (n + 1) /\ IsSeq(orders')
      /\ orders'[n + 1] = o /\ \A k \in DOMAIN orders : orders'[k] = orders[k]
  BY Appended DEF BrokerInv, TablesOk
<1> HIDE DEF n
<1>3. /\ n + 1 \notin DOMAIN orders /\ DOMAIN orders \subseteq DOMAIN orders' /\ n + 1 \in DOMAIN orders'
      /\ \A k \in DOMAIN orders' : k = n + 1 \/ k \in DOMAIN orders
  BY <1>2
<1>4. TablesOk' /\ lost' \subseteq DOMAIN exchange'
  BY <1>1, <1>2 DEF BrokerInv, TablesOk, IsSeq
<1>5. ASSUME NEW k \in DOMAIN orders' PROVE OrderOk(orders[k])'
  <2>1. PICK p : p = orders'[k]
    OBVIOUS
  <2>2. OrderOk(p)
    BY <1>2, <1>3, <2>1 DEF BrokerInv
  <2>3. OrderOk(p)'
    BY <2>2 DEF OrderOk
  <2> QED
    BY <2>1, <2>3
<1>6. Booked' = Booked \cup {n + 1} /\ (\A k \in Booked : orders'[k] = orders[k] /\ k # n + 1) /\ PaperOrders \subseteq PaperOrders'
  BY <1>2, <1>3 DEF Booked, PaperOrders
<1>7. \A u \in Threads : RequestOk(req[u])'
  <2>1. RequestOk(req[t])'
    BY <1>1 DEF RequestOk, Holds, Carrying
  <2>2. ASSUME NEW u \in Threads, u # t PROVE RequestOk(req[u])'
    <3>1. PICK r : r = req[u]
      OBVIOUS
    <3>2. RequestOk(r) /\ (Holds(r) => r.at # o.at)
      BY <2>2, <3>1 DEF BrokerInv, EachOnce
    <3>3. \A k \in Booked' : (k \in Booked /\ orders'[k].at = orders[k].at) \/ orders'[k].at = o.at
      BY <1>2, <1>6
    <3>4. RequestOk(r)'
      BY <1>6, <3>2, <3>3 DEF RequestOk
    <3> QED
      BY <1>1, <2>2, <3>1, <3>4
  <2> QED
    BY <2>1, <2>2
<1>8. EachOnce'
  <2>1. \A u \in Threads : u # t => req'[u] = req[u]
    BY <1>1
  <2>2. ~Holds(req[t])'
    BY <1>1 DEF Holds
  <2>3. \A k \in Booked : orders[k].at # req[t].at
    BY DEF BrokerInv, RequestOk
  <2>4. orders'[n + 1].at = req[t].at
    BY <1>2
  <2>5. \A i \in DOMAIN exchange' :
           i \in lost' \/ (\E u \in Threads : Holds(req[u])' /\ req'[u].at = i) \/ \E k \in Booked' : orders'[k].at = i
    <3>1. \A u \in Threads : Holds(req[u]) /\ u # t => Holds(req[u])' /\ req'[u].at = req[u].at
      BY <2>1 DEF Holds
    <3>2. SUFFICES ASSUME NEW i \in DOMAIN exchange'
                   PROVE  \/ i \in lost'
                          \/ \E u \in Threads : Holds(req[u])' /\ req'[u].at = i
                          \/ \E k \in Booked' : orders'[k].at = i
      OBVIOUS
    <3>3. \/ i \in lost
          \/ \E u \in Threads : Holds(req[u]) /\ req[u].at = i
          \/ \E k \in Booked : orders[k].at = i
      BY DEF BrokerInv, EachOnce
    <3>4. CASE i \in lost
      BY <3>4
    <3>5. CASE \E u \in Threads : Holds(req[u]) /\ req[u].at = i
      <4>1. PICK u \in Threads : Holds(req[u]) /\ req[u].at = i
        BY <3>5
      <4>2. CASE u = t
        BY <1>6, <2>4, <4>1, <4>2
      <4>3. CASE u # t
        BY <3>1, <4>1, <4>3
      <4> QED
        BY <4>2, <4>3
    <3>6. CASE \E k \in Booked : orders[k].at = i
      BY <1>6, <3>6
    <3> QED
      BY <3>3, <3>4, <3>5, <3>6
  <2>6. \A u, v \in Threads : Holds(req[u])' /\ Holds(req[v])' /\ req'[u].at = req'[v].at => u = v
    <3>1. \A u \in Threads : Holds(req[u])' => Holds(req[u]) /\ req'[u].at = req[u].at
      BY <2>1, <2>2 DEF Holds
    <3>2. SUFFICES ASSUME NEW u \in Threads, NEW v \in Threads,
                          Holds(req[u])', Holds(req[v])', req'[u].at = req'[v].at
                   PROVE  u = v
      OBVIOUS
    <3>3. Holds(req[u]) /\ Holds(req[v]) /\ req[u].at = req[v].at
      BY <3>1, <3>2
    <3> QED
      BY <3>3 DEF BrokerInv, EachOnce
  <2>7. \A j, k \in Booked' : orders'[j].at = orders'[k].at => j = k
    <3>1. \A k \in Booked' : (k \in Booked /\ orders'[k].at = orders[k].at) \/ (k = n + 1 /\ orders'[k].at = req[t].at)
      BY <1>6, <2>4
    <3>2. \A j, k \in Booked : orders[j].at = orders[k].at => j = k
      BY DEF BrokerInv, EachOnce
    <3> QED
      BY <2>3, <3>1, <3>2, Zenon
  <2> QED
    BY <2>5, <2>6, <2>7 DEF EachOnce
<1> QED
  BY <1>4, <1>5, <1>7, <1>8 DEF BrokerInv

\* What the broker makes of a live order concerns none that is booked or about to be.
LEMMA BrokerDecidesKeeps == ASSUME BrokerInv, BrokerDecides PROVE BrokerInv'
<1>1. PICK i, e :
         /\ i \in DOMAIN exchange
         /\ exchange[i].status = "live" /\ exchange' = [exchange EXCEPT ![i] = e]
         /\ e.sym = exchange[i].sym /\ e.side = exchange[i].side /\ e.qty = exchange[i].qty
         /\ DOMAIN e = {"sym", "side", "qty", "status", "price"}
  <2>1. PICK i \in DOMAIN exchange :
          /\ exchange[i].status = "live"
          /\ \/ \E p \in Prices : exchange' = [exchange EXCEPT ![i] = [@ EXCEPT !.status = "filled", !.price = p]]
             \/ exchange' = [exchange EXCEPT ![i] = [@ EXCEPT !.status = "rejected"]]
    BY DEF BrokerDecides
  <2>2. DOMAIN exchange[i] = {"sym", "side", "qty", "status", "price"}
    BY DEF BrokerInv, TablesOk
  <2>3. CASE \E p \in Prices : exchange' = [exchange EXCEPT ![i] = [@ EXCEPT !.status = "filled", !.price = p]]
    <3>1. PICK p \in Prices : exchange' = [exchange EXCEPT ![i] = [@ EXCEPT !.status = "filled", !.price = p]]
      BY <2>3
    <3>2. PICK e : e = [exchange[i] EXCEPT !.status = "filled", !.price = p]
      OBVIOUS
    <3>3. exchange' = [exchange EXCEPT ![i] = e]
      BY <3>1, <3>2, Zenon
    <3>4. DOMAIN e = DOMAIN exchange[i] /\ e.sym = exchange[i].sym /\ e.side = exchange[i].side /\ e.qty = exchange[i].qty
      BY <2>2, <3>2
    <3> QED
      BY <2>1, <2>2, <3>3, <3>4
  <2>4. CASE exchange' = [exchange EXCEPT ![i] = [@ EXCEPT !.status = "rejected"]]
    <3>2. PICK e : e = [exchange[i] EXCEPT !.status = "rejected"]
      OBVIOUS
    <3>3. exchange' = [exchange EXCEPT ![i] = e]
      BY <2>4, <3>2, Zenon
    <3>4. DOMAIN e = DOMAIN exchange[i] /\ e.sym = exchange[i].sym /\ e.side = exchange[i].side /\ e.qty = exchange[i].qty
      BY <2>2, <3>2
    <3> QED
      BY <2>1, <2>2, <3>3, <3>4
  <2> QED
    BY <2>1, <2>3, <2>4
<1>2. UNCHANGED <<orders, req, lost>>
  BY DEF BrokerDecides
<1>3. /\ DOMAIN exchange' = DOMAIN exchange /\ exchange'[i] = e
      /\ \A j \in DOMAIN exchange : j # i => exchange'[j] = exchange[j]
  BY <1>1
<1>4. TablesOk' /\ lost' \subseteq DOMAIN exchange'
  <2>1. IsSeq(exchange)'
    <3>1. PICK n \in Nat : exchange = [j \in 1 .. n |-> exchange[j]]
      BY DEF BrokerInv, TablesOk, IsSeq
    <3>2. exchange' = [j \in 1 .. n |-> exchange'[j]]
      BY <1>1, <3>1
    <3> QED
      BY <3>2 DEF IsSeq
  <2>2. IsSeq(orders)' /\ req' = [t \in Threads |-> req'[t]]
    BY <1>2 DEF BrokerInv, TablesOk, IsSeq
  <2>3. \A j \in DOMAIN exchange' : DOMAIN exchange'[j] = {"sym", "side", "qty", "status", "price"}
    BY <1>1, <1>3 DEF BrokerInv, TablesOk
  <2> QED
    BY <1>2, <1>3, <2>1, <2>2, <2>3 DEF TablesOk, BrokerInv
<1>5. \A j \in DOMAIN exchange : exchange[j].status = "filled" => exchange'[j] = exchange[j]
  BY <1>1, <1>3
<1>6. ASSUME NEW k \in DOMAIN orders' PROVE OrderOk(orders[k])'
  <2>1. OrderOk(orders[k])
    BY <1>2 DEF BrokerInv
  <2> QED
    BY <1>2, <1>3, <1>5, <2>1 DEF OrderOk
<1>7. ASSUME NEW t \in Threads PROVE RequestOk(req[t])'
  <2>1. PICK r : r = req[t]
    OBVIOUS
  <2>2. RequestOk(r)
    BY <2>1 DEF BrokerInv
  <2>3. Holds(r) => /\ exchange'[r.at].sym = exchange[r.at].sym /\ exchange'[r.at].side = exchange[r.at].side
                    /\ exchange'[r.at].qty = exchange[r.at].qty
    BY <1>1, <1>3, <2>2 DEF RequestOk
  <2>4. r.pc \in {"fold", "commit"} /\ r.at # 0 => exchange'[r.at] = exchange[r.at]
    BY <1>5, <2>2 DEF RequestOk, Holds
  <2>5. RequestOk(r)'
    BY <1>2, <1>3, <2>2, <2>3, <2>4 DEF RequestOk, PaperOrders, Booked, Holds, OwnFill
  <2> QED
    BY <1>2, <2>1, <2>5
<1>8. EachOnce'
  BY <1>2, <1>3 DEF BrokerInv, EachOnce, Booked, Holds
<1> QED
  BY <1>4, <1>6, <1>7, <1>8 DEF BrokerInv

LEMMA IdleOk == RequestOk(Idle) /\ ~Holds(Idle)
  BY DEF Idle, RequestOk, Holds, Carrying

\* A request on its way to the gate.
LEMMA FreshOk ==
    ASSUME NEW by, NEW sym, NEW side, NEW qty, NEW price, NEW limit
    PROVE  LET r == FillRequest(by, sym, side, qty, price, limit)
           IN DOMAIN r = Fields /\ r.pc = "gate" /\ r.at = 0
  BY DEF FillRequest, Request, Fields

\* A request that has only just been checked holds nothing either.
LEMMA GateOk ==
    ASSUME NEW r, DOMAIN r = Fields, r.pc = "gate", r.at = 0
    PROVE  RequestOk(r) /\ ~Holds(r)
  BY DEF RequestOk, Holds, Carrying

\* A request that is answered.
LEMMA OverOk ==
    ASSUME NEW r, DOMAIN r = Fields, r.pc \in {"filled", "refused"}
    PROVE  RequestOk(r) /\ ~Holds(r)
  BY DEF RequestOk, Holds, Carrying

\* Return ends a request or hands its outcome on.
LEMMA Returned ==
    ASSUME NEW t \in Threads, NEW x, Return(t, x)
    PROVE  \E y \in {x, Idle} : req' = [req EXCEPT ![t] = y]
  BY DEF Return, Set

\* A refusal leaves a request that carries nothing.
LEMMA RefusedAs ==
    ASSUME BrokerInv, NEW t \in Threads, req[t].pc \in Carrying, Refused(t)
    PROVE  \E y : /\ req' = [req EXCEPT ![t] = y]
                  /\ y.pc \in {"idle", "refused"} /\ (y.pc = "refused" => DOMAIN y = Fields)
                  /\ RequestOk(y) /\ ~Holds(y)
<1> DEFINE x == [req[t] EXCEPT !.pc = "refused"]
<1>1. DOMAIN req[t] = Fields
  BY DEF BrokerInv, RequestOk
<1>2. x.pc = "refused" /\ DOMAIN x = Fields
  BY <1>1 DEF Fields
<1>3. RequestOk(x) /\ ~Holds(x)
  BY <1>2, OverOk
<1>4. PICK y \in {x, Idle} : req' = [req EXCEPT ![t] = y]
  BY Returned DEF Refused
<1> HIDE DEF x
<1>5. Idle.pc = "idle"
  BY DEF Idle
<1> QED
  BY <1>2, <1>3, <1>4, <1>5, IdleOk

\* Requests begin: a new order, a close by hand, one of the bot's.
LEMMA AskKeepsBroker ==
    ASSUME BrokerInv, NEW t \in Threads, At(t, "idle"), UNCHANGED <<orders, exchange, lost>>,
           NEW r, DOMAIN r = Fields, r.pc = "gate", r.at = 0, Set(t, r)
    PROVE  BrokerInv'
<1>1. RequestOk(r) /\ ~Holds(r)
  BY GateOk
<1>2. ~Holds(req[t]) /\ req' = [req EXCEPT ![t] = r]
  BY DEF At, Holds, Set
<1> QED
  BY <1>1, <1>2, MoveKeeps

LEMMA PlaceOrderKeeps == ASSUME BrokerInv, NEW t \in Threads, PlaceOrder(t) PROVE BrokerInv'
<1>1. PICK sym \in Symbols, side \in Sides, qty \in Quantities, ref \in Prices, limit \in Prices \cup {0} :
         Set(t, FillRequest("desk", sym, side, qty, ref, limit))
  BY DEF PlaceOrder
<1>2. PICK r : r = FillRequest("desk", sym, side, qty, ref, limit)
  OBVIOUS
<1>3. DOMAIN r = Fields /\ r.pc = "gate" /\ r.at = 0
  BY <1>2, FreshOk
<1>4. At(t, "idle") /\ UNCHANGED <<orders, exchange, lost>> /\ Set(t, r)
  BY <1>1, <1>2 DEF PlaceOrder
<1> QED
  BY <1>3, <1>4, AskKeepsBroker

LEMMA PassOrdersKeeps == ASSUME BrokerInv, PassOrders PROVE BrokerInv'
<1>1. Scheduler \in Threads
  BY BotAssumption
<1>2. At(Scheduler, "idle") /\ UNCHANGED <<orders, exchange, lost>>
  BY DEF PassOrders, Deciding
<1>3. PICK side, qty : Set(Scheduler, FillRequest("bot", Sym, side, qty, LastPrice, 0))
  BY DEF PassOrders
<1>4. PICK r : r = FillRequest("bot", Sym, side, qty, LastPrice, 0)
  OBVIOUS
<1>5. PICK sym, price : r = FillRequest("bot", sym, side, qty, price, 0)
  BY <1>4
<1>6. DOMAIN r = Fields /\ r.pc = "gate" /\ r.at = 0
  BY <1>5, FreshOk
<1> QED
  BY <1>1, <1>2, <1>3, <1>4, <1>6, AskKeepsBroker

LEMMA CloseReadKeeps == ASSUME BrokerInv, NEW t \in Threads, CloseRead(t) PROVE BrokerInv'
<1>1. PICK p \in held, last \in Prices :
         Set(t, [FillRequest("close", p.sym, "sell", p.qty, last, 0) EXCEPT !.pos = {p}])
  BY DEF CloseRead
<1>2. PICK q : q = FillRequest("close", p.sym, "sell", p.qty, last, 0)
  OBVIOUS
<1>3. DOMAIN q = Fields /\ q.pc = "gate" /\ q.at = 0
  BY <1>2, FreshOk
<1>4. PICK r : r = [q EXCEPT !.pos = {p}]
  OBVIOUS
<1>5. DOMAIN r = Fields /\ r.pc = "gate" /\ r.at = 0
  BY <1>3, <1>4 DEF Fields
<1>6. At(t, "idle") /\ UNCHANGED <<orders, exchange, lost>> /\ Set(t, r)
  BY <1>1, <1>2, <1>4 DEF CloseRead
<1> QED
  BY <1>5, <1>6, AskKeepsBroker

\* The gate, and a route that refuses.
LEMMA RefuseKeeps ==
    ASSUME BrokerInv, NEW t \in Threads, req[t].pc \in {"gate", "route"}, Refused(t),
           UNCHANGED <<orders, exchange, lost>>
    PROVE  BrokerInv'
<1>1. req[t].pc \in Carrying /\ ~Holds(req[t])
  BY DEF Carrying, Holds
<1>2. PICK y : req' = [req EXCEPT ![t] = y] /\ RequestOk(y) /\ ~Holds(y)
  BY <1>1, RefusedAs
<1> QED
  BY <1>1, <1>2, MoveKeeps

LEMMA GateKeeps == ASSUME BrokerInv, NEW t \in Threads, NEW reading, Gate(t, reading) PROVE BrokerInv'
<1>1. req[t].pc = "gate" /\ UNCHANGED <<orders, exchange, lost>>
  BY DEF Gate, At
<1>2. CASE Refused(t)
  BY <1>1, <1>2, RefuseKeeps
<1>3. CASE Goto(t, "route")
  <2>1. PICK r : r = [req[t] EXCEPT !.pc = "route"]
    OBVIOUS
  <2>2. DOMAIN req[t] = Fields /\ req[t].at = 0
    BY <1>1 DEF BrokerInv, RequestOk, Carrying
  <2>3. DOMAIN r = Fields /\ r.pc = "route" /\ r.at = 0
    BY <2>1, <2>2 DEF Fields
  <2>4. RequestOk(r) /\ ~Holds(r)
    BY <2>3 DEF RequestOk, Holds, Carrying
  <2>5. req' = [req EXCEPT ![t] = r] /\ ~Holds(req[t])
    BY <1>1, <1>3, <2>1 DEF Goto, Set, Holds
  <2> QED
    BY <1>1, <2>4, <2>5, MoveKeeps
<1> QED
  BY <1>2, <1>3 DEF Gate

LEMMA RouteRefusedKeeps == ASSUME BrokerInv, NEW t \in Threads, RouteRefused(t) PROVE BrokerInv'
<1>1. req[t].pc = "route" /\ UNCHANGED <<orders, exchange, lost>> /\ Refused(t)
  BY DEF RouteRefused, At
<1> QED
  BY <1>1, RefuseKeeps

\* A fill of one's own has no working order.
LEMMA OwnFillMatchesNone == ASSUME NEW r, NEW price PROVE Matched(OwnFill(r, price)) = {}
<1>1. OwnFill(r, price)[1].id = 0 /\ DOMAIN OwnFill(r, price) = {1}
  BY DEF OwnFill
<1> QED
  BY <1>1 DEF Matched

\* A thread that has a fill of the internal matcher.
LEMMA PaperFillOk ==
    ASSUME BrokerInv, NEW t \in Threads, req[t].pc \in {"route", "match"}, NEW fills,
           Filling(t, fills, "paper"), Matched(fills) \subseteq PaperOrders,
           UNCHANGED <<orders, exchange, lost>>
    PROVE  BrokerInv'
<1>1. PICK x : x = [req[t] EXCEPT !.pc = "fold", !.fills = fills, !.via = "paper"]
  OBVIOUS
<1>2. DOMAIN req[t] = Fields /\ req[t].at = 0
  BY DEF BrokerInv, RequestOk, Carrying
<1>3. DOMAIN x = Fields /\ x.pc = "fold" /\ x.at = 0 /\ x.fills = fills /\ x.via = "paper"
  BY <1>1, <1>2 DEF Fields
<1>4. RequestOk(x) /\ ~Holds(x)
  BY <1>3 DEF RequestOk, Holds, Carrying
<1>5. ~Holds(req[t]) /\ req' = [req EXCEPT ![t] = x]
  BY <1>1 DEF Holds, Filling, Set
<1> QED
  BY <1>4, <1>5, MoveKeeps

LEMMA RoutePaperKeeps == ASSUME BrokerInv, NEW t \in Threads, RoutePaper(t) PROVE BrokerInv'
<1>1. PICK price : Filling(t, OwnFill(req[t], price), "paper")
  BY DEF RoutePaper
<1>2. Matched(OwnFill(req[t], price)) \subseteq PaperOrders
  BY OwnFillMatchesNone
<1>3. req[t].pc \in {"route", "match"} /\ UNCHANGED <<orders, exchange, lost>>
  BY DEF RoutePaper, At
<1> QED
  BY <1>1, <1>2, <1>3, PaperFillOk

LEMMA MatchGateKeeps == ASSUME BrokerInv, NEW t \in Threads, MatchGate(t) PROVE BrokerInv'
<1> DEFINE hit == {i \in req[t].working : Crosses(orders[i].side, orders[i].limit, req[t].price)}
           fillOf(i) == [id |-> i, side |-> orders[i].side, qty |-> orders[i].qty,
                         price |-> orders[i].limit]
<1>1. req[t].pc = "match" /\ UNCHANGED <<orders, exchange, lost>> /\ ~Holds(req[t])
  BY DEF MatchGate, At, Holds
<1>2. CASE Set(t, Idle)
  BY <1>1, <1>2, IdleOk, MoveKeeps DEF Set
<1>3. CASE \E ids \in [1 .. Cardinality(hit) -> hit] :
              Filling(t, [i \in DOMAIN ids |-> fillOf(ids[i])], "paper")
  <2>1. PICK ids \in [1 .. Cardinality(hit) -> hit] :
           Filling(t, [i \in DOMAIN ids |-> fillOf(ids[i])], "paper")
    BY <1>3
  <2> DEFINE fills == [i \in DOMAIN ids |-> fillOf(ids[i])]
  <2>2. \A i \in DOMAIN fills : fills[i].id \in hit
    BY <2>1
  <2>3. hit \subseteq PaperOrders
    BY <1>1 DEF BrokerInv, RequestOk
  <2>4. Matched(fills) \subseteq PaperOrders
    BY <2>2, <2>3 DEF Matched
  <2>5. Filling(t, fills, "paper")
    BY <2>1
  <2> HIDE DEF fills
  <2> QED
    BY <1>1, <2>4, <2>5, PaperFillOk
<1> QED
  BY <1>2, <1>3 DEF MatchGate

LEMMA MatchReadKeeps == ASSUME BrokerInv, NEW t \in Threads, MatchRead(t) PROVE BrokerInv'
<1>1. PICK sym \in Symbols, price \in Prices :
         Set(t, [Request("match", sym, price) EXCEPT !.working = Working(sym)])
  BY DEF MatchRead
<1>2. PICK x : x = [Request("match", sym, price) EXCEPT !.working = Working(sym)]
  OBVIOUS
<1>3. DOMAIN x = Fields /\ x.pc = "match" /\ x.at = 0 /\ x.working = Working(sym)
  BY <1>2 DEF Request, Fields
<1>4. Working(sym) \subseteq PaperOrders
  BY DEF Working, PaperOrders, BrokerInv, OrderOk
<1>5. RequestOk(x) /\ ~Holds(x)
  BY <1>3, <1>4 DEF RequestOk, Holds, Carrying
<1>6. ~Holds(req[t]) /\ req' = [req EXCEPT ![t] = x] /\ UNCHANGED <<orders, exchange, lost>>
  BY <1>1, <1>2 DEF MatchRead, At, Holds, Set
<1> QED
  BY <1>5, <1>6, MoveKeeps

LEMMA CancelReadKeeps == ASSUME BrokerInv, NEW t \in Threads, CancelRead(t) PROVE BrokerInv'
<1>1. PICK i \in DOMAIN orders : orders[i].status = "new" /\ Set(t, [pc |-> "cancel", by |-> "desk", order |-> i])
  BY DEF CancelRead
<1>2. PICK x : x = [pc |-> "cancel", by |-> "desk", order |-> i]
  OBVIOUS
<1>3. i \in PaperOrders
  BY <1>1 DEF PaperOrders, BrokerInv, OrderOk
<1>4. RequestOk(x) /\ ~Holds(x)
  BY <1>2, <1>3 DEF RequestOk, Holds, Carrying
<1>5. ~Holds(req[t]) /\ req' = [req EXCEPT ![t] = x] /\ UNCHANGED <<orders, exchange, lost>>
  BY <1>1, <1>2 DEF CancelRead, At, Holds, Set
<1> QED
  BY <1>4, <1>5, MoveKeeps

LEMMA PutConfigKeeps == ASSUME BrokerInv, NEW t \in Threads, PutConfig(t) PROVE BrokerInv'
<1>1. PICK put \in Puts : Set(t, [pc |-> "put", by |-> "desk", field |-> put.field, to |-> put.to])
  BY DEF PutConfig
<1>2. PICK x : x = [pc |-> "put", by |-> "desk", field |-> put.field, to |-> put.to]
  OBVIOUS
<1>3. RequestOk(x) /\ ~Holds(x)
  BY <1>2 DEF RequestOk, Holds, Carrying
<1>4. ~Holds(req[t]) /\ req' = [req EXCEPT ![t] = x] /\ UNCHANGED <<orders, exchange, lost>>
  BY <1>1, <1>2 DEF PutConfig, At, Holds, Set
<1> QED
  BY <1>3, <1>4, MoveKeeps

\* A thread is done with what is not an order.
LEMMA AnsweredKeeps ==
    ASSUME BrokerInv, NEW t \in Threads, req[t].pc \in {"put", "filled", "refused"}, Set(t, Idle),
           UNCHANGED <<orders, exchange, lost>>
    PROVE  BrokerInv'
<1>1. ~Holds(req[t]) /\ req' = [req EXCEPT ![t] = Idle]
  BY DEF Holds, Set
<1> QED
  BY <1>1, IdleOk, MoveKeeps

LEMMA RestKeeps == ASSUME BrokerInv, NEW t \in Threads, Rest(t) PROVE BrokerInv'
<1>1. PICK o : o = NewOrder(req[t], "new", 0, "paper")
  OBVIOUS
<1>2. o.via = "paper" /\ DOMAIN o = {"sym", "side", "qty", "limit", "status", "price", "via", "by", "at"}
  BY <1>1 DEF NewOrder
<1>3. orders' = Append(orders, o) /\ UNCHANGED <<exchange, lost>>
  BY <1>1 DEF Rest
<1>4. ~Holds(req[t]) /\ req' = [req EXCEPT ![t] = Idle] /\ Idle.pc = "idle"
  BY DEF Rest, At, Holds, Set, Idle
<1>5. IsSeq(orders)
  BY DEF BrokerInv, TablesOk
<1>6. /\ IsSeq(orders') /\ DOMAIN orders \subseteq DOMAIN orders'
      /\ \A k \in DOMAIN orders : orders'[k] = orders[k]
      /\ \A k \in DOMAIN orders' \ DOMAIN orders : orders'[k] = o
  BY <1>3, <1>5, Appended
<1> QED
  BY <1>2, <1>3, <1>4, <1>6, PaperKeeps

LEMMA CancelCommitKeeps == ASSUME BrokerInv, NEW t \in Threads, CancelCommit(t) PROVE BrokerInv'
<1>1. PICK i : i = req[t].order
  OBVIOUS
<1>2. req[t].pc = "cancel" /\ i \in PaperOrders /\ UNCHANGED <<exchange, lost>>
  BY <1>1 DEF CancelCommit, At, BrokerInv, RequestOk
<1>3. ~Holds(req[t]) /\ req' = [req EXCEPT ![t] = Idle] /\ Idle.pc = "idle"
  BY <1>2 DEF CancelCommit, Holds, Set, Idle
<1>4. PICK o : o = [orders[i] EXCEPT !.status = "cancelled"]
  OBVIOUS
<1>5. orders' = [orders EXCEPT ![i] = o]
  BY <1>1, <1>4, Zenon DEF CancelCommit
<1>6. o.via = "paper" /\ DOMAIN o = DOMAIN orders[i] /\ i \in DOMAIN orders
  BY <1>2, <1>4 DEF PaperOrders, BrokerInv, OrderOk
<1>7. IsSeq(orders')
  <2>1. PICK n \in Nat : orders = [k \in 1 .. n |-> orders[k]]
    BY DEF BrokerInv, TablesOk, IsSeq
  <2>2. orders' = [k \in 1 .. n |-> orders'[k]]
    BY <1>5, <2>1
  <2> QED
    BY <2>2 DEF IsSeq
<1>8. DOMAIN orders' = DOMAIN orders /\ (\A k \in DOMAIN orders : k # i => orders'[k] = orders[k]) /\ orders'[i] = o
  BY <1>5, <1>6
<1>9. orders[i].via = "paper"
  BY <1>2 DEF PaperOrders
<1> QED
  BY <1>2, <1>3, <1>6, <1>7, <1>8, <1>9, PaperKeeps

LEMMA RouteBrokerKeeps == ASSUME BrokerInv, NEW t \in Threads, RouteBroker(t) PROVE BrokerInv'
<1>1. PICK e : e = [sym |-> req[t].sym, side |-> req[t].side, qty |-> req[t].qty, status |-> "live", price |-> 0]
  OBVIOUS
<1>2. exchange' = Append(exchange, e) /\ UNCHANGED orders
  BY <1>1 DEF RouteBroker
<1>3. req[t].pc = "route" /\ req[t].pc \in Carrying /\ ~Holds(req[t]) /\ DOMAIN req[t] = Fields
  BY DEF RouteBroker, At, Holds, Carrying, BrokerInv, RequestOk
<1>4. DOMAIN e = {"sym", "side", "qty", "status", "price"}
  BY <1>1
<1>5. Len(exchange') = Len(exchange) + 1
  BY <1>2, Appended DEF BrokerInv, TablesOk
<1>6. CASE Set(t, [req[t] EXCEPT !.pc = "wait", !.at = Len(exchange')]) /\ UNCHANGED lost
  <2>1. PICK n : n = Len(exchange')
    OBVIOUS
  <2>2. PICK x : x = [req[t] EXCEPT !.pc = "wait", !.at = n]
    OBVIOUS
  <2>3. x.pc = "wait" /\ x.at = n /\ DOMAIN x = Fields /\ x.sym = e.sym /\ x.side = e.side /\ x.qty = e.qty
    BY <1>1, <1>3, <2>2 DEF Fields
  <2>4. req' = [req EXCEPT ![t] = x] /\ lost' = lost
    BY <1>6, <2>1, <2>2 DEF Set
  <2> QED
    BY <1>2, <1>3, <1>4, <1>5, <2>1, <2>3, <2>4, SubmitKeeps
<1>7. CASE Refused(t) /\ lost' = lost \cup {Len(exchange')}
  <2>1. PICK y : /\ req' = [req EXCEPT ![t] = y]
                 /\ y.pc \in {"idle", "refused"} /\ (y.pc = "refused" => DOMAIN y = Fields)
    BY <1>3, <1>7, RefusedAs
  <2>2. lost' = lost \cup {Len(exchange) + 1}
    BY <1>5, <1>7
  <2> QED
    BY <1>2, <1>3, <1>4, <2>1, <2>2, SubmitKeeps
<1> QED
  BY <1>6, <1>7 DEF RouteBroker

LEMMA WaitForFillKeeps == ASSUME BrokerInv, NEW t \in Threads, WaitForFill(t) PROVE BrokerInv'
<1>1. PICK b : b = exchange[req[t].at]
  OBVIOUS
<1>2. PICK r : r = req[t]
  OBVIOUS
<1>3. /\ r.pc = "wait" /\ r.at # 0 /\ Holds(r) /\ DOMAIN r = Fields /\ r.pc \in Carrying
      /\ RequestOk(r) /\ UNCHANGED <<orders, exchange>>
  BY <1>2 DEF WaitForFill, At, Holds, Carrying, BrokerInv, RequestOk
<1>4. CASE b.status = "filled" /\ Filling(t, OwnFill(req[t], b.price), "broker") /\ UNCHANGED lost
  <2>1. PICK f : f = OwnFill(r, b.price)
    OBVIOUS
  <2>2. PICK x : x = [r EXCEPT !.pc = "fold", !.fills = f, !.via = "broker"]
    OBVIOUS
  <2>3. /\ DOMAIN x = Fields /\ x.pc = "fold" /\ x.fills = f /\ x.via = "broker" /\ x.at = r.at
        /\ x.sym = r.sym /\ x.side = r.side /\ x.qty = r.qty
    BY <1>3, <2>2 DEF Fields
  <2>4. OwnFill(x, exchange[x.at].price) = f
    BY <1>1, <1>2, <2>1, <2>3 DEF OwnFill
  <2>5. Holds(x)
    BY <1>3, <2>3 DEF Holds
  <2>6. RequestOk(x)
    BY <1>1, <1>2, <1>3, <1>4, <2>3, <2>4, <2>5 DEF RequestOk, Carrying
  <2>7. req' = [req EXCEPT ![t] = x]
    BY <1>2, <1>4, <2>1, <2>2 DEF Filling, Set
  <2> QED
    BY <1>2, <1>3, <1>4, <2>3, <2>5, <2>6, <2>7, AwaitKeeps
<1>5. CASE b.status # "filled" /\ Refused(t) /\ lost' = lost \cup {req[t].at}
  <2>1. PICK y : /\ req' = [req EXCEPT ![t] = y]
                 /\ y.pc \in {"idle", "refused"} /\ (y.pc = "refused" => DOMAIN y = Fields)
    BY <1>2, <1>3, <1>5, RefusedAs
  <2> QED
    BY <1>2, <1>3, <1>5, <2>1, AbandonKeeps
<1> QED
  BY <1>1, <1>4, <1>5 DEF WaitForFill

LEMMA ReadPositionKeeps == ASSUME BrokerInv, NEW t \in Threads, ReadPosition(t) PROVE BrokerInv'
<1>1. PICK r : r = req[t]
  OBVIOUS
<1>2. /\ r.pc = "fold" /\ RequestOk(r) /\ DOMAIN r = Fields /\ UNCHANGED <<orders, exchange, lost>>
  BY <1>1 DEF ReadPosition, At, BrokerInv, RequestOk, Carrying
<1>3. PICK row, read : Set(t, [req[t] EXCEPT !.pc = "commit", !.row = row, !.read = read])
  BY DEF ReadPosition
<1>4. PICK x : x = [r EXCEPT !.pc = "commit", !.row = row, !.read = read]
  OBVIOUS
<1>5. /\ DOMAIN x = Fields /\ x.pc = "commit" /\ x.fills = r.fills /\ x.via = r.via /\ x.at = r.at
      /\ x.sym = r.sym /\ x.side = r.side /\ x.qty = r.qty
  BY <1>2, <1>4 DEF Fields
<1>6. Holds(x) <=> Holds(r)
  BY <1>2, <1>5 DEF Holds
<1>7. \A price : OwnFill(x, price) = OwnFill(r, price)
  BY <1>5 DEF OwnFill
<1>8. RequestOk(x)
  <2>1. x.at = 0 => x.via = "paper" /\ Matched(x.fills) \subseteq PaperOrders
    BY <1>2, <1>5 DEF RequestOk
  <2>2. x.at # 0 => /\ x.via = "broker" /\ exchange[x.at].status = "filled"
                    /\ x.fills = OwnFill(x, exchange[x.at].price)
    BY <1>2, <1>5, <1>7 DEF RequestOk
  <2>3. Holds(x) =>
          /\ x.at \in DOMAIN exchange /\ x.at \notin lost
          /\ exchange[x.at].sym = x.sym /\ exchange[x.at].side = x.side /\ exchange[x.at].qty = x.qty
          /\ \A k \in Booked : orders[k].at # x.at
    BY <1>2, <1>5, <1>6 DEF RequestOk
  <2> QED
    BY <1>5, <2>1, <2>2, <2>3 DEF RequestOk, Carrying
<1>9. req' = [req EXCEPT ![t] = x]
  BY <1>1, <1>3, <1>4 DEF Set
<1>10. CASE Holds(r)
  BY <1>1, <1>2, <1>5, <1>6, <1>8, <1>9, <1>10, AwaitKeeps
<1>11. CASE ~Holds(r)
  BY <1>1, <1>2, <1>6, <1>8, <1>9, <1>11, MoveKeeps
<1> QED
  BY <1>10, <1>11

LEMMA CommitKeeps == ASSUME BrokerInv, NEW t \in Threads, Commit(t) PROVE BrokerInv'
<1>1. PICK r : r = req[t]
  OBVIOUS
<1>2. /\ r.pc = "commit" /\ RequestOk(r) /\ DOMAIN r = Fields /\ UNCHANGED <<exchange, lost>>
  BY <1>1 DEF Commit, At, BrokerInv, RequestOk, Carrying
<1>3. PICK x : req' = [req EXCEPT ![t] = x] /\ x.pc \in {"idle", "filled"} /\ (x.pc = "filled" => DOMAIN x = Fields)
  <2>1. PICK price : Return(t, [r EXCEPT !.pc = "filled", !.price = price])
    BY <1>1 DEF Commit
  <2>2. PICK y : y = [r EXCEPT !.pc = "filled", !.price = price]
    OBVIOUS
  <2>3. y.pc = "filled" /\ DOMAIN y = Fields
    BY <1>2, <2>2 DEF Fields
  <2>4. PICK z \in {y, Idle} : req' = [req EXCEPT ![t] = z]
    BY <2>1, <2>2, Returned
  <2>5. Idle.pc = "idle"
    BY DEF Idle
  <2> QED
    BY <2>3, <2>4, <2>5
<1>4. PICK o : o = NewOrder(r, "filled", r.fills[1].price, r.via)
  OBVIOUS
<1>5. /\ DOMAIN o = {"sym", "side", "qty", "limit", "status", "price", "via", "by", "at"}
      /\ o.via = r.via /\ o.at = r.at /\ o.status = "filled" /\ o.price = r.fills[1].price
      /\ o.sym = r.sym /\ o.side = r.side /\ o.qty = r.qty
  BY <1>4 DEF NewOrder
<1>6. orders' = IF Matched(r.fills) = {} THEN Append(orders, o)
                ELSE [i \in DOMAIN orders |->
                        IF i \in Matched(r.fills)
                        THEN [orders[i] EXCEPT !.status = "filled", !.price = orders[i].limit]
                        ELSE orders[i]]
  BY <1>1, <1>4 DEF Commit
<1>7. IsSeq(orders)
  BY DEF BrokerInv, TablesOk
<1>8. CASE r.at = 0 /\ Matched(r.fills) = {}
  <2>1. orders' = Append(orders, o)
    BY <1>6, <1>8
  <2>2. /\ IsSeq(orders') /\ DOMAIN orders \subseteq DOMAIN orders'
        /\ \A k \in DOMAIN orders : orders'[k] = orders[k]
        /\ \A k \in DOMAIN orders' \ DOMAIN orders : orders'[k] = o
    BY <1>7, <2>1, Appended
  <2>3. ~Holds(req[t]) /\ o.via = "paper"
    BY <1>1, <1>2, <1>5, <1>8 DEF Holds, RequestOk
  <2> QED
    BY <1>2, <1>3, <1>5, <2>2, <2>3, PaperKeeps
<1>9. CASE r.at = 0 /\ Matched(r.fills) # {}
  <2>1. orders' = [i \in DOMAIN orders |->
                     IF i \in Matched(r.fills)
                     THEN [orders[i] EXCEPT !.status = "filled", !.price = orders[i].limit]
                     ELSE orders[i]]
    BY <1>6, <1>9
  <2>2. ~Holds(req[t]) /\ Matched(r.fills) \subseteq PaperOrders
    BY <1>1, <1>2, <1>9 DEF Holds, RequestOk
  <2>3. ASSUME NEW k \in DOMAIN orders
        PROVE  \/ orders'[k] = orders[k]
               \/ orders[k].via = "paper" /\ orders'[k].via = "paper" /\ DOMAIN orders'[k] = DOMAIN orders[k]
    <3>1. CASE k \in Matched(r.fills)
      <4>1. PICK p : p = [orders[k] EXCEPT !.status = "filled", !.price = orders[k].limit]
        OBVIOUS
      <4>2. orders'[k] = p
        BY <2>1, <3>1, <4>1
      <4>3. orders[k].via = "paper" /\ "via" \in DOMAIN orders[k]
        BY <2>2, <3>1 DEF PaperOrders, BrokerInv, OrderOk
      <4> QED
        BY <4>1, <4>2, <4>3
    <3>2. CASE k \notin Matched(r.fills)
      BY <2>1, <3>2
    <3> QED
      BY <3>1, <3>2
  <2>4. DOMAIN orders' = DOMAIN orders
    BY <2>1
  <2>5. IsSeq(orders')
    <3>1. PICK n \in Nat : orders = [k \in 1 .. n |-> orders[k]]
      BY <1>7 DEF IsSeq
    <3>2. orders' = [k \in DOMAIN orders |-> orders'[k]]
      BY <2>1
    <3>3. DOMAIN orders = 1 .. n
      BY <3>1
    <3> QED
      BY <3>2, <3>3 DEF IsSeq
  <2> QED
    BY <1>2, <1>3, <2>2, <2>3, <2>4, <2>5, PaperKeeps
<1>10. CASE r.at # 0
  <2>1. Holds(r) /\ r.via = "broker" /\ exchange[r.at].status = "filled" /\ r.fills = OwnFill(r, exchange[r.at].price)
    BY <1>2, <1>10 DEF Holds, RequestOk
  <2>2. Matched(r.fills) = {}
    BY <2>1, OwnFillMatchesNone
  <2>3. r.fills[1].price = exchange[r.at].price
    BY <2>1 DEF OwnFill
  <2>4. orders' = Append(orders, o)
    BY <1>6, <2>2
  <2>5. OrderOk(o)
    BY <1>2, <1>5, <2>1, <2>3 DEF OrderOk, RequestOk
  <2> QED
    BY <1>1, <1>2, <1>3, <1>5, <2>1, <2>4, <2>5, BookKeeps
<1> QED
  BY <1>8, <1>9, <1>10

\* Every thread dies: what it waited for, or had not recorded, is lost.
LEMMA ProcessDiesKeeps == ASSUME BrokerInv, ProcessDies PROVE BrokerInv'
<1>1. /\ UNCHANGED <<orders, exchange>> /\ req' = [t \in Threads |-> Idle]
      /\ lost' = lost \cup Unwaited
  BY DEF ProcessDies
<1>2. Unwaited = {req[t].at : t \in {u \in Threads : Holds(req[u])}}
  BY DEF Unwaited, AtBroker, Holds
<1>3. /\ \A i \in Unwaited : \E t \in Threads : Holds(req[t]) /\ req[t].at = i
      /\ \A t \in Threads : Holds(req[t]) => req[t].at \in Unwaited
  BY <1>2
<1>4. \A t \in Threads : req'[t] = Idle
  BY <1>1
<1>5. TablesOk'
  BY <1>1, <1>4 DEF BrokerInv, TablesOk, IsSeq
<1>6. lost' \subseteq DOMAIN exchange'
  BY <1>1, <1>3 DEF BrokerInv, RequestOk
<1>7. ASSUME NEW t \in Threads PROVE RequestOk(req[t])'
  <2>1. req'[t].pc = "idle"
    BY <1>4 DEF Idle
  <2> QED
    BY <2>1 DEF RequestOk, Holds, Carrying
<1>8. ASSUME NEW k \in DOMAIN orders' PROVE OrderOk(orders[k])'
  <2>1. OrderOk(orders[k]) /\ (orders[k].via = "broker" => orders[k].at \notin Unwaited)
    BY <1>1, <1>3 DEF BrokerInv, RequestOk, Booked
  <2> QED
    BY <1>1, <2>1 DEF OrderOk
<1>9. EachOnce'
  <2>1. \A t \in Threads : ~Holds(req[t])'
    BY <1>4 DEF Idle, Holds
  <2> QED
    BY <1>1, <1>3, <2>1 DEF BrokerInv, EachOnce, Booked
<1> QED
  BY <1>5, <1>6, <1>7, <1>8, <1>9 DEF BrokerInv

\* The desk's own steps, whoever asked for them.
LEMMA RouteStepKeeps == ASSUME BrokerInv, NEW t \in Threads, RouteStep(t) PROVE BrokerInv'
  BY RoutePaperKeeps, RouteBrokerKeeps, RouteRefusedKeeps, WaitForFillKeeps, ReadPositionKeeps DEF RouteStep

LEMMA ClientKeeps ==
    ASSUME BrokerInv, NEW t \in Threads,
           \/ DeskRequest(t) \/ DeskStep(t) \/ ClientFill(t)
           \/ CloseRead(t) \/ CloseDone(t) \/ PutConfig(t) \/ PutCommit(t)
    PROVE  BrokerInv'
<1>1. CASE DeskRequest(t)
  BY <1>1, PlaceOrderKeeps, MatchReadKeeps, CancelReadKeeps DEF DeskRequest
<1>2. CASE DeskStep(t)
  BY <1>2, MatchGateKeeps, CancelCommitKeeps DEF DeskStep
<1>3. CASE ClientFill(t)
  <2>1. (\E reading \in Readings : Gate(t, reading)) \/ RouteStep(t) \/ Rest(t) \/ Commit(t)
    BY <1>3 DEF ClientFill
  <2> QED
    BY <2>1, GateKeeps, RouteStepKeeps, RestKeeps, CommitKeeps
<1>4. CASE CloseDone(t)
  <2>1. req[t].pc \in {"put", "filled", "refused"} /\ Set(t, Idle) /\ UNCHANGED <<orders, exchange, lost>>
    BY <1>4 DEF CloseDone
  <2> QED
    BY <2>1, AnsweredKeeps
<1>5. CASE PutCommit(t)
  <2>1. req[t].pc \in {"put", "filled", "refused"} /\ Set(t, Idle) /\ UNCHANGED <<orders, exchange, lost>>
    BY <1>5 DEF PutCommit, At
  <2> QED
    BY <2>1, AnsweredKeeps
<1> QED
  BY <1>1, <1>2, <1>3, <1>4, <1>5, CloseReadKeeps, PutConfigKeeps

LEMMA BotStepKeeps == ASSUME BrokerInv, BotStep PROVE BrokerInv' \/ UNCHANGED deskVars
<1>1. Scheduler \in Threads
  BY BotAssumption
<1>2. CASE PassRefused \/ PassFilled
  <2>1. /\ req[Scheduler].pc \in {"put", "filled", "refused"}
        /\ Set(Scheduler, Idle) /\ UNCHANGED <<orders, exchange, lost>>
    BY <1>2 DEF PassRefused, PassFilled, At
  <2> QED
    BY <1>1, <2>1, AnsweredKeeps
<1>3. CASE PassFill
  <2>1. (\E reading \in Readings : Gate(Scheduler, reading)) \/ RouteStep(Scheduler) \/ Commit(Scheduler)
    BY <1>3 DEF PassFill
  <2> QED
    BY <1>1, <2>1, GateKeeps, RouteStepKeeps, CommitKeeps
<1>4. CASE PassSkips \/ PassFails \/ PassEnds
  BY <1>4 DEF PassSkips, PassFails, PassEnds
<1> QED
  BY <1>2, <1>3, <1>4, PassOrdersKeeps DEF BotStep

LEMMA BrokerStutters == ASSUME BrokerInv, UNCHANGED <<orders, exchange, req, lost>> PROVE BrokerInv'
<1>1. TablesOk' /\ EachOnce' /\ lost' \subseteq DOMAIN exchange'
  <2>1. TablesOk' /\ lost' \subseteq DOMAIN exchange'
    BY DEF BrokerInv, TablesOk, IsSeq
  <2>2. Booked' = Booked /\ \A t \in Threads : Holds(req[t])' <=> Holds(req[t])
    BY DEF Booked, Holds
  <2>3. EachOnce'
    BY <2>2 DEF BrokerInv, EachOnce
  <2> QED
    BY <2>1, <2>3
<1>2. ASSUME NEW t \in Threads PROVE RequestOk(req[t])'
  <2>1. PICK r : r = req[t]
    OBVIOUS
  <2>2. RequestOk(r)
    BY <2>1 DEF BrokerInv
  <2>3. RequestOk(r)'
    BY <2>2 DEF RequestOk, PaperOrders, Booked
  <2> QED
    BY <2>1, <2>3
<1>3. \A k \in DOMAIN orders' : OrderOk(orders[k])'
  BY DEF BrokerInv, OrderOk
<1> QED
  BY <1>1, <1>2, <1>3 DEF BrokerInv

LEMMA InitBrokerInv == TradingInit => BrokerInv
<1> SUFFICES ASSUME TradingInit PROVE BrokerInv
  OBVIOUS
<1>1. orders = <<>> /\ exchange = <<>> /\ lost = {} /\ req = [t \in Threads |-> Idle]
  BY DEF TradingInit, DeskStart
<1>2. DOMAIN orders = {} /\ DOMAIN exchange = {}
  BY <1>1
<1>3. IsSeq(orders) /\ IsSeq(exchange)
  <2>1. <<>> = [i \in 1 .. 0 |-> <<>>[i]]
    OBVIOUS
  <2> QED
    BY <1>1, <2>1 DEF IsSeq
<1>4. \A t \in Threads : req[t] = Idle
  BY <1>1
<1>5. \A t \in Threads : RequestOk(req[t]) /\ ~Holds(req[t])
  BY <1>4, IdleOk
<1>6. EachOnce
  BY <1>2, <1>5 DEF EachOnce, Booked
<1>7. TablesOk
  BY <1>1, <1>2, <1>3 DEF TablesOk
<1> QED
  BY <1>1, <1>2, <1>5, <1>6, <1>7 DEF BrokerInv

\* Whatever is no longer in a request's hands is in the rows or was lost on the way.
LEMMA BrokerTold == BrokerInv => BrokerTruth
<1> SUFFICES ASSUME BrokerInv PROVE BrokerTruth
  OBVIOUS
<1> DEFINE told == DOMAIN exchange \ (lost \cup Unwaited)
<1>1. /\ \A i \in Unwaited : \E t \in Threads : Holds(req[t]) /\ req[t].at = i
      /\ \A t \in Threads : Holds(req[t]) => req[t].at \in Unwaited
  BY DEF Unwaited, AtBroker, Holds
<1>2. Booked = {k \in DOMAIN orders : orders[k].via = "broker"}
  BY DEF Booked
<1>3. ASSUME NEW i \in told PROVE exchange[i].status = "filled" /\ \E k \in Booked : orders[k].at = i
  <2>1. PICK k \in Booked : orders[k].at = i
    BY <1>1 DEF BrokerInv, EachOnce
  <2>2. OrderOk(orders[k])
    BY DEF BrokerInv, Booked
  <2> QED
    BY <2>1, <2>2 DEF OrderOk, Booked
<1>4. ASSUME NEW k \in Booked
      PROVE  /\ orders[k].at \in told /\ orders[k].status = "filled"
             /\ \A c \in {"sym", "side", "qty", "price"} : orders[k][c] = exchange[orders[k].at][c]
  <2>1. OrderOk(orders[k]) /\ orders[k].via = "broker"
    BY DEF BrokerInv, Booked
  <2>2. \A t \in Threads : Holds(req[t]) => req[t].at # orders[k].at
    BY DEF BrokerInv, RequestOk
  <2>3. orders[k].at \notin Unwaited
    BY <1>1, <2>2
  <2>4. /\ orders[k].at \in DOMAIN exchange /\ orders[k].at \notin lost /\ orders[k].status = "filled"
        /\ orders[k].sym = exchange[orders[k].at].sym /\ orders[k].side = exchange[orders[k].at].side
        /\ orders[k].qty = exchange[orders[k].at].qty /\ orders[k].price = exchange[orders[k].at].price
    BY <2>1 DEF OrderOk
  <2> QED
    BY <2>3, <2>4
<1>5. \A j, k \in Booked : orders[j].at = orders[k].at => j = k
  BY DEF BrokerInv, EachOnce
<1> QED
  BY <1>2, <1>3, <1>4, <1>5 DEF BrokerTruth

\* Every step keeps it.
LEMMA StepBrokerInv == BrokerInv /\ [TradingNext]_tradingVars => BrokerInv'
  <2> SUFFICES ASSUME BrokerInv, [TradingNext]_tradingVars PROVE BrokerInv'
    OBVIOUS
  <2>1. CASE UNCHANGED deskVars
    BY <2>1, BrokerStutters DEF deskVars
  <2>2. CASE TradingNext
    <3>1. ASSUME NEW t \in Threads,
                 \/ DeskRequest(t) \/ DeskStep(t) \/ ClientFill(t)
                 \/ CloseRead(t) \/ CloseDone(t) \/ PutConfig(t) \/ PutCommit(t)
          PROVE  BrokerInv'
      BY <3>1, ClientKeeps
    <3>2. CASE BrokerDecides
      BY <3>2, BrokerDecidesKeeps
    <3>3. CASE Midnight \/ PassStart \/ ForceClear \/ HardReset
      <4>1. UNCHANGED <<orders, exchange, req, lost>>
        BY <3>3 DEF Midnight, PassStart, ForceClear, HardReset, deskVars
      <4> QED
        BY <4>1, BrokerStutters
    <3>4. CASE BotStep
      BY <2>1, <3>4, BotStepKeeps
    <3>5. CASE TradingDies
      BY <3>5, ProcessDiesKeeps DEF TradingDies
    <3> QED
      BY <2>2, <3>1, <3>2, <3>3, <3>4, <3>5 DEF TradingNext
  <2> QED
    BY <2>1, <2>2 DEF tradingVars

\* A broker's fill is booked once, whatever the interleaving of the requests, the bot, the
\* broker and crashes of the process.
THEOREM BrokersFillsAreBooked == TradingSpec => []BrokerTruth
    BY StepBrokerInv, InitBrokerInv, BrokerTold, PTL DEF TradingSpec

-----------------------------------------------------------------------------
(* Sums over finite sets *)

\* h gives the sum of g over each subset of U, whatever the order in which it is added up.
IsSum(h, U, g) ==
    /\ h[{}] = 0
    /\ \A s \in SUBSET U : h[s] \in Int /\ \A x \in s : h[s] = h[s \ {x}] + g[x]

\* The members of a finite set without one of them.
LEMMA OneLess ==
    ASSUME NEW s, IsFiniteSet(s), NEW x \in s
    PROVE  /\ IsFiniteSet(s \ {x}) /\ Cardinality(s \ {x}) \in Nat
           /\ Cardinality(s) = Cardinality(s \ {x}) + 1
    <1>1. IsFiniteSet(s \ {x}) /\ Cardinality(s \ {x}) = Cardinality(s) - 1
        BY FS_RemoveElement
    <1>2. PICK a \in Nat, b \in Nat : a = Cardinality(s) /\ b = Cardinality(s \ {x})
        BY <1>1, FS_CardinalityType
    <1>3. b = a - 1
        BY <1>1, <1>2
    <1>4. a = b + 1
        BY <1>3
    <1> QED
        BY <1>1, <1>2, <1>4

\* The recursion of a sum, which takes an arbitrary member at a time.
Taken(s) == CHOOSE x \in s : TRUE
Adds(h, U, g) == h = [s \in SUBSET U |-> IF s = {} THEN 0 ELSE h[s \ {Taken(s)}] + g[Taken(s)]]

\* A nonempty set has the member that is taken.
LEMMA TakenOf == ASSUME NEW s, s # {} PROVE Taken(s) \in s
    BY DEF Taken

\* It has a solution.
LEMMA SumExists ==
    ASSUME NEW U, IsFiniteSet(U), NEW g
    PROVE  \E h : Adds(h, U, g)
    <1> DEFINE Small(k) == {s \in SUBSET U : Cardinality(s) <= k}
               Upto(h, k) == h = [s \in Small(k) |-> IF s = {} THEN 0 ELSE h[s \ {Taken(s)}] + g[Taken(s)]]
               n == Cardinality(U)
               S == {k \in Nat : ~\E h : Upto(h, k)}
    <1>1. n \in Nat /\ \A s \in SUBSET U : IsFiniteSet(s) /\ Cardinality(s) \in Nat /\ Cardinality(s) <= n
        BY FS_CardinalityType, FS_Subset
    <1>2. Small(n) = SUBSET U
        BY <1>1
    <1>3. \A k \in Nat : \E h : Upto(h, k)
        <2>1. SUFFICES ASSUME S # {} PROVE FALSE
            OBVIOUS
        <2>2. PICK k \in S : \A y \in S : k <= y
            <3>1. S \in SUBSET Nat
                OBVIOUS
            <3> HIDE DEF S
            <3> QED
                BY <2>1, <3>1, LeastNat
        <2>3. k \in Nat /\ ~\E h : Upto(h, k)
            OBVIOUS
        <2>4. CASE k = 0
            <3>1. \A s \in SUBSET U : Cardinality(s) <= 0 <=> s = {}
                BY <1>1, FS_EmptySet
            <3>2. Small(0) = {{}}
                BY <3>1
            <3>3. Upto([s \in {{}} |-> 0], 0)
                BY <3>2
            <3> QED
                BY <2>3, <2>4, <3>3
        <2>5. CASE k # 0
            <3>1. k - 1 \in Nat /\ ~(k <= k - 1)
                BY <2>3, <2>5
            <3>2. PICK h : Upto(h, k - 1)
                <4>1. k - 1 \notin S
                    <5> HIDE DEF S
                    <5> QED
                        BY <2>2, <3>1
                <4> QED
                    BY <3>1, <4>1
            <3> DEFINE f == [s \in Small(k) |-> IF s = {} THEN 0 ELSE h[s \ {Taken(s)}] + g[Taken(s)]]
            <3>3. ASSUME NEW s \in Small(k), s # {} PROVE f[s \ {Taken(s)}] = h[s \ {Taken(s)}]
                <4>1. Taken(s) \in s /\ s \in SUBSET U /\ Cardinality(s) <= k
                    BY <3>3, TakenOf
                <4>2. PICK t : t = s \ {Taken(s)}
                    OBVIOUS
                <4>3. t \in Small(k - 1) /\ t \in Small(k)
                    <5>1. Cardinality(t) \in Nat /\ Cardinality(s) = Cardinality(t) + 1
                        BY <1>1, <4>1, <4>2, OneLess
                    <5>2. Cardinality(t) <= k - 1 /\ Cardinality(t) <= k
                        BY <2>3, <4>1, <5>1
                    <5> QED
                        BY <4>1, <4>2, <5>2
                <4>4. f[t] = IF t = {} THEN 0 ELSE h[t \ {Taken(t)}] + g[Taken(t)]
                    BY <4>3
                <4>5. h[t] = IF t = {} THEN 0 ELSE h[t \ {Taken(t)}] + g[Taken(t)]
                    <5> HIDE DEF Small
                    <5> QED
                        BY <3>2, <4>3
                <4> HIDE DEF f
                <4> QED
                    BY <4>2, <4>4, <4>5
            <3>4. \A s \in Small(k) : f[s] = IF s = {} THEN 0 ELSE h[s \ {Taken(s)}] + g[Taken(s)]
                OBVIOUS
            <3>5. f = [s \in Small(k) |-> f[s]]
                OBVIOUS
            <3> HIDE DEF f, Small
            <3>6. \A s \in Small(k) : f[s] = IF s = {} THEN 0 ELSE f[s \ {Taken(s)}] + g[Taken(s)]
                BY <3>3, <3>4
            <3>7. Upto(f, k)
                BY <3>5, <3>6
            <3> QED
                BY <2>3, <3>7
        <2> QED
            BY <2>4, <2>5
    <1> HIDE DEF Small
    <1> QED
        BY <1>1, <1>2, <1>3 DEF Adds

\* What a solution says of one subset.
LEMMA AddsOne ==
    ASSUME NEW U, NEW g, NEW h, Adds(h, U, g), NEW s \in SUBSET U
    PROVE  h[s] = IF s = {} THEN 0 ELSE h[s \ {Taken(s)}] + g[Taken(s)]
    <1>1. h = [t \in SUBSET U |-> IF t = {} THEN 0 ELSE h[t \ {Taken(t)}] + g[Taken(t)]]
        BY DEF Adds
    <1> QED
        BY <1>1

\* A solution does not depend on which member is taken first.
LEMMA SumOrder ==
    ASSUME NEW U, IsFiniteSet(U), NEW g, \A x \in U : g[x] \in Int, NEW h, Adds(h, U, g)
    PROVE  IsSum(h, U, g)
    <1> DEFINE Right(s) == h[s] \in Int /\ \A x \in s : h[s] = h[s \ {x}] + g[x]
               S == {k \in Nat : \E s \in SUBSET U : Cardinality(s) = k /\ ~Right(s)}
    <1>1. \A s \in SUBSET U : IsFiniteSet(s) /\ Cardinality(s) \in Nat
        BY FS_CardinalityType, FS_Subset
    <1>2. h[{}] = 0
        BY AddsOne
    <1>3. S = {}
        <2>1. SUFFICES ASSUME S # {} PROVE FALSE
            OBVIOUS
        <2>2. PICK k \in S : \A y \in S : k <= y
            <3>1. S \in SUBSET Nat
                OBVIOUS
            <3> HIDE DEF S
            <3> QED
                BY <2>1, <3>1, LeastNat
        <2>3. PICK s \in SUBSET U : Cardinality(s) = k /\ ~Right(s)
            OBVIOUS
        <2>4. ASSUME NEW t \in SUBSET U, Cardinality(t) + 1 = k PROVE Right(t)
            <3>1. Cardinality(t) \in Nat /\ ~(k <= Cardinality(t))
                BY <1>1, <2>4
            <3>2. Cardinality(t) \notin S
                <4> HIDE DEF S
                <4> QED
                    BY <2>2, <3>1
            <3> HIDE DEF Right
            <3> QED
                BY <3>1, <3>2
        <2>5. s # {}
            <3>1. s = {} => Right(s)
                BY <1>2
            <3> QED
                BY <2>3, <3>1
        <2>6. PICK c : c = Taken(s)
            OBVIOUS
        <2>7. c \in s /\ h[s] = h[s \ {c}] + g[c] /\ g[c] \in Int
            <3>1. h[s] = IF s = {} THEN 0 ELSE h[s \ {Taken(s)}] + g[Taken(s)]
                BY AddsOne
            <3> QED
                BY <2>5, <2>6, <3>1, TakenOf
        <2>8. ASSUME NEW x \in s PROVE Right(s \ {x}) /\ s \ {x} \in SUBSET U
            <3>1. Cardinality(s \ {x}) + 1 = k
                BY <1>1, <2>3, OneLess
            <3> HIDE DEF Right
            <3> QED
                BY <2>4, <3>1
        <2>9. h[s] \in Int
            <3>1. h[s \ {c}] \in Int
                BY <2>7, <2>8
            <3> QED
                BY <2>7, <3>1
        <2>10. ASSUME NEW x \in s, x # c PROVE h[s] = h[s \ {x}] + g[x]
            <3>1. x \in s \ {c} /\ c \in s \ {x} /\ (s \ {c}) \ {x} = (s \ {x}) \ {c}
                BY <2>7, <2>10
            <3>2. PICK u : u = (s \ {x}) \ {c}
                OBVIOUS
            <3>3. h[s \ {c}] = h[u] + g[x]
                BY <2>7, <2>8, <3>1, <3>2
            <3>4. h[s \ {x}] = h[u] + g[c]
                BY <2>7, <2>8, <3>1, <3>2
            <3>5. g[x] \in Int /\ h[u] \in Int
                <4>1. u \in SUBSET U /\ Cardinality(u) \in Nat
                    BY <1>1, <3>2
                <4>2. h[s \ {x}] \in Int
                    BY <2>8
                <4>3. h[u] \in Int
                    <5>1. Cardinality(s \ {x}) = Cardinality(u) + 1 /\ Cardinality(s) = Cardinality(s \ {x}) + 1
                        BY <1>1, <2>8, <3>1, <3>2, OneLess
                    <5>2. Cardinality(u) + 2 = k /\ k \in Nat
                        BY <2>3, <4>1, <5>1
                    <5>3. Cardinality(u) \notin S
                        <6>1. ~(k <= Cardinality(u))
                            BY <4>1, <5>2
                        <6> HIDE DEF S
                        <6> QED
                            BY <2>2, <6>1
                    <5>4. Right(u)
                        <6> HIDE DEF Right
                        <6> QED
                            BY <4>1, <5>3
                    <5> QED
                        BY <5>4
                <4> QED
                    BY <4>3
            <3> QED
                BY <2>7, <3>3, <3>4, <3>5
        <2>11. Right(s)
            BY <2>7, <2>9, <2>10
        <2> QED
            BY <2>3, <2>11
    <1>4. \A s \in SUBSET U : Right(s)
        <2> HIDE DEF Right
        <2> QED
            BY <1>1, <1>3
    <1> HIDE DEF S
    <1> QED
        BY <1>2, <1>4 DEF IsSum

\* There is one sum.
LEMMA SumUnique ==
    ASSUME NEW U, IsFiniteSet(U), NEW g, NEW h, IsSum(h, U, g),
           NEW T \in SUBSET U, NEW f, IsSum(f, T, g)
    PROVE  f[T] = h[T]
    <1> DEFINE S == {k \in Nat : \E s \in SUBSET T : Cardinality(s) = k /\ f[s] # h[s]}
    <1>1. \A s \in SUBSET T : IsFiniteSet(s) /\ Cardinality(s) \in Nat
        BY FS_CardinalityType, FS_Subset
    <1>2. S = {}
        <2>1. SUFFICES ASSUME S # {} PROVE FALSE
            OBVIOUS
        <2>2. PICK k \in S : \A y \in S : k <= y
            <3>1. S \in SUBSET Nat
                OBVIOUS
            <3> HIDE DEF S
            <3> QED
                BY <2>1, <3>1, LeastNat
        <2>3. PICK s \in SUBSET T : Cardinality(s) = k /\ f[s] # h[s]
            OBVIOUS
        <2>4. s # {}
            BY <2>3 DEF IsSum
        <2>5. PICK x \in s : TRUE
            BY <2>4
        <2>6. PICK u : u = s \ {x}
            OBVIOUS
        <2>7. f[s] = f[u] + g[x] /\ h[s] = h[u] + g[x]
            BY <2>6 DEF IsSum
        <2>8. Cardinality(u) \in Nat /\ ~(k <= Cardinality(u))
            <3>1. Cardinality(u) \in Nat /\ k = Cardinality(u) + 1
                BY <1>1, <2>3, <2>6, OneLess
            <3> QED
                BY <3>1
        <2>9. Cardinality(u) \notin S
            <3> HIDE DEF S
            <3> QED
                BY <2>2, <2>8
        <2>10. f[u] = h[u]
            BY <2>6, <2>8, <2>9
        <2> QED
            BY <2>3, <2>7, <2>10
    <1> QED
        BY <1>1, <1>2

\* The risk of a position, and the quantities of positions.
RiskOf(p) == p.qty * (p.entry - p.stop)
Lots(S) == TotalOver(S, LAMBDA p : p.qty)

\* The risk of a book is a sum.
LEMMA RiskIsSum ==
    ASSUME NEW U, IsFiniteSet(U), NEW g, NEW h, IsSum(h, U, g), NEW T \in SUBSET U,
           \A i \in T : g[i] = RiskOf(i) /\ g[i] \in Int
    PROVE  Risk(T) = h[T]
    <1>1. IsFiniteSet(T)
        BY FS_Subset
    <1> DEFINE Rec(f) == [s \in SUBSET T |->
                   IF s = {} THEN 0 ELSE LET x == CHOOSE y \in s : TRUE IN f[s \ {x}] + RiskOf(x)]
               it == CHOOSE f : f = Rec(f)
    <1>2. Risk(T) = it[T]
        BY DEF Risk, RiskOf, TotalOver, FoldSet, MapThenFoldSet
    <1>3. ASSUME NEW f PROVE Adds(f, T, g) <=> f = Rec(f)
        <2>1. \A s \in SUBSET T : s # {} => g[Taken(s)] = RiskOf(Taken(s))
            BY TakenOf
        <2>2. \A s \in SUBSET T : (IF s = {} THEN 0 ELSE f[s \ {Taken(s)}] + g[Taken(s)])
                 = (IF s = {} THEN 0 ELSE LET x == CHOOSE y \in s : TRUE IN f[s \ {x}] + RiskOf(x))
            BY <2>1 DEF Taken
        <2>3. [s \in SUBSET T |-> IF s = {} THEN 0 ELSE f[s \ {Taken(s)}] + g[Taken(s)]] = Rec(f)
            BY <2>2
        <2> HIDE DEF Rec
        <2> QED
            BY <2>3 DEF Adds
    <1>4. it = Rec(it)
        <2>1. \E f : f = Rec(f)
            <3> HIDE DEF Rec
            <3> QED
                BY <1>1, <1>3, SumExists
        <2> HIDE DEF Rec
        <2> QED
            BY <2>1
    <1> HIDE DEF it, Rec
    <1>5. IsSum(it, T, g)
        BY <1>1, <1>3, <1>4, SumOrder
    <1> QED
        BY <1>2, <1>5, SumUnique

\* So is what positions hold.
LEMMA LotsIsSum ==
    ASSUME NEW U, IsFiniteSet(U), NEW g, NEW h, IsSum(h, U, g), NEW T \in SUBSET U,
           \A i \in T : g[i] = i.qty /\ g[i] \in Int
    PROVE  Lots(T) = h[T]
    <1>1. IsFiniteSet(T)
        BY FS_Subset
    <1> DEFINE Rec(f) == [s \in SUBSET T |->
                   IF s = {} THEN 0 ELSE LET x == CHOOSE y \in s : TRUE IN f[s \ {x}] + x.qty]
               it == CHOOSE f : f = Rec(f)
    <1>2. Lots(T) = it[T]
        BY DEF Lots, TotalOver, FoldSet, MapThenFoldSet
    <1>3. ASSUME NEW f PROVE Adds(f, T, g) <=> f = Rec(f)
        <2>1. \A s \in SUBSET T : s # {} => g[Taken(s)] = Taken(s).qty
            BY TakenOf
        <2>2. \A s \in SUBSET T : (IF s = {} THEN 0 ELSE f[s \ {Taken(s)}] + g[Taken(s)])
                 = (IF s = {} THEN 0 ELSE LET x == CHOOSE y \in s : TRUE IN f[s \ {x}] + x.qty)
            BY <2>1 DEF Taken
        <2>3. [s \in SUBSET T |-> IF s = {} THEN 0 ELSE f[s \ {Taken(s)}] + g[Taken(s)]] = Rec(f)
            BY <2>2
        <2> HIDE DEF Rec
        <2> QED
            BY <2>3 DEF Adds
    <1>4. it = Rec(it)
        <2>1. \E f : f = Rec(f)
            <3> HIDE DEF Rec
            <3> QED
                BY <1>1, <1>3, SumExists
        <2> HIDE DEF Rec
        <2> QED
            BY <2>1
    <1> HIDE DEF it, Rec
    <1>5. IsSum(it, T, g)
        BY <1>1, <1>3, <1>4, SumOrder
    <1> QED
        BY <1>2, <1>5, SumUnique

\* So is what orders have filled.
LEMMA NetIsSum ==
    ASSUME NEW U, IsFiniteSet(U), NEW g, NEW h, IsSum(h, U, g), NEW T \in SUBSET U, NEW book,
           \A i \in T : g[i] = Signed(book[i].side, book[i].qty) /\ g[i] \in Int
    PROVE  Net(T, book) = h[T]
    <1>1. IsFiniteSet(T)
        BY FS_Subset
    <1> DEFINE Rec(f) == [s \in SUBSET T |->
                   IF s = {} THEN 0 ELSE LET x == CHOOSE y \in s : TRUE IN f[s \ {x}] + Signed(book[x].side, book[x].qty)]
               it == CHOOSE f : f = Rec(f)
    <1>2. Net(T, book) = it[T]
        BY DEF Net, TotalOver, FoldSet, MapThenFoldSet
    <1>3. ASSUME NEW f PROVE Adds(f, T, g) <=> f = Rec(f)
        <2>1. \A s \in SUBSET T : s # {} => g[Taken(s)] = Signed(book[Taken(s)].side, book[Taken(s)].qty)
            BY TakenOf
        <2>2. \A s \in SUBSET T : (IF s = {} THEN 0 ELSE f[s \ {Taken(s)}] + g[Taken(s)])
                 = (IF s = {} THEN 0 ELSE LET x == CHOOSE y \in s : TRUE IN f[s \ {x}] + Signed(book[x].side, book[x].qty))
            BY <2>1 DEF Taken
        <2>3. [s \in SUBSET T |-> IF s = {} THEN 0 ELSE f[s \ {Taken(s)}] + g[Taken(s)]] = Rec(f)
            BY <2>2
        <2> HIDE DEF Rec
        <2> QED
            BY <2>3 DEF Adds
    <1>4. it = Rec(it)
        <2>1. \E f : f = Rec(f)
            <3> HIDE DEF Rec
            <3> QED
                BY <1>1, <1>3, SumExists
        <2> HIDE DEF Rec
        <2> QED
            BY <2>1
    <1> HIDE DEF it, Rec
    <1>5. IsSum(it, T, g)
        BY <1>1, <1>3, <1>4, SumOrder
    <1> QED
        BY <1>2, <1>5, SumUnique

\* A part of a book risks no more than all of it, and one position more adds its own.
LEMMA RiskGrows ==
    ASSUME NEW U, IsFiniteSet(U), \A p \in U : RiskOf(p) \in Nat, NEW T \in SUBSET U
    PROVE  /\ Risk(T) \in Nat /\ Risk(T) <= Risk(U)
           /\ \A p \in U : U = T \cup {p} => Risk(U) <= Risk(T) + RiskOf(p)
    <1>1. PICK h, g : /\ IsSum(h, U, g) /\ \A p \in U : g[p] = RiskOf(p)
                      /\ \A s \in SUBSET U : Risk(s) = h[s]
        <2> DEFINE g == [p \in U |-> RiskOf(p)]
        <2>1. \A p \in U : g[p] = RiskOf(p) /\ g[p] \in Int
            OBVIOUS
        <2> HIDE DEF g
        <2>2. PICK h : IsSum(h, U, g)
            BY <2>1, SumExists, SumOrder
        <2>3. \A s \in SUBSET U : Risk(s) = h[s]
            BY <2>1, <2>2, RiskIsSum
        <2> QED
            BY <2>1, <2>2, <2>3
    <1>2. \A s \in SUBSET U : IsFiniteSet(s) /\ Cardinality(s) \in Nat
        BY FS_CardinalityType, FS_Subset
    <1>3. ASSUME NEW s \in SUBSET U, NEW x \in s
          PROVE  h[s] = h[s \ {x}] + g[x] /\ h[s] \in Int /\ h[s \ {x}] \in Int /\ g[x] \in Nat
        BY <1>1 DEF IsSum
    <1> DEFINE S == {k \in Nat : \E s \in SUBSET U : Cardinality(s) = k /\ \E t \in SUBSET s : ~(h[t] \in Nat /\ h[t] <= h[s])}
    <1>4. S = {}
        <2>1. SUFFICES ASSUME S # {} PROVE FALSE
            OBVIOUS
        <2>2. PICK k \in S : \A y \in S : k <= y
            <3>1. S \in SUBSET Nat
                OBVIOUS
            <3> HIDE DEF S
            <3> QED
                BY <2>1, <3>1, LeastNat
        <2>0. PICK s \in SUBSET U : Cardinality(s) = k /\ \E t \in SUBSET s : ~(h[t] \in Nat /\ h[t] <= h[s])
            OBVIOUS
        <2>3. PICK t \in SUBSET s : Cardinality(s) = k /\ ~(h[t] \in Nat /\ h[t] <= h[s])
            BY <2>0
        <2>4. ASSUME NEW x \in s PROVE \A r \in SUBSET (s \ {x}) : h[r] \in Nat /\ h[r] <= h[s \ {x}]
            <3>1. Cardinality(s \ {x}) \in Nat /\ k = Cardinality(s \ {x}) + 1 /\ s \ {x} \in SUBSET U
                BY <1>2, <2>3, OneLess
            <3>2. ~(k <= Cardinality(s \ {x}))
                BY <3>1
            <3>3. Cardinality(s \ {x}) \notin S
                <4> HIDE DEF S
                <4> QED
                    BY <2>2, <3>1, <3>2
            <3> QED
                BY <3>1, <3>3
        <2>5. h[s] \in Nat
            <3>1. CASE s = {}
                BY <1>1, <3>1 DEF IsSum
            <3>2. CASE s # {}
                <4>1. PICK x \in s : TRUE
                    BY <3>2
                <4>2. h[s \ {x}] \in Nat
                    BY <2>4, <4>1
                <4> QED
                    BY <1>3, <4>1, <4>2
            <3> QED
                BY <3>1, <3>2
        <2>6. t # s
            BY <2>3, <2>5
        <2>7. PICK x \in s : x \notin t
            BY <2>6
        <2>8. h[t] \in Nat /\ h[t] <= h[s \ {x}]
            BY <2>4, <2>7
        <2>9. h[s] = h[s \ {x}] + g[x] /\ g[x] \in Nat /\ h[s \ {x}] \in Int
            BY <1>3
        <2>10. h[t] <= h[s]
            BY <2>5, <2>8, <2>9
        <2> QED
            BY <2>3, <2>8, <2>10
    <1>5. ASSUME NEW t \in SUBSET U PROVE h[t] \in Nat /\ h[t] <= h[U]
        <2>1. Cardinality(U) \in Nat /\ Cardinality(U) \notin S
            <3> HIDE DEF S
            <3> QED
                BY <1>2, <1>4
        <2> QED
            BY <2>1
    <1>6. ASSUME NEW p \in U, U = T \cup {p} PROVE h[U] <= h[T] + RiskOf(p)
        <2>1. RiskOf(p) \in Nat /\ h[T] \in Nat
            BY <1>5
        <2>2. CASE p \in T
            <3>1. U = T
                BY <1>6, <2>2
            <3> QED
                BY <2>1, <3>1
        <2>3. CASE p \notin T
            <3>1. U \ {p} = T
                BY <1>6, <2>3
            <3>2. h[U] = h[T] + g[p] /\ g[p] = RiskOf(p)
                BY <1>1, <1>3, <3>1
            <3> QED
                BY <2>1, <3>2
        <2> QED
            BY <2>2, <2>3
    <1> HIDE DEF S
    <1> QED
        BY <1>1, <1>5, <1>6

\* What no position and what one position holds.
LEMMA LotsOfOne ==
    /\ Lots({}) = 0
    /\ \A p : p.qty \in Int => Lots({p}) = p.qty
    <1>1. ASSUME NEW U, IsFiniteSet(U), \A p \in U : p.qty \in Int
          PROVE  \E h, g : IsSum(h, U, g) /\ (\A p \in U : g[p] = p.qty) /\ Lots(U) = h[U]
        <2> DEFINE g == [p \in U |-> p.qty]
        <2>1. \A p \in U : g[p] = p.qty /\ g[p] \in Int
            BY <1>1
        <2> HIDE DEF g
        <2>2. PICK h : IsSum(h, U, g)
            BY <1>1, <2>1, SumExists, SumOrder
        <2>3. Lots(U) = h[U]
            BY <1>1, <2>1, <2>2, LotsIsSum
        <2> QED
            BY <2>1, <2>2, <2>3
    <1>2. Lots({}) = 0
        BY <1>1, FS_EmptySet DEF IsSum
    <1>3. ASSUME NEW p, p.qty \in Int PROVE Lots({p}) = p.qty
        <2>1. IsFiniteSet({p})
            BY FS_Singleton
        <2>2. PICK h, g : IsSum(h, {p}, g) /\ g[p] = p.qty /\ Lots({p}) = h[{p}]
            BY <1>1, <1>3, <2>1
        <2>3. h[{p}] = h[{p} \ {p}] + g[p] /\ h[{}] = 0
            BY <2>2 DEF IsSum
        <2>4. {p} \ {p} = {}
            OBVIOUS
        <2> QED
            BY <1>3, <2>2, <2>3, <2>4
    <1> QED
        BY <1>2, <1>3

\* What orders have filled depends on their sides and quantities, and an order adds its own.
LEMMA NetGrows ==
    ASSUME NEW S, IsFiniteSet(S), NEW book, NEW new,
           \A i \in S : book[i].qty \in Nat /\ new[i].side = book[i].side /\ new[i].qty = book[i].qty
    PROVE  /\ Net(S, new) = Net(S, book) /\ Net(S, book) \in Int
           /\ \A k : k \notin S /\ new[k].qty \in Nat =>
                 Net(S \cup {k}, new) = Net(S, book) + Signed(new[k].side, new[k].qty)
    <1>1. ASSUME NEW side, NEW qty \in Nat PROVE Signed(side, qty) \in Int
        BY DEF Signed
    <1>2. ASSUME NEW U, IsFiniteSet(U), S \subseteq U, \A i \in U : new[i].qty \in Nat
          PROVE  \E h, g : /\ IsSum(h, U, g) /\ (\A i \in U : g[i] = Signed(new[i].side, new[i].qty))
                            /\ Net(U, new) = h[U] /\ Net(S, new) = h[S] /\ Net(S, book) = h[S]
        <2> DEFINE g == [i \in U |-> Signed(new[i].side, new[i].qty)]
        <2>1. \A i \in U : g[i] = Signed(new[i].side, new[i].qty) /\ g[i] \in Int
            BY <1>1, <1>2
        <2> HIDE DEF g
        <2>2. PICK h : IsSum(h, U, g)
            BY <1>2, <2>1, SumExists, SumOrder
        <2>3. Net(U, new) = h[U] /\ Net(S, new) = h[S]
            BY <1>2, <2>1, <2>2, NetIsSum
        <2>4. \A i \in S : g[i] = Signed(book[i].side, book[i].qty) /\ g[i] \in Int
            BY <1>2, <2>1
        <2>5. Net(S, book) = h[S]
            BY <1>2, <2>2, <2>4, NetIsSum
        <2> QED
            BY <2>1, <2>2, <2>3, <2>5
    <1>3. Net(S, new) = Net(S, book) /\ Net(S, book) \in Int
        <2>1. PICK h, g : /\ IsSum(h, S, g) /\ Net(S, new) = h[S] /\ Net(S, book) = h[S]
            BY <1>2
        <2> QED
            BY <2>1 DEF IsSum
    <1>4. ASSUME NEW k, k \notin S, new[k].qty \in Nat
          PROVE  Net(S \cup {k}, new) = Net(S, book) + Signed(new[k].side, new[k].qty)
        <2>1. PICK U : U = S \cup {k}
            OBVIOUS
        <2>2. IsFiniteSet(U) /\ S \subseteq U /\ k \in U /\ U \ {k} = S /\ \A i \in U : new[i].qty \in Nat
            BY <1>4, <2>1, FS_AddElement
        <2>3. PICK h, g : /\ IsSum(h, U, g) /\ g[k] = Signed(new[k].side, new[k].qty)
                          /\ Net(U, new) = h[U] /\ Net(S, book) = h[S]
            BY <1>2, <2>2
        <2>4. h[U] = h[U \ {k}] + g[k]
            BY <2>2, <2>3 DEF IsSum
        <2> QED
            BY <2>1, <2>2, <2>3, <2>4
    <1> QED
        BY <1>3, <1>4

-----------------------------------------------------------------------------
(* The bot's books *)

ForBot == {"bot", "close"}
PassFields == {"on", "view", "todo", "cap", "working", "added", "deleted", "expired"}

\* Working orders are none of the bot's; what the bot has ordered is a number; and so is what
\* a broker filled an order at.
BooksOk ==
    /\ \A k \in DOMAIN orders : /\ orders[k].status = "new" => orders[k].by \notin ForBot
                                /\ orders[k].by \in ForBot => orders[k].qty \in Nat
    /\ \A i \in DOMAIN exchange : exchange[i].status = "filled" => exchange[i].price \in Nat

\* What a thread is doing, as far as the bot's books depend on it.
AskOk(r) ==
    /\ r.pc = "put" => [field |-> r.field, to |-> r.to] \in Puts
    /\ r.pc = "cancel" => orders[r.order].by \notin ForBot
    /\ r.pc = "match" => \A i \in r.working : orders[i].by \notin ForBot
    /\ r.pc = "wait" => settings.router # "paper"
    /\ r.pc \in {"fold", "commit"} =>
          /\ \A i \in Matched(r.fills) : orders[i].by \notin ForBot
          /\ r.by \in ForBot => Matched(r.fills) = {} /\ r.fills[1].price \in Nat
    /\ r.pc \in Carrying =>
          /\ r.by \in {"desk"} \cup ForBot
          /\ r.by \in ForBot => r.pc # "match" /\ r.limit = 0 /\ r.price \in Nat /\ r.qty \in Nat
          /\ r.by = "close" => r.side = "sell" /\ \E p \in r.pos : r.pos = {p} /\ r.qty = p.qty /\ r.sym = p.sym

ClosesOne(r) == r.pc \in Carrying /\ r.by = "close"

\* A position of the bot.
Position(p) ==
    /\ p.id \in Nat /\ p.id <= lastId /\ p.sym \in Symbols
    /\ p.qty \in Nat /\ p.entry \in Int /\ p.stop \in Int

\* All positions that somebody knows of.
Known == held \cup pass.working \cup pass.added \cup UNION {req[t].pos : t \in {u \in Threads : ClosesOne(req[u])}}

OneEach(S) == \A p, q \in S : p.sym = q.sym => p = q

\* The bot's tables and the positions that its threads know of.
OpenOk ==
    /\ lastId \in Nat /\ sold \in SUBSET Nat /\ \A i \in sold : i <= lastId
    /\ IsFiniteSet(held) /\ OneEach(held)
    /\ \A p \in Known : Position(p)
    /\ \A p, q \in Known : p.id = q.id => p = q
    /\ config = [enabled |-> config.enabled, mode |-> config.mode, basket |-> config.basket, cap |-> config.cap]
    /\ config.basket \in Seq(Symbols) /\ config.cap \in Nat

\* A pass holds what it read, with what it has bought and without what it has sold.
PassRows ==
    /\ DOMAIN pass = PassFields /\ pass.on \in BOOLEAN
    /\ ~pass.on => pass = NoPass
    /\ pass.on =>
          /\ pass.view \in [Symbols -> View] /\ pass.todo \in Seq(Symbols) /\ pass.cap \in Nat
          /\ IsFiniteSet(pass.working) /\ OneEach(pass.working)
          /\ Flushed \subseteq pass.working
    /\ pass.added \cap held = {}
    /\ \A p \in pass.added : p.id \notin sold
    /\ \A p \in pass.deleted : p.id \in sold

\* What it has bought and not committed, nobody closes.
PassOk ==
    /\ PassRows
    /\ \A p \in pass.added : \A t \in Threads : ClosesOne(req[t]) => p \notin req[t].pos

\* The scheduler's request is about the pass's symbol.
SchedulerOk ==
    LET r == req[Scheduler] IN
    /\ r.pc \in {"idle", "gate", "route", "wait", "fold", "commit", "filled", "refused"}
    /\ r.pc # "idle" =>
          /\ pass.on /\ pass.todo # <<>> /\ r.by = "bot" /\ r.sym = Sym
          /\ r.side = "buy" => Mine = {}
          /\ r.side # "buy" => r.side = "sell" /\ \E p \in Mine : r.qty = p.qty
    /\ r.pc = "filled" =>
          /\ pass.added = {} /\ pass.deleted = {}
          /\ r.side # "buy" => \A p \in Mine : p.id \in sold

\* What is not sold, and what was bought for it.
Watched(sym) == {p \in held \cup pass.added : p.sym = sym /\ p.id \notin sold}
Unbooked(sym) ==
    LET r == req[Scheduler]
    IN IF pass.on /\ r.pc = "filled" /\ r.side = "buy" /\ r.sym = sym THEN r.qty ELSE 0
Bought(sym) == Net(ByBot(sym), orders) = Lots(Watched(sym)) + Unbooked(sym)

\* A request is not the bot's own; a close that was filled has sold its position.
ClientOk(r) ==
    /\ r.pc \in Carrying => r.by # "bot"
    /\ r.pc = "filled" => r.by = "close" /\ \A p \in r.pos : p.id \in sold

BotInv ==
    /\ BooksOk /\ OpenOk /\ PassOk /\ SchedulerOk
    /\ \A t \in Threads : AskOk(req[t])
    /\ \A t \in Threads \ {Scheduler} : ClientOk(req[t])
    /\ \A sym \in Symbols \ strayed : Bought(sym)

\* The paper router fills at the price an order was sized at.
BudgetOk ==
    LET r == req[Scheduler] IN
    /\ \A p \in held \cup pass.working : RiskOf(p) \in Nat
    /\ pass.added # {} => Risk(pass.working) <= pass.cap
    /\ r.pc # "idle" /\ r.side = "buy" =>
          /\ r.price = LastPrice /\ Risk(pass.working) + r.qty * StopDistance <= pass.cap
          /\ r.pc \in {"fold", "commit"} => r.fills[1].price = r.price
BudgetInv == settings.router = "paper" => BudgetOk

\* The indices of the orders table are finitely many.
LEMMA BooksFinite ==
    ASSUME BrokerInv
    PROVE  /\ IsFiniteSet(DOMAIN orders)
           /\ \A sym : ByBot(sym) \subseteq DOMAIN orders /\ IsFiniteSet(ByBot(sym))
    <1>1. PICK n \in Nat : orders = [i \in 1 .. n |-> orders[i]]
        BY DEF BrokerInv, TablesOk, IsSeq
    <1>2. IsFiniteSet(1 .. n)
        BY FS_Interval
    <1>3. DOMAIN orders = 1 .. n
        BY <1>1
    <1>4. \A sym : ByBot(sym) \subseteq DOMAIN orders
        BY DEF ByBot, Filled
    <1> QED
        BY <1>2, <1>3, <1>4, FS_Subset

\* What was bought for a symbol stays so as long as no order of the bot's is filled or sold.
LEMMA BoughtKept ==
    ASSUME BrokerInv, BotInv, NEW sym \in Symbols \ strayed,
           ByBot(sym)' = ByBot(sym), Watched(sym)' = Watched(sym), Unbooked(sym)' = Unbooked(sym),
           \A k \in DOMAIN orders : orders'[k].side = orders[k].side /\ orders'[k].qty = orders[k].qty
    PROVE  Bought(sym)'
    <1>1. PICK S, W, u, book, new : /\ S = ByBot(sym) /\ W = Watched(sym) /\ u = Unbooked(sym)
                                    /\ book = orders /\ new = orders'
        OBVIOUS
    <1>2. IsFiniteSet(S) /\ S \subseteq DOMAIN book
        BY <1>1, BooksFinite
    <1>3. \A k \in S : book[k].qty \in Nat /\ new[k].side = book[k].side /\ new[k].qty = book[k].qty
        <2>1. \A k \in S : orders[k].by \in ForBot
            BY <1>1 DEF ByBot, ForBot
        <2> QED
            BY <1>1, <1>2, <2>1 DEF BotInv, BooksOk
    <1>4. Net(S, new) = Net(S, book)
        BY <1>2, <1>3, NetGrows
    <1>5. Net(S, book) = Lots(W) + u
        BY <1>1 DEF BotInv, Bought
    <1>6. Net(S, new) = Lots(W) + u
        BY <1>4, <1>5
    <1> QED
        BY <1>1, <1>6 DEF Bought

\* Orders that are recorded or changed besides the bot's.
Beside ==
    /\ \A k \in DOMAIN orders :
          /\ k \in DOMAIN orders' /\ orders'[k].by = orders[k].by
          /\ orders'[k].side = orders[k].side /\ orders'[k].qty = orders[k].qty
    /\ BooksOk' /\ settings' = settings
    /\ \A sym : ByBot(sym)' = ByBot(sym)

\* No order is recorded or changed.
LEMMA BesideNone ==
    ASSUME BotInv, UNCHANGED <<settings, orders, exchange>>
    PROVE  Beside
    <1>1. BooksOk'
        BY DEF BotInv, BooksOk
    <1>2. \A sym : ByBot(sym)' = ByBot(sym)
        BY DEF ByBot, Filled
    <1> QED
        BY <1>1, <1>2 DEF Beside

\* What a thread does stays right when orders are recorded.
LEMMA AskKept ==
    ASSUME NEW r, RequestOk(r), AskOk(r), UNCHANGED settings,
           \A k \in DOMAIN orders : k \in DOMAIN orders' /\ orders'[k].by = orders[k].by
    PROVE  AskOk(r)'
    <1>1. r.pc = "cancel" => r.order \in DOMAIN orders
        BY DEF RequestOk, PaperOrders
    <1>2. r.pc = "match" => r.working \subseteq DOMAIN orders
        BY DEF RequestOk, PaperOrders
    <1>3. r.pc \in {"fold", "commit"} => Matched(r.fills) \subseteq DOMAIN orders
        <2>1. CASE r.at = 0
            BY <2>1 DEF RequestOk, PaperOrders
        <2>2. CASE r.at # 0
            <3>1. r.pc \in {"fold", "commit"} => \E price : r.fills = OwnFill(r, price)
                BY <2>2 DEF RequestOk
            <3> QED
                BY <3>1, OwnFillMatchesNone
        <2> QED
            BY <2>1, <2>2
    <1> QED
        BY <1>1, <1>2, <1>3 DEF AskOk, Puts, Matched

\* The bot's configuration row.
ConfigOk ==
    /\ config = [enabled |-> config.enabled, mode |-> config.mode, basket |-> config.basket, cap |-> config.cap]
    /\ config.basket \in Seq(Symbols) /\ config.cap \in Nat

\* A thread that serves requests goes on; what it forgets of the bot's positions is sold, or
\* their symbols are set aside.
LEMMA ClientMoves ==
    ASSUME BrokerInv, BotInv, NEW t \in Threads \ {Scheduler}, NEW y, req' = [req EXCEPT ![t] = y],
           AskOk(y)', y.pc \in Carrying => y.by # "bot", y.pc # "filled",
           ClosesOne(y) => \A p \in y.pos : p \in held \/ (ClosesOne(req[t]) /\ p \in req[t].pos),
           Beside, UNCHANGED <<pass, lastId, sold, strayed>>, ConfigOk',
           held' \subseteq held, \A p \in held \ held' : p.id \in sold
    PROVE  BotInv'
    <1>1. req' = [u \in Threads |-> IF u = t THEN y ELSE req[u]] /\ req'[t] = y
        BY DEF BrokerInv, TablesOk
    <1>2. req'[Scheduler] = req[Scheduler] /\ Scheduler \in Threads
        BY <1>1, BotAssumption
    <1>3. \A u \in Threads : AskOk(req[u])'
        <2>1. ASSUME NEW u \in Threads, u # t PROVE AskOk(req[u])'
            <3>1. PICK r : r = req[u]
                OBVIOUS
            <3>2. RequestOk(r) /\ AskOk(r)
                BY <3>1 DEF BrokerInv, BotInv
            <3>3. UNCHANGED settings /\ \A k \in DOMAIN orders : k \in DOMAIN orders' /\ orders'[k].by = orders[k].by
                BY DEF Beside
            <3>4. AskOk(r)'
                BY <3>2, <3>3, AskKept
            <3>5. req'[u] = r
                BY <1>1, <2>1, <3>1
            <3> QED
                BY <3>4, <3>5
        <2> QED
            BY <1>1, <2>1
    <1>4. \A u \in Threads \ {Scheduler} : ClientOk(req[u])'
        BY <1>1 DEF BotInv, ClientOk
    <1>5. Known' \subseteq Known
        <2>1. ASSUME NEW p \in Known' PROVE p \in Known
            <3>1. CASE p \in held' \cup pass'.working \cup pass'.added
                BY <3>1 DEF Known
            <3>2. CASE \E u \in Threads : ClosesOne(req'[u]) /\ p \in req'[u].pos
                <4>1. PICK u \in Threads : ClosesOne(req'[u]) /\ p \in req'[u].pos
                    BY <3>2
                <4>2. p \in held \/ (ClosesOne(req[u]) /\ p \in req[u].pos)
                    BY <1>1, <4>1
                <4> QED
                    BY <4>2 DEF Known
            <3> QED
                BY <2>1, <3>1, <3>2 DEF Known, ClosesOne
        <2> QED
            BY <2>1
    <1>6. OpenOk'
        <2>1. IsFiniteSet(held') /\ OneEach(held')
            BY FS_Subset DEF BotInv, OpenOk, OneEach
        <2>2. \A p \in Known' : Position(p)'
            BY <1>5 DEF BotInv, OpenOk, Position
        <2>3. \A p, q \in Known' : p.id = q.id => p = q
            BY <1>5 DEF BotInv, OpenOk
        <2>4. lastId' \in Nat /\ sold' \in SUBSET Nat /\ \A i \in sold' : i <= lastId'
            BY DEF BotInv, OpenOk
        <2> QED
            BY <2>1, <2>2, <2>3, <2>4 DEF OpenOk, ConfigOk, OneEach
    <1>7. PassOk'
        <2>1. ASSUME NEW p \in pass.added, NEW u \in Threads, ClosesOne(req'[u]) PROVE p \notin req'[u].pos
            <3>1. p \notin held /\ (ClosesOne(req[u]) => p \notin req[u].pos)
                BY DEF BotInv, PassOk, PassRows
            <3> QED
                BY <1>1, <2>1, <3>1
        <2>2. Flushed' \subseteq Flushed
            BY DEF Flushed
        <2> QED
            BY <2>1, <2>2 DEF BotInv, PassOk, PassRows, ClosesOne
    <1>8. SchedulerOk'
        BY <1>2 DEF BotInv, SchedulerOk, Sym, Mine
    <1>9. ASSUME NEW sym \in Symbols \ strayed PROVE Bought(sym)'
        <2>1. Watched(sym)' = Watched(sym)
            BY DEF Watched
        <2>2. Unbooked(sym)' = Unbooked(sym)
            BY <1>2 DEF Unbooked
        <2> QED
            BY <2>1, <2>2, BoughtKept DEF Beside
    <1> QED
        BY <1>3, <1>4, <1>6, <1>7, <1>8, <1>9 DEF BotInv, Beside

\* Or the orders table is left alone.
Apart == Beside /\ UNCHANGED orders

LEMMA ApartNone ==
    ASSUME BotInv, UNCHANGED <<settings, orders, exchange>>
    PROVE  Apart
    BY BesideNone DEF Apart

\* A request that goes on with what it asked for.
Carries(r, y) ==
    /\ DOMAIN y = Fields /\ y.by = r.by /\ y.sym = r.sym /\ y.side = r.side /\ y.qty = r.qty
    /\ y.limit = r.limit /\ y.pos = r.pos

\* A thread's fill moves on, before its commit; a fill of the paper router is at the price
\* that was asked.
GoesOn(t, y) ==
    LET r == req[t] IN
    /\ req' = [req EXCEPT ![t] = y] /\ Apart /\ AskOk(y) /\ r.pc \in {"gate", "route", "wait", "fold"}
    /\ \/ y = Idle /\ r.by = "desk"
       \/ y.pc \in {"route", "wait", "fold", "commit", "refused"} /\ Carries(r, y) /\ y.price = r.price
    /\ settings.router = "paper" =>
          /\ y.pc # "wait"
          /\ r.by = "bot" /\ y.pc = "fold" => y.fills[1].price = y.price
          /\ y.pc = "commit" => r.pc = "fold" /\ y.fills = r.fills

\* A thread between its request and its commit.
LEMMA OnItsWay ==
    ASSUME BrokerInv, BotInv, NEW t \in Threads, req[t].pc \in Carrying
    PROVE  DOMAIN req[t] = Fields /\ AskOk(req[t]) /\ RequestOk(req[t])
    BY DEF BrokerInv, BotInv, RequestOk

\* A thread that does nothing asks nothing.
LEMMA IdleAsk == AskOk(Idle) /\ Idle.pc = "idle" /\ ~ClosesOne(Idle) /\ Idle.pc \notin Carrying
    BY DEF AskOk, Idle, ClosesOne, Carrying

\* What is asked stays right while the request goes on.
LEMMA CarriesAsk ==
    ASSUME NEW r, NEW y, AskOk(r), r.pc \in Carrying, r.pc # "match", Carries(r, y), y.price = r.price,
           y.pc \in {"route", "wait", "fold", "commit", "filled", "refused"},
           y.pc = "wait" => settings.router # "paper",
           y.pc \in {"fold", "commit"} =>
              /\ \A i \in Matched(y.fills) : orders[i].by \notin ForBot
              /\ y.by \in ForBot => Matched(y.fills) = {} /\ y.fills[1].price \in Nat
    PROVE  AskOk(y)
    BY DEF AskOk, Carries, Carrying

\* Refused: the order endpoint answers, the others learn of it.
LEMMA RefusedGoesOn ==
    ASSUME BrokerInv, BotInv, NEW t \in Threads, req[t].pc \in {"gate", "route", "wait"}, Apart, Refused(t)
    PROVE  \E y : GoesOn(t, y)
    <1>1. PICK r : r = req[t]
        OBVIOUS
    <1>2. DOMAIN r = Fields /\ AskOk(r) /\ r.pc \in Carrying /\ r.pc \in {"gate", "route", "wait"} /\ r.pc # "match"
        BY <1>1, OnItsWay DEF Carrying
    <1>3. CASE r.by = "desk"
        <2>1. req' = [req EXCEPT ![t] = Idle]
            BY <1>1, <1>3 DEF Refused, Return, Set
        <2> QED
            BY <1>1, <1>2, <1>3, <2>1, IdleAsk DEF GoesOn
    <1>4. CASE r.by # "desk"
        <2>1. PICK y : y = [r EXCEPT !.pc = "refused"]
            OBVIOUS
        <2>2. req' = [req EXCEPT ![t] = y]
            BY <1>1, <1>4, <2>1 DEF Refused, Return, Set
        <2>3. y.pc = "refused" /\ Carries(r, y) /\ y.price = r.price
            BY <1>2, <2>1 DEF Carries, Fields
        <2>4. AskOk(y)
            BY <1>2, <2>3, CarriesAsk
        <2> QED
            BY <1>1, <1>2, <2>2, <2>3, <2>4 DEF GoesOn
    <1> QED
        BY <1>3, <1>4

\* The gate.
LEMMA GateGoesOn ==
    ASSUME BrokerInv, BotInv, NEW t \in Threads, NEW reading, Gate(t, reading)
    PROVE  \E y : GoesOn(t, y)
    <1>1. PICK r : r = req[t]
        OBVIOUS
    <1>2. r.pc = "gate" /\ Apart
        BY <1>1, ApartNone DEF Gate, At
    <1>3. DOMAIN r = Fields /\ AskOk(r) /\ r.pc \in Carrying
        BY <1>1, <1>2, OnItsWay DEF Carrying
    <1>4. CASE Refused(t)
        BY <1>1, <1>2, <1>4, RefusedGoesOn
    <1>5. CASE Goto(t, "route")
        <2>1. PICK y : y = [r EXCEPT !.pc = "route"]
            OBVIOUS
        <2>2. req' = [req EXCEPT ![t] = y]
            BY <1>1, <1>5, <2>1 DEF Goto, Set
        <2>3. y.pc = "route" /\ Carries(r, y) /\ y.price = r.price
            BY <1>3, <2>1 DEF Carries, Fields
        <2>4. AskOk(y)
            BY <1>2, <1>3, <2>3, CarriesAsk
        <2> QED
            BY <1>1, <1>2, <2>2, <2>3, <2>4 DEF GoesOn
    <1> QED
        BY <1>4, <1>5 DEF Gate

\* The internal matcher's fill of one order.
LEMMA PaperGoesOn ==
    ASSUME BrokerInv, BotInv, NEW t \in Threads, RoutePaper(t)
    PROVE  \E y : GoesOn(t, y)
    <1>1. PICK r : r = req[t]
        OBVIOUS
    <1>2. r.pc = "route" /\ Apart
        BY <1>1, ApartNone DEF RoutePaper, At
    <1>3. DOMAIN r = Fields /\ AskOk(r) /\ r.pc \in Carrying
        BY <1>1, <1>2, OnItsWay DEF Carrying
    <1>4. PICK price : price = IF r.limit # 0 THEN r.limit ELSE r.price
        OBVIOUS
    <1>5. PICK y : y = [r EXCEPT !.pc = "fold", !.fills = OwnFill(r, price), !.via = "paper"]
        OBVIOUS
    <1>6. req' = [req EXCEPT ![t] = y]
        BY <1>1, <1>4, <1>5 DEF RoutePaper, Filling, Set
    <1>7. y.pc = "fold" /\ Carries(r, y) /\ y.fills = OwnFill(r, price) /\ y.price = r.price
        BY <1>3, <1>5 DEF Carries, Fields
    <1>8. Matched(y.fills) = {} /\ y.fills[1].price = price
        BY <1>7, OwnFillMatchesNone DEF OwnFill
    <1>9. r.by \in ForBot => price = r.price /\ price \in Nat
        BY <1>3, <1>4 DEF AskOk
    <1>10. AskOk(y)
        BY <1>2, <1>3, <1>7, <1>8, <1>9, CarriesAsk DEF Carries
    <1> QED
        BY <1>1, <1>2, <1>6, <1>7, <1>8, <1>9, <1>10 DEF GoesOn, ForBot

\* The broker has the order, or the answer was lost.
LEMMA SubmitGoesOn ==
    ASSUME BrokerInv, BotInv, NEW t \in Threads, RouteBroker(t)
    PROVE  \E y : GoesOn(t, y)
    <1>1. PICK r : r = req[t]
        OBVIOUS
    <1>2. r.pc = "route" /\ settings.router = "broker" /\ UNCHANGED <<orders, settings>>
        BY <1>1 DEF RouteBroker, At
    <1>3. DOMAIN r = Fields /\ AskOk(r) /\ r.pc \in Carrying
        BY <1>1, <1>2, OnItsWay DEF Carrying
    <1>4. PICK e : e.status = "live" /\ exchange' = Append(exchange, e)
        BY DEF RouteBroker
    <1>5. Apart
        <2>1. \A i \in DOMAIN exchange' : exchange'[i].status = "filled" => i \in DOMAIN exchange /\ exchange'[i] = exchange[i]
            <3>1. IsSeq(exchange)
                BY DEF BrokerInv, TablesOk
            <3> QED
                BY <1>4, <3>1, Appended
        <2>2. BooksOk'
            BY <1>2, <2>1 DEF BotInv, BooksOk
        <2>3. \A sym : ByBot(sym)' = ByBot(sym)
            BY <1>2 DEF ByBot, Filled
        <2> QED
            BY <1>2, <2>2, <2>3 DEF Apart, Beside
    <1>6. CASE Refused(t)
        BY <1>1, <1>2, <1>5, <1>6, RefusedGoesOn
    <1>7. CASE Set(t, [req[t] EXCEPT !.pc = "wait", !.at = Len(exchange')])
        <2>1. PICK y : y = [r EXCEPT !.pc = "wait", !.at = Len(exchange')]
            OBVIOUS
        <2>2. req' = [req EXCEPT ![t] = y]
            BY <1>1, <1>7, <2>1 DEF Set
        <2>3. y.pc = "wait" /\ Carries(r, y) /\ y.price = r.price
            BY <1>3, <2>1 DEF Carries, Fields
        <2>4. AskOk(y)
            BY <1>2, <1>3, <2>3, CarriesAsk
        <2> QED
            BY <1>1, <1>2, <1>5, <2>2, <2>3, <2>4 DEF GoesOn
    <1> QED
        BY <1>6, <1>7 DEF RouteBroker

\* The broker's answer, or the end of the wait for it.
LEMMA WaitGoesOn ==
    ASSUME BrokerInv, BotInv, NEW t \in Threads, WaitForFill(t)
    PROVE  \E y : GoesOn(t, y)
    <1>1. PICK r : r = req[t]
        OBVIOUS
    <1>2. r.pc = "wait" /\ Apart
        BY <1>1, ApartNone DEF WaitForFill, At
    <1>3. DOMAIN r = Fields /\ AskOk(r) /\ RequestOk(r) /\ r.pc \in Carrying
        BY <1>1, <1>2, OnItsWay DEF Carrying
    <1>4. r.at \in DOMAIN exchange
        BY <1>2, <1>3 DEF RequestOk, Holds
    <1>5. PICK b : b = exchange[r.at]
        OBVIOUS
    <1>6. CASE Refused(t)
        BY <1>1, <1>2, <1>6, RefusedGoesOn
    <1>7. CASE b.status = "filled" /\ Filling(t, OwnFill(r, b.price), "broker")
        <2>1. b.price \in Nat
            BY <1>4, <1>5, <1>7 DEF BotInv, BooksOk
        <2>2. PICK y : y = [r EXCEPT !.pc = "fold", !.fills = OwnFill(r, b.price), !.via = "broker"]
            OBVIOUS
        <2>3. req' = [req EXCEPT ![t] = y]
            BY <1>1, <1>7, <2>2 DEF Filling, Set
        <2>4. y.pc = "fold" /\ Carries(r, y) /\ y.fills = OwnFill(r, b.price) /\ y.price = r.price
            BY <1>3, <2>2 DEF Carries, Fields
        <2>5. Matched(y.fills) = {} /\ y.fills[1].price = b.price
            BY <2>4, OwnFillMatchesNone DEF OwnFill
        <2>6. AskOk(y)
            BY <1>2, <1>3, <2>1, <2>4, <2>5, CarriesAsk
        <2>7. settings.router # "paper"
            BY <1>2, <1>3 DEF AskOk
        <2> QED
            BY <1>1, <1>2, <2>3, <2>4, <2>6, <2>7 DEF GoesOn
    <1> QED
        BY <1>1, <1>5, <1>6, <1>7 DEF WaitForFill

\* The position is read.
LEMMA ReadGoesOn ==
    ASSUME BrokerInv, BotInv, NEW t \in Threads, ReadPosition(t)
    PROVE  \E y : GoesOn(t, y)
    <1>1. PICK r : r = req[t]
        OBVIOUS
    <1>2. r.pc = "fold" /\ Apart
        BY <1>1, ApartNone DEF ReadPosition, At
    <1>3. DOMAIN r = Fields /\ AskOk(r) /\ r.pc \in Carrying
        BY <1>1, <1>2, OnItsWay DEF Carrying
    <1>4. PICK row, read : Set(t, [req[t] EXCEPT !.pc = "commit", !.row = row, !.read = read])
        BY DEF ReadPosition
    <1>5. PICK y : y = [r EXCEPT !.pc = "commit", !.row = row, !.read = read]
        OBVIOUS
    <1>6. req' = [req EXCEPT ![t] = y]
        BY <1>1, <1>4, <1>5 DEF Set
    <1>7. y.pc = "commit" /\ Carries(r, y) /\ y.fills = r.fills /\ y.price = r.price
        BY <1>3, <1>5 DEF Carries, Fields
    <1>8. /\ \A i \in Matched(r.fills) : orders[i].by \notin ForBot
          /\ r.by \in ForBot => Matched(r.fills) = {} /\ r.fills[1].price \in Nat
        BY <1>2, <1>3 DEF AskOk
    <1>9. AskOk(y)
        BY <1>2, <1>3, <1>7, <1>8, CarriesAsk DEF Carries
    <1> QED
        BY <1>1, <1>2, <1>6, <1>7, <1>9 DEF GoesOn

\* Any of these.
LEMMA RouteGoesOn ==
    ASSUME BrokerInv, BotInv, NEW t \in Threads, RouteStep(t)
    PROVE  \E y : GoesOn(t, y)
    <1>1. CASE RouteRefused(t)
        <2>1. req[t].pc \in {"gate", "route", "wait"} /\ Refused(t) /\ Apart
            BY <1>1, ApartNone DEF RouteRefused, At
        <2> QED
            BY <2>1, RefusedGoesOn
    <1> QED
        BY <1>1, WaitGoesOn, PaperGoesOn, SubmitGoesOn, ReadGoesOn DEF RouteStep

-----------------------------------------------------------------------------
(* The requests' steps *)

\* A thread asks for something, and nothing else changes but what a broker has.
LEMMA ClientTurns ==
    ASSUME BrokerInv, BotInv, NEW t \in Threads \ {Scheduler}, NEW y, req' = [req EXCEPT ![t] = y],
           AskOk(y), y.pc \in Carrying => y.by # "bot", y.pc # "filled",
           ClosesOne(y) => \A p \in y.pos : p \in held \/ (ClosesOne(req[t]) /\ p \in req[t].pos),
           Apart, UNCHANGED botVars
    PROVE  BotInv'
    <1>1. Beside /\ UNCHANGED <<orders, settings, pass, lastId, sold, strayed, held, config>>
        BY DEF Apart, Beside, botVars
    <1>2. AskOk(y)'
        BY <1>1 DEF AskOk, Puts
    <1>3. ConfigOk'
        BY <1>1 DEF ConfigOk, BotInv, OpenOk
    <1> QED
        BY <1>1, <1>2, <1>3, ClientMoves

LEMMA ClientGoesOn ==
    ASSUME BrokerInv, BotInv, NEW t \in Threads \ {Scheduler}, NEW y, GoesOn(t, y), UNCHANGED botVars
    PROVE  BotInv'
    <1>1. PICK r : r = req[t]
        OBVIOUS
    <1>2. r.pc \in Carrying /\ r.by # "bot"
        BY <1>1 DEF GoesOn, Carrying, BotInv, ClientOk
    <1>3. req' = [req EXCEPT ![t] = y] /\ AskOk(y) /\ Apart
        BY DEF GoesOn
    <1>4. CASE y = Idle
        BY <1>3, <1>4, IdleAsk, ClientTurns
    <1>5. CASE y.pc \in {"route", "wait", "fold", "commit", "refused"} /\ Carries(r, y)
        <2>1. ClosesOne(y) => ClosesOne(r) /\ y.pos = r.pos
            BY <1>2, <1>5 DEF ClosesOne, Carries
        <2>2. y.by # "bot" /\ y.pc # "filled"
            BY <1>2, <1>5 DEF Carries
        <2> QED
            BY <1>1, <1>3, <2>1, <2>2, ClientTurns
    <1> QED
        BY <1>1, <1>4, <1>5 DEF GoesOn

LEMMA PlaceOrderBot ==
    ASSUME BrokerInv, BotInv, NEW t \in Threads \ {Scheduler}, PlaceOrder(t), UNCHANGED botVars PROVE BotInv'
    <1>1. PICK sym, side, qty, ref, limit : Set(t, FillRequest("desk", sym, side, qty, ref, limit))
        BY DEF PlaceOrder
    <1>2. PICK y : y = FillRequest("desk", sym, side, qty, ref, limit)
        OBVIOUS
    <1>3. y.pc = "gate" /\ y.by = "desk"
        BY <1>2 DEF FillRequest, Request
    <1>4. AskOk(y) /\ ~ClosesOne(y)
        BY <1>3 DEF AskOk, ClosesOne, ForBot
    <1>5. Apart /\ req' = [req EXCEPT ![t] = y]
        BY <1>1, <1>2, ApartNone DEF PlaceOrder, Set
    <1> QED
        BY <1>3, <1>4, <1>5, ClientTurns

LEMMA MatchReadBot ==
    ASSUME BrokerInv, BotInv, NEW t \in Threads \ {Scheduler}, MatchRead(t), UNCHANGED botVars PROVE BotInv'
    <1>1. PICK sym, price : Set(t, [Request("match", sym, price) EXCEPT !.working = Working(sym)])
        BY DEF MatchRead
    <1>2. PICK y : y = [Request("match", sym, price) EXCEPT !.working = Working(sym)]
        OBVIOUS
    <1>3. y.pc = "match" /\ y.by = "desk" /\ y.working = Working(sym)
        BY <1>2 DEF Request
    <1>4. \A i \in Working(sym) : orders[i].by \notin ForBot
        BY DEF Working, BotInv, BooksOk
    <1>5. AskOk(y) /\ ~ClosesOne(y)
        BY <1>3, <1>4 DEF AskOk, ClosesOne, ForBot
    <1>6. Apart /\ req' = [req EXCEPT ![t] = y]
        BY <1>1, <1>2, ApartNone DEF MatchRead, Set
    <1> QED
        BY <1>3, <1>5, <1>6, ClientTurns

LEMMA CancelReadBot ==
    ASSUME BrokerInv, BotInv, NEW t \in Threads \ {Scheduler}, CancelRead(t), UNCHANGED botVars PROVE BotInv'
    <1>1. PICK i \in DOMAIN orders : orders[i].status = "new" /\ Set(t, [pc |-> "cancel", by |-> "desk", order |-> i])
        BY DEF CancelRead
    <1>2. PICK y : y = [pc |-> "cancel", by |-> "desk", order |-> i]
        OBVIOUS
    <1>3. y.pc = "cancel" /\ y.order = i /\ "cancel" \notin Carrying
        BY <1>2 DEF Carrying
    <1>4. AskOk(y) /\ ~ClosesOne(y)
        BY <1>1, <1>3 DEF AskOk, ClosesOne, BotInv, BooksOk
    <1>5. Apart /\ req' = [req EXCEPT ![t] = y]
        BY <1>1, <1>2, ApartNone DEF CancelRead, Set
    <1> QED
        BY <1>3, <1>4, <1>5, ClientTurns

LEMMA PutConfigBot ==
    ASSUME BrokerInv, BotInv, NEW t \in Threads \ {Scheduler}, PutConfig(t) PROVE BotInv'
    <1>1. PICK put \in Puts : Set(t, [pc |-> "put", by |-> "desk", field |-> put.field, to |-> put.to])
        BY DEF PutConfig
    <1>2. PICK y : y = [pc |-> "put", by |-> "desk", field |-> put.field, to |-> put.to]
        OBVIOUS
    <1>3. y.pc = "put" /\ "put" \notin Carrying /\ y.field = put.field /\ y.to = put.to
        BY <1>2 DEF Carrying
    <1>4. put = [field |-> put.field, to |-> put.to]
        BY DEF Puts
    <1>5. AskOk(y) /\ ~ClosesOne(y)
        BY <1>3, <1>4 DEF AskOk, ClosesOne
    <1>6. Apart /\ req' = [req EXCEPT ![t] = y] /\ UNCHANGED botVars
        BY <1>1, <1>2, ApartNone DEF PutConfig, Set
    <1> QED
        BY <1>3, <1>5, <1>6, ClientTurns

LEMMA CloseReadBot ==
    ASSUME BrokerInv, BotInv, NEW t \in Threads \ {Scheduler}, CloseRead(t) PROVE BotInv'
    <1>1. PICK p \in held, last \in Prices :
             Set(t, [FillRequest("close", p.sym, "sell", p.qty, last, 0) EXCEPT !.pos = {p}])
        BY DEF CloseRead
    <1>2. PICK y : y = [FillRequest("close", p.sym, "sell", p.qty, last, 0) EXCEPT !.pos = {p}]
        OBVIOUS
    <1>3. /\ y.pc = "gate" /\ y.by = "close" /\ y.side = "sell" /\ y.qty = p.qty /\ y.sym = p.sym
          /\ y.pos = {p} /\ y.limit = 0 /\ y.price = last
        BY <1>2 DEF FillRequest, Request
    <1>4. Position(p)
        BY DEF BotInv, OpenOk, Known
    <1>5. AskOk(y)
        BY <1>3, <1>4, OrdersAssumption DEF AskOk, ForBot, Position
    <1>6. Apart /\ req' = [req EXCEPT ![t] = y] /\ UNCHANGED botVars
        BY <1>1, <1>2, ApartNone DEF CloseRead, Set
    <1> QED
        BY <1>3, <1>5, <1>6, ClientTurns

\* Its fill is committed or refused: a position that was sold is deleted.
LEMMA CloseDoneBot ==
    ASSUME BrokerInv, BotInv, NEW t \in Threads \ {Scheduler}, CloseDone(t) PROVE BotInv'
    <1>1. req' = [req EXCEPT ![t] = Idle] /\ UNCHANGED <<settings, orders, exchange, pass, lastId, sold, strayed, config>>
        BY DEF CloseDone, Set
    <1>2. Beside /\ AskOk(Idle)'
        BY <1>1, BesideNone, IdleAsk DEF AskOk, Idle
    <1>3. ConfigOk'
        BY <1>1 DEF ConfigOk, BotInv, OpenOk
    <1>4. held' \subseteq held /\ \A p \in held \ held' : p.id \in sold
        BY DEF CloseDone, At, BotInv, ClientOk
    <1> QED
        BY <1>1, <1>2, <1>3, <1>4, IdleAsk, ClientMoves

\* A change of the configuration is committed.
LEMMA PutCommitBot ==
    ASSUME BrokerInv, BotInv, NEW t \in Threads \ {Scheduler}, PutCommit(t) PROVE BotInv'
    <1>1. req' = [req EXCEPT ![t] = Idle] /\ UNCHANGED <<settings, orders, exchange, pass, lastId, sold, strayed, held>>
        BY DEF PutCommit, Set
    <1>2. Beside /\ AskOk(Idle)'
        BY <1>1, BesideNone, IdleAsk DEF AskOk, Idle
    <1>3. ConfigOk'
        <2>1. PICK put : put = [field |-> req[t].field, to |-> req[t].to]
            OBVIOUS
        <2>2. put \in Puts
            BY <2>1 DEF PutCommit, At, BotInv, AskOk
        <2>3. config' = [config EXCEPT ![put.field] = put.to]
            BY <2>1 DEF PutCommit
        <2>4. ConfigOk
            BY DEF ConfigOk, BotInv, OpenOk
        <2> QED
            BY <2>2, <2>3, <2>4, BotAssumption DEF Puts, ConfigOk
    <1> QED
        BY <1>1, <1>2, <1>3, IdleAsk, ClientMoves

LEMMA MatchGateBot ==
    ASSUME BrokerInv, BotInv, NEW t \in Threads \ {Scheduler}, MatchGate(t), UNCHANGED botVars PROVE BotInv'
    <1> DEFINE hit == {i \in req[t].working : Crosses(orders[i].side, orders[i].limit, req[t].price)}
               fillOf(i) == [id |-> i, side |-> orders[i].side, qty |-> orders[i].qty,
                             price |-> orders[i].limit]
    <1>1. PICK r : r = req[t]
        OBVIOUS
    <1>2. r.pc = "match" /\ Apart
        BY <1>1, ApartNone DEF MatchGate, At
    <1>3. DOMAIN r = Fields /\ AskOk(r)
        BY <1>1, <1>2, OnItsWay DEF Carrying
    <1>4. r.by = "desk" /\ \A i \in r.working : orders[i].by \notin ForBot
        BY <1>2, <1>3 DEF AskOk, Carrying
    <1>5. CASE Set(t, Idle)
        <2>1. req' = [req EXCEPT ![t] = Idle]
            BY <1>5 DEF Set
        <2> QED
            BY <1>2, <2>1, IdleAsk, ClientTurns
    <1>6. CASE \E ids \in [1 .. Cardinality(hit) -> hit] :
                  Filling(t, [i \in DOMAIN ids |-> fillOf(ids[i])], "paper")
        <2>1. PICK ids \in [1 .. Cardinality(hit) -> hit] :
                 Filling(t, [i \in DOMAIN ids |-> fillOf(ids[i])], "paper")
            BY <1>6
        <2> DEFINE fills == [i \in DOMAIN ids |-> fillOf(ids[i])]
        <2>2. \A i \in DOMAIN fills : fills[i].id \in hit
            BY <2>1
        <2>3. Matched(fills) \subseteq hit
            BY <2>2 DEF Matched
        <2>4. \A i \in Matched(fills) : orders[i].by \notin ForBot
            BY <1>1, <1>4, <2>3
        <2>5. Filling(t, fills, "paper")
            BY <2>1
        <2> HIDE DEF fills
        <2>6. PICK y : y = [r EXCEPT !.pc = "fold", !.fills = fills, !.via = "paper"]
            OBVIOUS
        <2>7. req' = [req EXCEPT ![t] = y]
            BY <1>1, <2>5, <2>6 DEF Filling, Set
        <2>8. y.pc = "fold" /\ y.by = "desk" /\ y.fills = fills
            BY <1>3, <1>4, <2>6 DEF Fields
        <2>9. AskOk(y) /\ ~ClosesOne(y)
            BY <2>4, <2>8 DEF AskOk, ClosesOne, ForBot
        <2> QED
            BY <1>2, <2>7, <2>8, <2>9, ClientTurns
    <1> QED
        BY <1>5, <1>6 DEF MatchGate

\* Orders of others are recorded, filled or cancelled.
LEMMA OthersBeside ==
    ASSUME BrokerInv, BotInv, UNCHANGED <<settings, exchange>>, DOMAIN orders \subseteq DOMAIN orders',
           \A k \in DOMAIN orders' \ DOMAIN orders : orders'[k].by \notin ForBot,
           \A k \in DOMAIN orders :
              \/ orders'[k] = orders[k]
              \/ /\ orders[k].by \notin ForBot /\ orders'[k].by = orders[k].by
                 /\ orders'[k].side = orders[k].side /\ orders'[k].qty = orders[k].qty
    PROVE  Beside
    <1>1. BooksOk'
        BY DEF BotInv, BooksOk
    <1>2. \A sym : ByBot(sym)' = ByBot(sym)
        BY DEF ByBot, Filled, ForBot
    <1> QED
        BY <1>1, <1>2 DEF Beside

\* An order rests with the internal matcher: it is a request's, a bot's has no limit.
LEMMA RestBot ==
    ASSUME BrokerInv, BotInv, NEW t \in Threads \ {Scheduler}, Rest(t), UNCHANGED botVars PROVE BotInv'
    <1>1. PICK r, o : r = req[t] /\ o = NewOrder(r, "new", 0, "paper")
        OBVIOUS
    <1>2. r.pc = "route" /\ ~Marketable(r) /\ orders' = Append(orders, o) /\ req' = [req EXCEPT ![t] = Idle]
        BY <1>1 DEF Rest, At, Set
    <1>3. r.by \notin ForBot
        BY <1>1, <1>2, OnItsWay DEF Carrying, AskOk, Marketable
    <1>4. o.by \notin ForBot
        BY <1>1, <1>3 DEF NewOrder
    <1>5. IsSeq(orders)
        BY DEF BrokerInv, TablesOk
    <1>6. /\ DOMAIN orders \subseteq DOMAIN orders' /\ \A k \in DOMAIN orders : orders'[k] = orders[k]
          /\ \A k \in DOMAIN orders' \ DOMAIN orders : orders'[k] = o
        BY <1>2, <1>5, Appended
    <1>7. Beside
        BY <1>4, <1>6, OthersBeside DEF Rest
    <1>8. AskOk(Idle)' /\ ConfigOk' /\ UNCHANGED <<pass, lastId, sold, strayed, held>>
        BY DEF AskOk, Idle, botVars, BotInv, OpenOk, ConfigOk, Carrying
    <1> QED
        BY <1>2, <1>7, <1>8, IdleAsk, ClientMoves

\* The cancelled order is a request's.
LEMMA CancelCommitBot ==
    ASSUME BrokerInv, BotInv, NEW t \in Threads \ {Scheduler}, CancelCommit(t), UNCHANGED botVars PROVE BotInv'
    <1>1. PICK r, i : r = req[t] /\ i = r.order
        OBVIOUS
    <1>2. r.pc = "cancel" /\ req' = [req EXCEPT ![t] = Idle] /\ UNCHANGED <<settings, exchange>>
        BY <1>1 DEF CancelCommit, At, Set
    <1>3. RequestOk(r) /\ AskOk(r)
        BY <1>1 DEF BrokerInv, BotInv
    <1>4. i \in DOMAIN orders /\ orders[i].by \notin ForBot
        BY <1>1, <1>2, <1>3 DEF RequestOk, PaperOrders, AskOk
    <1>5. PICK o : o = [orders[i] EXCEPT !.status = "cancelled"]
        OBVIOUS
    <1>6. orders' = [orders EXCEPT ![i] = o]
        BY <1>1, <1>5, Zenon DEF CancelCommit
    <1>7. o.by = orders[i].by /\ o.side = orders[i].side /\ o.qty = orders[i].qty
        BY <1>4, <1>5 DEF BrokerInv, OrderOk
    <1>8. DOMAIN orders' = DOMAIN orders /\ (\A k \in DOMAIN orders : k # i => orders'[k] = orders[k]) /\ orders'[i] = o
        BY <1>4, <1>6
    <1>9. Beside
        BY <1>2, <1>4, <1>7, <1>8, OthersBeside
    <1>10. AskOk(Idle)' /\ ConfigOk' /\ UNCHANGED <<pass, lastId, sold, strayed, held>>
        BY DEF AskOk, Idle, botVars, BotInv, OpenOk, ConfigOk, Carrying
    <1> QED
        BY <1>2, <1>9, <1>10, IdleAsk, ClientMoves

\* Whose fill is committed, and what the thread does next.
LEMMA CommitReturns ==
    ASSUME BrokerInv, BotInv, NEW t \in Threads, Commit(t)
    PROVE  /\ req[t].pc = "commit" /\ DOMAIN req[t] = Fields /\ AskOk(req[t])
           /\ UNCHANGED <<settings, exchange>>
           /\ req[t].by = "desk" => req' = [req EXCEPT ![t] = Idle]
           /\ req[t].by # "desk" =>
                 req' = [req EXCEPT ![t] = [req[t] EXCEPT !.pc = "filled", !.price = req[t].fills[1].price]]
    <1>1. req[t].pc = "commit" /\ UNCHANGED <<settings, exchange>>
        BY DEF Commit, At
    <1>2. DOMAIN req[t] = Fields /\ AskOk(req[t])
        BY <1>1, OnItsWay DEF Carrying
    <1>3. Return(t, [req[t] EXCEPT !.pc = "filled", !.price = req[t].fills[1].price])
        BY DEF Commit
    <1> QED
        BY <1>1, <1>2, <1>3 DEF Return, Set

\* A fill that was not the bot's is recorded besides the bot's.
LEMMA OthersCommit ==
    ASSUME BrokerInv, BotInv, NEW t \in Threads, Commit(t), req[t].by \notin ForBot
    PROVE  Beside
    <1>1. PICK r, o : r = req[t] /\ o = NewOrder(r, "filled", r.fills[1].price, r.via)
        OBVIOUS
    <1>2. r.pc = "commit" /\ DOMAIN r = Fields /\ AskOk(r) /\ UNCHANGED <<settings, exchange>>
        BY <1>1, CommitReturns
    <1>3. orders' = IF Matched(r.fills) = {} THEN Append(orders, o)
                    ELSE [i \in DOMAIN orders |->
                            IF i \in Matched(r.fills)
                            THEN [orders[i] EXCEPT !.status = "filled", !.price = orders[i].limit]
                            ELSE orders[i]]
        BY <1>1 DEF Commit
    <1>4. CASE Matched(r.fills) = {}
        <2>1. orders' = Append(orders, o) /\ IsSeq(orders)
            BY <1>3, <1>4 DEF BrokerInv, TablesOk
        <2>2. /\ DOMAIN orders \subseteq DOMAIN orders' /\ \A k \in DOMAIN orders : orders'[k] = orders[k]
              /\ \A k \in DOMAIN orders' \ DOMAIN orders : orders'[k] = o
            BY <2>1, Appended
        <2>3. o.by \notin ForBot
            BY <1>1 DEF NewOrder
        <2> QED
            BY <1>2, <2>2, <2>3, OthersBeside
    <1>5. CASE Matched(r.fills) # {}
        <2>1. orders' = [i \in DOMAIN orders |->
                           IF i \in Matched(r.fills)
                           THEN [orders[i] EXCEPT !.status = "filled", !.price = orders[i].limit]
                           ELSE orders[i]]
            BY <1>3, <1>5
        <2>2. \A i \in Matched(r.fills) : orders[i].by \notin ForBot
            BY <1>2 DEF AskOk
        <2>3. ASSUME NEW k \in DOMAIN orders
              PROVE  \/ orders'[k] = orders[k]
                     \/ /\ orders[k].by \notin ForBot /\ orders'[k].by = orders[k].by
                        /\ orders'[k].side = orders[k].side /\ orders'[k].qty = orders[k].qty
            <3>1. CASE k \in Matched(r.fills)
                <4>1. PICK p : p = [orders[k] EXCEPT !.status = "filled", !.price = orders[k].limit]
                    OBVIOUS
                <4>2. orders'[k] = p
                    BY <2>1, <3>1, <4>1
                <4>3. p.by = orders[k].by /\ p.side = orders[k].side /\ p.qty = orders[k].qty
                    BY <4>1 DEF BrokerInv, OrderOk
                <4> QED
                    BY <2>2, <3>1, <4>2, <4>3
            <3>2. CASE k \notin Matched(r.fills)
                BY <2>1, <3>2
            <3> QED
                BY <3>1, <3>2
        <2>4. DOMAIN orders' = DOMAIN orders
            BY <2>1
        <2> QED
            BY <1>2, <2>3, <2>4, OthersBeside
    <1> QED
        BY <1>4, <1>5

\* A fill of the bot's adds its quantity to what the bot has bought of its symbol.
BooksOne(r) ==
    /\ BooksOk' /\ settings' = settings
    /\ \A k \in DOMAIN orders : k \in DOMAIN orders' /\ orders'[k].by = orders[k].by
    /\ \A sym : /\ Net(ByBot(sym), orders) \in Int
                /\ sym # r.sym => Net(ByBot(sym), orders)' = Net(ByBot(sym), orders)
                /\ sym = r.sym => Net(ByBot(sym), orders)' = Net(ByBot(sym), orders) + Signed(r.side, r.qty)

LEMMA BotsCommit ==
    ASSUME BrokerInv, BotInv, NEW t \in Threads, Commit(t), req[t].by \in ForBot
    PROVE  BooksOne(req[t])
    <1>1. PICK r, o : r = req[t] /\ o = NewOrder(r, "filled", r.fills[1].price, r.via)
        OBVIOUS
    <1>2. r.pc = "commit" /\ DOMAIN r = Fields /\ AskOk(r) /\ UNCHANGED <<settings, exchange>>
        BY <1>1, CommitReturns
    <1>3. Matched(r.fills) = {} /\ r.qty \in Nat
        BY <1>1, <1>2 DEF AskOk, Carrying
    <1>4. orders' = Append(orders, o)
        BY <1>1, <1>3 DEF Commit
    <1>5. /\ o.by = r.by /\ o.status = "filled" /\ o.sym = r.sym /\ o.side = r.side /\ o.qty = r.qty
        BY <1>1 DEF NewOrder
    <1>6. IsSeq(orders)
        BY DEF BrokerInv, TablesOk
    <1>7. PICK k : /\ k \notin DOMAIN orders /\ DOMAIN orders' = DOMAIN orders \cup {k} /\ orders'[k] = o
                   /\ \A i \in DOMAIN orders : orders'[i] = orders[i]
        <2>1. PICK n \in Nat : n = Len(orders)
            BY <1>6, Appended
        <2>2. /\ DOMAIN orders = 1 .. n /\ DOMAIN orders' = 1 .. (n + 1)
              /\ orders'[n + 1] = o /\ \A i \in DOMAIN orders : orders'[i] = orders[i]
            BY <1>4, <1>6, <2>1, Appended
        <2>3. n + 1 \notin 1 .. n /\ 1 .. (n + 1) = 1 .. n \cup {n + 1}
            BY <2>1
        <2> QED
            BY <2>2, <2>3
    <1>8. BooksOk'
        BY <1>1, <1>2, <1>3, <1>5, <1>7 DEF BotInv, BooksOk
    <1>9. ASSUME NEW sym
          PROVE  /\ Net(ByBot(sym), orders) \in Int
                 /\ sym # r.sym => Net(ByBot(sym), orders)' = Net(ByBot(sym), orders)
                 /\ sym = r.sym => Net(ByBot(sym), orders)' = Net(ByBot(sym), orders) + Signed(r.side, r.qty)
        <2>1. PICK S, book, new : S = ByBot(sym) /\ book = orders /\ new = orders'
            OBVIOUS
        <2>2. IsFiniteSet(S) /\ S \subseteq DOMAIN book
            BY <2>1, BooksFinite
        <2>3. \A i \in S : book[i].qty \in Nat /\ new[i].side = book[i].side /\ new[i].qty = book[i].qty
            <3>1. \A i \in S : orders[i].by \in ForBot
                BY <2>1 DEF ByBot, ForBot
            <3> QED
                BY <1>7, <2>1, <2>2, <3>1 DEF BotInv, BooksOk
        <2>4. k \notin S /\ new[k].qty \in Nat /\ new[k].side = r.side /\ new[k].qty = r.qty
            BY <1>3, <1>5, <1>7, <2>1, <2>2
        <2>5. /\ Net(S, new) = Net(S, book) /\ Net(S, book) \in Int
              /\ Net(S \cup {k}, new) = Net(S, book) + Signed(r.side, r.qty)
            BY <2>2, <2>3, <2>4, NetGrows
        <2>6. ByBot(sym)' = IF sym = r.sym THEN S \cup {k} ELSE S
            <3>1. \A i : i \in ByBot(sym)' <=> i \in DOMAIN orders' /\ orders'[i].sym = sym
                                               /\ orders'[i].status = "filled" /\ orders'[i].by \in {"bot", "close"}
                BY DEF ByBot, Filled
            <3>2. \A i : i \in S <=> i \in DOMAIN orders /\ orders[i].sym = sym
                                     /\ orders[i].status = "filled" /\ orders[i].by \in {"bot", "close"}
                BY <2>1 DEF ByBot, Filled
            <3>3. o.by \in {"bot", "close"}
                BY <1>1, <1>5 DEF ForBot
            <3>4. PICK T : T = ByBot(sym)'
                OBVIOUS
            <3>5. ASSUME NEW i \in DOMAIN orders PROVE i \in T <=> i \in S
                <4>1. i \in DOMAIN orders' /\ orders'[i] = orders[i]
                    BY <1>7
                <4> QED
                    BY <3>1, <3>2, <3>4, <4>1
            <3>6. k \in T <=> sym = r.sym
                BY <1>5, <1>7, <3>1, <3>3, <3>4
            <3>7. T \subseteq DOMAIN orders \cup {k} /\ S \subseteq DOMAIN orders
                BY <1>7, <3>1, <3>2, <3>4
            <3>8. T = IF sym = r.sym THEN S \cup {k} ELSE S
                BY <1>7, <3>5, <3>6, <3>7
            <3> QED
                BY <3>4, <3>8
        <2> QED
            BY <2>1, <2>5, <2>6
    <1> QED
        BY <1>1, <1>2, <1>7, <1>8, <1>9 DEF BooksOne

\* A symbol has one position that is not sold, at most.
LEMMA WatchedOne ==
    ASSUME BotInv, NEW sym
    PROVE  /\ \A p, q \in Watched(sym) : p = q
           /\ Watched(sym) \cap pass.deleted = {}
           /\ \A p \in Watched(sym) : p \in Known /\ p.sym = sym /\ p.id \notin sold
    <1>1. \A p \in Watched(sym) : p \in Known /\ p.sym = sym /\ p.id \notin sold
        BY DEF Watched, Known
    <1>2. Watched(sym) \cap pass.deleted = {}
        BY DEF Watched, BotInv, PassOk, PassRows
    <1>3. CASE pass.on
        <2>1. Watched(sym) \subseteq pass.working /\ OneEach(pass.working)
            BY <1>2, <1>3 DEF Watched, BotInv, PassOk, PassRows, Flushed
        <2> QED
            BY <1>1, <1>2, <2>1 DEF OneEach
    <1>4. CASE ~pass.on
        <2>1. pass.added = {}
            BY <1>4 DEF BotInv, PassOk, PassRows, NoPass
        <2>2. Watched(sym) \subseteq held /\ OneEach(held)
            BY <2>1 DEF Watched, BotInv, OpenOk
        <2> QED
            BY <1>1, <1>2, <2>2 DEF OneEach
    <1>5. pass.on \in BOOLEAN
        BY DEF BotInv, PassOk, PassRows
    <1> QED
        BY <1>3, <1>4, <1>5

\* A position is sold: what was bought of its symbol is sold with it.
LEMMA SaleKeepsBought ==
    ASSUME BotInv, NEW r, BooksOne(r), r.side = "sell", NEW p \in Known, p.qty = r.qty, p.sym = r.sym,
           (held \cup pass.added) \ pass.deleted \subseteq held' \cup pass.added',
           held' \cup pass.added' \subseteq held \cup pass.added,
           sold' = sold \cup {p.id},
           strayed' = IF p.id \in sold \/ p \notin held \cup pass.added THEN strayed \cup {r.sym} ELSE strayed,
           NEW sym \in Symbols \ strayed', Unbooked(sym)' = Unbooked(sym), Unbooked(sym) \in Int
    PROVE  Bought(sym)'
    <1>1. sym \notin strayed /\ Position(p)
        BY DEF BotInv, OpenOk
    <1>2. Bought(sym) /\ Net(ByBot(sym), orders) \in Int
        BY <1>1 DEF BotInv, BooksOne
    <1>3. Watched(sym)' = Watched(sym) \ {q \in Watched(sym) : q.id = p.id}
        <2>1. Watched(sym) \cap pass.deleted = {}
            BY WatchedOne
        <2>2. Watched(sym)' = {q \in held' \cup pass.added' : q.sym = sym /\ q.id \notin sold /\ q.id # p.id}
            BY DEF Watched
        <2>3. Watched(sym) = {q \in held \cup pass.added : q.sym = sym /\ q.id \notin sold}
            BY DEF Watched
        <2> QED
            BY <2>1, <2>2, <2>3
    <1>4. {q \in Watched(sym) : q.id = p.id} \subseteq {p}
        BY WatchedOne DEF BotInv, OpenOk
    <1>5. CASE sym # r.sym
        <2>1. p \notin Watched(sym)
            BY <1>5 DEF Watched
        <2>2. Watched(sym)' = Watched(sym)
            BY <1>3, <1>4, <2>1
        <2>3. Net(ByBot(sym), orders)' = Net(ByBot(sym), orders)
            BY <1>5 DEF BooksOne
        <2>4. Lots(Watched(sym))' = Lots(Watched(sym))
            BY <2>2
        <2> QED
            BY <1>2, <2>3, <2>4 DEF Bought
    <1>6. CASE sym = r.sym
        <2>1. p \in Watched(sym)
            BY <1>6 DEF Watched
        <2>2. Watched(sym) = {p} /\ Watched(sym)' = {}
            BY <1>3, <1>4, <2>1, WatchedOne
        <2>3. p.qty \in Int /\ Signed(r.side, r.qty) = -p.qty
            BY <1>1 DEF Position, Signed
        <2>4. Lots(Watched(sym)) = p.qty /\ Lots(Watched(sym))' = 0
            <3>1. Lots({p}) = p.qty /\ Lots({}) = 0
                BY <2>3, LotsOfOne
            <3> QED
                BY <2>2, <3>1
        <2>5. Net(ByBot(sym), orders)' = Net(ByBot(sym), orders) + Signed(r.side, r.qty)
            BY <1>6 DEF BooksOne
        <2>6. PICK n, m, u, v, q : /\ n = Net(ByBot(sym), orders) /\ m = Net(ByBot(sym), orders)'
                                   /\ u = Unbooked(sym) /\ v = Unbooked(sym)' /\ q = p.qty
            OBVIOUS
        <2>7. n = q + u
            BY <1>2, <2>4, <2>6 DEF Bought
        <2>8. m = n + (-q) /\ n \in Int /\ q \in Int /\ u \in Int /\ v = u
            BY <1>2, <2>3, <2>5, <2>6
        <2>9. m = 0 + v
            BY <2>7, <2>8
        <2> QED
            BY <2>4, <2>6, <2>9 DEF Bought
    <1> QED
        BY <1>5, <1>6

\* What the scheduler's request has bought is a number.
LEMMA UnbookedInt == ASSUME BotInv, NEW sym PROVE Unbooked(sym) \in Int
    <1>1. PICK r : r = req[Scheduler]
        OBVIOUS
    <1>2. AskOk(r)
        BY <1>1, BotAssumption DEF BotInv
    <1>3. r.pc = "filled" => r.qty \in Nat
        BY <1>1, <1>2 DEF BotInv, SchedulerOk, AskOk, Carrying, ForBot
    <1> QED
        BY <1>1, <1>3 DEF Unbooked

\* A request's fill is recorded.
LEMMA DeskCommitBot ==
    ASSUME BrokerInv, BotInv, NEW t \in Threads \ {Scheduler}, Commit(t), Sell(t), req[t].by = "desk",
           UNCHANGED <<config, held, pass, lastId>>
    PROVE  BotInv'
    <1>1. Beside /\ req' = [req EXCEPT ![t] = Idle]
        BY OthersCommit, CommitReturns DEF ForBot
    <1>2. UNCHANGED <<sold, strayed>>
        BY DEF Sell
    <1>3. AskOk(Idle)' /\ ConfigOk'
        BY DEF AskOk, Idle, BotInv, OpenOk, ConfigOk, Carrying
    <1> QED
        BY <1>1, <1>2, <1>3, IdleAsk, ClientMoves

\* The fill of a close is recorded: its position is sold.
LEMMA CloseCommitBot ==
    ASSUME BrokerInv, BotInv, NEW t \in Threads \ {Scheduler}, Commit(t), Sell(t), req[t].by # "desk",
           UNCHANGED <<config, held, pass, lastId>>
    PROVE  BotInv'
    <1>1. PICK r, y : r = req[t] /\ y = [r EXCEPT !.pc = "filled", !.price = r.fills[1].price]
        OBVIOUS
    <1>2. r.pc = "commit" /\ DOMAIN r = Fields /\ AskOk(r) /\ req' = [req EXCEPT ![t] = y]
        BY <1>1, CommitReturns
    <1>3. r.by = "close"
        <2>1. r.by \in {"desk"} \cup ForBot
            BY <1>2 DEF AskOk, Carrying
        <2>2. r.by # "bot"
            BY <1>1, <1>2 DEF BotInv, ClientOk, Carrying
        <2> QED
            BY <1>1, <2>1, <2>2 DEF ForBot
    <1>4. PICK p : r.pos = {p} /\ r.qty = p.qty /\ r.sym = p.sym /\ r.side = "sell"
        BY <1>2, <1>3 DEF AskOk, Carrying
    <1>5. ClosesOne(r) /\ p \in Known
        <2>1. ClosesOne(r)
            BY <1>2, <1>3 DEF ClosesOne, Carrying
        <2> QED
            BY <1>1, <1>4, <2>1 DEF Known
    <1>6. /\ y.pc = "filled" /\ y.by = "close" /\ y.side = "sell" /\ y.qty = r.qty /\ y.sym = r.sym
          /\ y.pos = {p} /\ y.limit = r.limit /\ y.price = r.fills[1].price
        BY <1>1, <1>2, <1>3, <1>4 DEF Fields
    <1>7. BooksOne(r)
        BY <1>1, <1>3, BotsCommit DEF ForBot
    <1>8. /\ sold' = sold \cup {p.id}
          /\ strayed' = IF p.id \in sold \/ p \notin held \cup pass.added THEN strayed \cup {r.sym} ELSE strayed
        <2>1. SaleOf(t) = {p} /\ {q.id : q \in {p}} = {p.id}
            BY <1>1, <1>4 DEF SaleOf
        <2> QED
            BY <1>1, <1>3, <1>4, <2>1 DEF Sell
    <1>9. req' = [u \in Threads |-> IF u = t THEN y ELSE req[u]] /\ req'[t] = y
        BY <1>2 DEF BrokerInv, TablesOk
    <1>10. req'[Scheduler] = req[Scheduler] /\ Scheduler \in Threads
        BY <1>9, BotAssumption
    <1>11. \A u \in Threads : AskOk(req[u])'
        <2>1. ASSUME NEW u \in Threads, u # t PROVE AskOk(req[u])'
            <3>1. PICK s : s = req[u]
                OBVIOUS
            <3>2. RequestOk(s) /\ AskOk(s) /\ UNCHANGED settings
                BY <1>7, <3>1 DEF BrokerInv, BotInv, BooksOne
            <3>3. AskOk(s)'
                BY <1>7, <3>2, AskKept DEF BooksOne
            <3> QED
                BY <1>9, <2>1, <3>1, <3>3
        <2>2. r.limit = 0 /\ r.qty \in Nat /\ r.fills[1].price \in Nat
            BY <1>2, <1>3 DEF AskOk, Carrying, ForBot
        <2>3. AskOk(y)'
            BY <1>4, <1>6, <2>2 DEF AskOk, ForBot
        <2> QED
            BY <1>9, <2>1, <2>3
    <1>12. \A u \in Threads \ {Scheduler} : ClientOk(req[u])'
        <2>1. ASSUME NEW u \in Threads \ {Scheduler}, u # t PROVE ClientOk(req[u])'
            BY <1>8, <1>9, <2>1 DEF BotInv, ClientOk
        <2>2. ClientOk(y)'
            BY <1>6, <1>8 DEF ClientOk
        <2> QED
            BY <1>9, <2>1, <2>2
    <1>13. Known' \subseteq Known
        <2>1. ASSUME NEW u \in Threads, NEW q, ClosesOne(req'[u]), q \in req'[u].pos
              PROVE  q \in Known
            BY <1>4, <1>5, <1>6, <1>9, <2>1 DEF Known
        <2> QED
            BY <2>1 DEF Known, ClosesOne
    <1>14. OpenOk'
        <2>1. \A q \in Known' : Position(q)'
            BY <1>13 DEF BotInv, OpenOk, Position
        <2>2. \A q, s \in Known' : q.id = s.id => q = s
            BY <1>13 DEF BotInv, OpenOk
        <2>3. sold' \in SUBSET Nat /\ \A i \in sold' : i <= lastId'
            BY <1>5, <1>8 DEF BotInv, OpenOk, Position
        <2> QED
            BY <2>1, <2>2, <2>3 DEF BotInv, OpenOk, OneEach
    <1>15. PassOk'
        <2>1. ASSUME NEW q \in pass.added
              PROVE  q.id \notin sold' /\ \A u \in Threads : ClosesOne(req'[u]) => q \notin req'[u].pos
            <3>1. q.id \notin sold /\ q # p /\ \A u \in Threads : ClosesOne(req[u]) => q \notin req[u].pos
                BY <1>1, <1>4, <1>5 DEF BotInv, PassOk, PassRows
            <3>2. q.id # p.id
                BY <1>5, <3>1 DEF BotInv, OpenOk, Known
            <3> QED
                BY <1>6, <1>8, <1>9, <3>1, <3>2
        <2>2. \A q \in pass.deleted : q.id \in sold'
            BY <1>8 DEF BotInv, PassOk, PassRows
        <2> QED
            BY <2>1, <2>2 DEF BotInv, PassOk, PassRows, ClosesOne, Flushed, OneEach
    <1>16. SchedulerOk'
        BY <1>8, <1>10 DEF BotInv, SchedulerOk, Sym, Mine
    <1>17. ASSUME NEW sym \in Symbols \ strayed' PROVE Bought(sym)'
        <2>1. Unbooked(sym)' = Unbooked(sym) /\ Unbooked(sym) \in Int
            BY <1>10, UnbookedInt DEF Unbooked
        <2> QED
            BY <1>4, <1>5, <1>7, <1>8, <2>1, SaleKeepsBought
    <1>18. BooksOk'
        BY <1>7 DEF BooksOne
    <1> QED
        BY <1>11, <1>12, <1>14, <1>15, <1>16, <1>17, <1>18 DEF BotInv

\* A request's fill goes on.
LEMMA ClientFillBot ==
    ASSUME BrokerInv, BotInv, NEW t \in Threads \ {Scheduler}, ClientFill(t) PROVE BotInv'
    <1>1. UNCHANGED <<config, held, pass, lastId>>
        BY DEF ClientFill
    <1>2. CASE Commit(t) /\ Sell(t)
        BY <1>1, <1>2, DeskCommitBot, CloseCommitBot
    <1>3. CASE UNCHANGED <<sold, strayed>> /\ \E y : GoesOn(t, y)
        <2>1. UNCHANGED botVars
            BY <1>1, <1>3 DEF botVars
        <2> QED
            BY <1>3, <2>1, ClientGoesOn
    <1>4. CASE UNCHANGED <<sold, strayed>> /\ Rest(t)
        <2>1. UNCHANGED botVars
            BY <1>1, <1>4 DEF botVars
        <2> QED
            BY <1>4, <2>1, RestBot
    <1> QED
        BY <1>2, <1>3, <1>4, GateGoesOn, RouteGoesOn DEF ClientFill

-----------------------------------------------------------------------------
(* The scheduler's steps *)

\* The scheduler moves on, with the positions that it and the table know of now: what they
\* did not know before is a new one.
LEMMA SchedulerMoves ==
    ASSUME BrokerInv, BotInv, NEW y, req' = [req EXCEPT ![Scheduler] = y], AskOk(y)', ~ClosesOne(y),
           Beside \/ \E r : BooksOne(r), sold \subseteq sold', sold' \in SUBSET Nat, \A i \in sold' : i <= lastId',
           ConfigOk', IsFiniteSet(held'), OneEach(held'), lastId' \in Nat, lastId <= lastId',
           NEW N, \A p \in N : Position(p)' /\ ~(p.id <= lastId), \A p, q \in N : p = q,
           held' \cup pass'.working \subseteq Known \cup N, pass'.added \subseteq pass.added \cup N,
           PassRows', SchedulerOk',
           \A sym \in Symbols \ strayed' : Bought(sym)'
    PROVE  BotInv'
    <1>1. Scheduler \in Threads /\ req' = [u \in Threads |-> IF u = Scheduler THEN y ELSE req[u]] /\ req'[Scheduler] = y
        BY BotAssumption DEF BrokerInv, TablesOk
    <1>2. BooksOk' /\ UNCHANGED settings /\ \A k \in DOMAIN orders : k \in DOMAIN orders' /\ orders'[k].by = orders[k].by
        BY DEF Beside, BooksOne
    <1>3. \A u \in Threads : AskOk(req[u])'
        <2>1. ASSUME NEW u \in Threads, u # Scheduler PROVE AskOk(req[u])'
            <3>1. PICK s : s = req[u]
                OBVIOUS
            <3>2. RequestOk(s) /\ AskOk(s)
                BY <3>1 DEF BrokerInv, BotInv
            <3>3. AskOk(s)'
                BY <1>2, <3>2, AskKept
            <3> QED
                BY <1>1, <2>1, <3>1, <3>3
        <2> QED
            BY <1>1, <2>1
    <1>4. \A u \in Threads \ {Scheduler} : ClientOk(req[u])'
        BY <1>1 DEF BotInv, ClientOk
    <1>5. Known' \subseteq Known \cup N
        <2>1. ASSUME NEW u \in Threads, NEW q, ClosesOne(req'[u]), q \in req'[u].pos
              PROVE  q \in Known
            BY <1>1, <2>1 DEF Known
        <2>2. pass.added \subseteq Known
            BY DEF Known
        <2> QED
            BY <2>1, <2>2 DEF Known, ClosesOne
    <1>6. \A p \in Known : Position(p) /\ p.id <= lastId /\ Position(p)'
        BY DEF BotInv, OpenOk, Position
    <1>7. OpenOk'
        <2>1. \A q \in Known' : Position(q)'
            BY <1>5, <1>6
        <2>2. \A q, s \in Known' : q.id = s.id => q = s
            <3>1. \A q \in N, s \in Known : q.id # s.id
                BY <1>6
            <3>2. \A q, s \in Known : q.id = s.id => q = s
                BY DEF BotInv, OpenOk
            <3> QED
                BY <1>5, <3>1, <3>2
        <2> QED
            BY <2>1, <2>2 DEF OpenOk, OneEach, ConfigOk
    <1>8. PassOk'
        <2>1. ASSUME NEW q \in pass'.added, NEW u \in Threads, ClosesOne(req'[u]) PROVE q \notin req'[u].pos
            <3>1. ClosesOne(req[u]) /\ req'[u] = req[u]
                BY <1>1, <2>1
            <3>2. req[u].pos \subseteq Known
                BY <3>1 DEF Known
            <3>3. CASE q \in N
                BY <1>6, <3>1, <3>2, <3>3
            <3>4. CASE q \in pass.added
                BY <3>1, <3>4 DEF BotInv, PassOk
            <3> QED
                BY <2>1, <3>3, <3>4
        <2> QED
            BY <2>1 DEF PassOk, ClosesOne
    <1> QED
        BY <1>2, <1>3, <1>4, <1>7, <1>8 DEF BotInv

\* A commit of the pass's session, or none, keeps the pass and what is watched.
LEMMA SessionKept ==
    ASSUME BotInv, pass.on, SessionCommits \/ UNCHANGED <<held, pass>>, sold \subseteq sold',
           UNCHANGED sold \/ pass'.added = {}
    PROVE  /\ pass'.on /\ pass'.view = pass.view /\ pass'.todo = pass.todo
           /\ pass'.cap = pass.cap /\ pass'.working = pass.working
           /\ (held \cup pass.added) \ pass.deleted \subseteq held' \cup pass'.added
           /\ held' \cup pass'.added \subseteq held \cup pass.added
           /\ IsFiniteSet(held') /\ OneEach(held') /\ PassRows' /\ pass'.added \subseteq pass.added
           /\ SessionCommits => pass'.added = {} /\ pass'.deleted = {}
    <1>1. CASE SessionCommits
        <2>1. /\ DOMAIN pass' = PassFields /\ pass'.on = pass.on /\ pass'.view = pass.view /\ pass'.todo = pass.todo
              /\ pass'.cap = pass.cap /\ pass'.working = pass.working /\ pass'.added = {} /\ pass'.deleted = {}
            BY <1>1 DEF SessionCommits, BotInv, PassOk, PassRows, PassFields
        <2>2. held' = Flushed /\ Flushed \subseteq pass.working
            BY <1>1 DEF SessionCommits, BotInv, PassOk, PassRows
        <2>3. IsFiniteSet(held') /\ OneEach(held')
            BY <2>2, FS_Subset DEF BotInv, PassOk, PassRows, OneEach
        <2>4. Flushed' = Flushed
            BY <2>1, <2>2 DEF Flushed
        <2>5. PassRows'
            BY <2>1, <2>2, <2>4 DEF PassRows, BotInv, PassOk, OneEach
        <2> QED
            BY <2>1, <2>2, <2>3, <2>5 DEF Flushed
    <1>2. CASE UNCHANGED <<held, pass>> /\ ~SessionCommits
        <2>1. IsFiniteSet(held) /\ OneEach(held) /\ PassRows
            BY DEF BotInv, OpenOk, PassOk
        <2>2. PassRows'
            BY <1>2, <2>1 DEF PassRows, Flushed, OneEach
        <2>3. OneEach(held)'
            BY <1>2, <2>1 DEF OneEach
        <2> QED
            BY <1>2, <2>1, <2>2, <2>3
    <1> QED
        BY <1>1, <1>2

\* What is watched stays so as long as nothing is sold.
LEMMA WatchedKept ==
    ASSUME BotInv, UNCHANGED sold, (held \cup pass.added) \ pass.deleted \subseteq held' \cup pass'.added,
           held' \cup pass'.added \subseteq held \cup pass.added, NEW sym
    PROVE  Watched(sym)' = Watched(sym)
    <1>1. Watched(sym) \cap pass.deleted = {}
        BY WatchedOne
    <1>2. Watched(sym)' = {q \in held' \cup pass'.added : q.sym = sym /\ q.id \notin sold}
        BY DEF Watched
    <1>3. Watched(sym) = {q \in held \cup pass.added : q.sym = sym /\ q.id \notin sold}
        BY DEF Watched
    <1> QED
        BY <1>1, <1>2, <1>3

\* The pass's symbol.
LEMMA SymOf ==
    ASSUME BotInv, pass.on, pass.todo # <<>>
    PROVE  Sym \in Symbols /\ Tail(pass.todo) \in Seq(Symbols)
    <1>1. pass.todo \in Seq(Symbols)
        BY DEF BotInv, PassOk, PassRows
    <1> QED
        BY <1>1 DEF Sym

\* The position of the pass's symbol, if there is one.
LEMMA MineOne ==
    ASSUME BotInv, pass.on
    PROVE  /\ Mine \subseteq pass.working /\ \A p \in Mine : p.sym = Sym /\ Mine = {p} /\ p \in Known /\ Position(p)
           /\ Watched(Sym) \subseteq Mine
    <1>1. OneEach(pass.working) /\ Flushed \subseteq pass.working
        BY DEF BotInv, PassOk, PassRows
    <1>2. \A p \in Mine : p.sym = Sym /\ Mine = {p} /\ p \in Known
        BY <1>1 DEF Mine, OneEach, Known
    <1>3. \A p \in Known : Position(p)
        BY DEF BotInv, OpenOk
    <1>4. Watched(Sym) \subseteq Mine
        BY <1>1, WatchedOne DEF Watched, Mine, Flushed
    <1> QED
        BY <1>2, <1>3, <1>4 DEF Mine

\* The scheduler's fill goes on, before its commit.
LEMMA BotGoesOn ==
    ASSUME BrokerInv, BotInv, NEW y, GoesOn(Scheduler, y), pass.on, SessionCommits \/ UNCHANGED <<held, pass>>,
           UNCHANGED <<config, lastId, sold, strayed>>
    PROVE  BotInv'
    <1>1. PICK r : r = req[Scheduler]
        OBVIOUS
    <1>2. r.pc \in {"gate", "route", "wait", "fold"} /\ r.by = "bot"
        BY <1>1 DEF GoesOn, BotInv, SchedulerOk
    <1>3. /\ y.pc \in {"route", "wait", "fold", "commit", "refused"} /\ Carries(r, y) /\ y.by = "bot"
          /\ req' = [req EXCEPT ![Scheduler] = y] /\ AskOk(y) /\ Beside /\ UNCHANGED <<orders, settings>>
        BY <1>1, <1>2 DEF GoesOn, Apart, Beside, Carries
    <1>4. AskOk(y)' /\ ~ClosesOne(y) /\ ConfigOk'
        BY <1>3 DEF AskOk, Puts, ClosesOne, ConfigOk, BotInv, OpenOk
    <1>5. /\ pass'.on /\ pass'.todo = pass.todo /\ pass'.working = pass.working
          /\ (held \cup pass.added) \ pass.deleted \subseteq held' \cup pass'.added
          /\ held' \cup pass'.added \subseteq held \cup pass.added
          /\ IsFiniteSet(held') /\ OneEach(held') /\ PassRows' /\ pass'.added \subseteq pass.added
        BY SessionKept
    <1>6. lastId' \in Nat /\ lastId <= lastId' /\ sold \subseteq sold' /\ sold' \in SUBSET Nat /\ \A i \in sold' : i <= lastId'
        BY DEF BotInv, OpenOk
    <1>7. held' \cup pass'.working \subseteq Known
        BY <1>5 DEF Known
    <1>8. req'[Scheduler] = y
        BY <1>3, BotAssumption DEF BrokerInv, TablesOk
    <1>9. SchedulerOk'
        <2>1. Mine' = Mine /\ Sym' = Sym
            BY <1>5 DEF Mine, Sym
        <2>2. r.pc # "idle" /\ y.pc # "filled" /\ y.sym = r.sym /\ y.side = r.side /\ y.qty = r.qty
            BY <1>2, <1>3 DEF Carries
        <2> QED
            BY <1>1, <1>3, <1>5, <1>8, <2>1, <2>2 DEF BotInv, SchedulerOk
    <1>10. ASSUME NEW sym \in Symbols \ strayed' PROVE Bought(sym)'
        <2>1. Watched(sym)' = Watched(sym)
            BY <1>5, WatchedKept
        <2>2. Unbooked(sym) = 0 /\ Unbooked(sym)' = 0
            BY <1>1, <1>2, <1>3, <1>8 DEF Unbooked
        <2> QED
            BY <1>3, <2>1, <2>2, BoughtKept DEF Beside
    <1>11. \A sym \in Symbols \ strayed' : Bought(sym)'
        BY <1>10
    <1>12. PICK N : N = {}
        OBVIOUS
    <1>13. /\ \A p \in N : Position(p)' /\ ~(p.id <= lastId)
           /\ \A p, q \in N : p = q
           /\ held' \cup pass'.working \subseteq Known \cup N /\ pass'.added \subseteq pass.added \cup N
        BY <1>5, <1>7, <1>12
    <1> QED
        BY <1>3, <1>4, <1>5, <1>6, <1>9, <1>11, <1>13, SchedulerMoves

\* The scheduler's fill is committed.
LEMMA BotCommitBot ==
    ASSUME BrokerInv, BotInv, Commit(Scheduler), Sell(Scheduler), SessionCommits, pass.on, UNCHANGED <<config, lastId>>
    PROVE  BotInv'
    <1>1. PICK r, y : r = req[Scheduler] /\ y = [r EXCEPT !.pc = "filled", !.price = r.fills[1].price]
        OBVIOUS
    <1>2. Scheduler \in Threads
        BY BotAssumption
    <1>3. r.pc = "commit" /\ DOMAIN r = Fields /\ AskOk(r) /\ r.by = "bot" /\ pass.todo # <<>> /\ r.sym = Sym
        BY <1>1, <1>2, CommitReturns DEF BotInv, SchedulerOk
    <1>4. req' = [req EXCEPT ![Scheduler] = y]
        BY <1>1, <1>2, <1>3, CommitReturns
    <1>5. /\ y.pc = "filled" /\ y.by = "bot" /\ y.side = r.side /\ y.qty = r.qty /\ y.sym = r.sym
          /\ y.limit = r.limit /\ y.price = r.fills[1].price
        BY <1>1, <1>3 DEF Fields
    <1>6. BooksOne(r) /\ UNCHANGED settings
        BY <1>1, <1>2, <1>3, BotsCommit DEF ForBot, BooksOne
    <1>7. AskOk(y)' /\ ~ClosesOne(y) /\ ConfigOk'
        <2>1. r.limit = 0 /\ r.qty \in Nat /\ r.fills[1].price \in Nat
            BY <1>3 DEF AskOk, Carrying, ForBot
        <2> QED
            BY <1>5, <2>1 DEF AskOk, ClosesOne, ConfigOk, BotInv, OpenOk, ForBot
    <1>8. IF r.side = "buy" THEN UNCHANGED <<sold, strayed>>
          ELSE /\ r.side = "sell" /\ \E p \in Mine : r.qty = p.qty /\ p.sym = r.sym /\ Mine = {p} /\ p \in Known /\ Position(p)
                  /\ sold' = sold \cup {p.id}
                  /\ strayed' = IF p.id \in sold \/ p \notin held \cup pass.added THEN strayed \cup {r.sym} ELSE strayed
        <2>1. CASE r.side = "buy"
            BY <1>1, <2>1 DEF Sell
        <2>2. CASE r.side # "buy"
            <3>1. PICK p \in Mine : r.qty = p.qty /\ r.side = "sell"
                BY <1>1, <1>3, <2>2 DEF BotInv, SchedulerOk
            <3>2. p.sym = r.sym /\ Mine = {p} /\ p \in Known /\ Position(p)
                BY <1>3, <3>1, MineOne
            <3>3. SaleOf(Scheduler) = {p} /\ {q.id : q \in {p}} = {p.id}
                BY <3>2 DEF SaleOf
            <3>4. /\ sold' = sold \cup {p.id}
                  /\ strayed' = IF p.id \in sold \/ p \notin held \cup pass.added THEN strayed \cup {r.sym} ELSE strayed
                BY <1>1, <1>3, <2>2, <3>3 DEF Sell
            <3> QED
                BY <2>2, <3>1, <3>2, <3>4
        <2> QED
            BY <2>1, <2>2
    <1>9. sold \subseteq sold' /\ sold' \in SUBSET Nat /\ \A i \in sold' : i <= lastId'
        BY <1>8 DEF BotInv, OpenOk, Position
    <1>10. pass'.added = {}
        BY DEF SessionCommits, BotInv, PassOk, PassRows, PassFields
    <1>11. /\ pass'.on /\ pass'.todo = pass.todo /\ pass'.working = pass.working /\ pass'.deleted = {}
           /\ (held \cup pass.added) \ pass.deleted \subseteq held' \cup pass'.added
           /\ held' \cup pass'.added \subseteq held \cup pass.added
           /\ IsFiniteSet(held') /\ OneEach(held') /\ PassRows' /\ pass'.added \subseteq pass.added
        BY <1>9, <1>10, SessionKept
    <1>12. lastId' \in Nat /\ lastId <= lastId' /\ held' \cup pass'.working \subseteq Known
        BY <1>11 DEF BotInv, OpenOk, Known
    <1>13. req'[Scheduler] = y
        BY <1>2, <1>4 DEF BrokerInv, TablesOk
    <1>14. SchedulerOk'
        <2>1. Mine' = Mine /\ Sym' = Sym
            BY <1>11 DEF Mine, Sym
        <2>2. r.side = "buy" => Mine = {}
            BY <1>1, <1>3 DEF BotInv, SchedulerOk
        <2>3. r.side # "buy" => r.side = "sell" /\ (\E p \in Mine : r.qty = p.qty) /\ \A p \in Mine : p.id \in sold'
            BY <1>8
        <2> QED
            BY <1>3, <1>5, <1>10, <1>11, <1>13, <2>1, <2>2, <2>3 DEF SchedulerOk
    <1>15. ASSUME NEW sym \in Symbols \ strayed' PROVE Bought(sym)'
        <2>1. Unbooked(sym) = 0
            BY <1>1, <1>3 DEF Unbooked
        <2>2. CASE r.side = "buy"
            <3>1. Watched(sym)' = Watched(sym) /\ sym \notin strayed
                BY <1>8, <1>11, <1>15, <2>2, WatchedKept
            <3>2. Unbooked(sym)' = IF sym = r.sym THEN r.qty ELSE 0
                BY <1>5, <1>11, <1>13, <2>2 DEF Unbooked
            <3>3. PICK n, m, u, l : /\ n = Net(ByBot(sym), orders) /\ m = Net(ByBot(sym), orders)'
                                    /\ u = Unbooked(sym)' /\ l = Lots(Watched(sym))
                OBVIOUS
            <3>4. n = l + 0 /\ n \in Int
                BY <1>6, <2>1, <3>1, <3>3 DEF BotInv, Bought, BooksOne
            <3>5. m = IF sym = r.sym THEN n + r.qty ELSE n
                BY <1>6, <2>2, <3>3 DEF BooksOne, Signed
            <3>6. l \in Int /\ r.qty \in Nat
                <4>1. r.qty \in Nat
                    BY <1>3 DEF AskOk, Carrying, ForBot
                <4>2. \E p : Watched(sym) \subseteq {p} /\ p.qty \in Int
                    <5>1. CASE Watched(sym) = {}
                        <6>1. [qty |-> 0].qty \in Int
                            OBVIOUS
                        <6> QED
                            BY <5>1, <6>1
                    <5>2. CASE Watched(sym) # {}
                        BY <5>2, WatchedOne DEF BotInv, OpenOk, Position
                    <5> QED
                        BY <5>1, <5>2
                <4>3. PICK p : Watched(sym) \subseteq {p} /\ p.qty \in Int
                    BY <4>2
                <4>4. Watched(sym) = {} \/ Watched(sym) = {p}
                    BY <4>3
                <4> QED
                    BY <3>3, <4>1, <4>3, <4>4, LotsOfOne
            <3>7. m = l + u
                BY <3>2, <3>3, <3>4, <3>5, <3>6
            <3>8. Lots(Watched(sym))' = l
                BY <3>1, <3>3
            <3> QED
                BY <3>3, <3>7, <3>8 DEF Bought
        <2>3. CASE r.side # "buy"
            <3>1. PICK p \in Known : r.side = "sell" /\ r.qty = p.qty /\ p.sym = r.sym /\ sold' = sold \cup {p.id}
                     /\ strayed' = IF p.id \in sold \/ p \notin held \cup pass.added THEN strayed \cup {r.sym} ELSE strayed
                BY <1>8, <2>3
            <3>2. Unbooked(sym)' = Unbooked(sym) /\ Unbooked(sym) \in Int
                BY <1>5, <1>13, <2>1, <2>3 DEF Unbooked
            <3> QED
                BY <1>6, <1>11, <1>15, <3>1, <3>2, SaleKeepsBought
        <2> QED
            BY <2>2, <2>3
    <1>16. strayed \subseteq strayed'
        BY <1>8
    <1> QED
        BY <1>4, <1>6, <1>7, <1>9, <1>11, <1>12, <1>14, <1>15, SchedulerMoves

\* The scheduler moves on with what it knew, and nothing is recorded or sold.
LEMMA PassMoves ==
    ASSUME BrokerInv, BotInv, NEW y, req' = [req EXCEPT ![Scheduler] = y], AskOk(y), ~ClosesOne(y),
           UNCHANGED <<settings, orders, exchange, config, lastId, sold>>, strayed \subseteq strayed',
           IsFiniteSet(held'), OneEach(held'), held' \cup pass'.working \subseteq Known,
           pass'.added \subseteq pass.added, PassRows', SchedulerOk',
           \A sym \in Symbols \ strayed' : Watched(sym)' = Watched(sym) /\ Unbooked(sym)' = Unbooked(sym)
    PROVE  BotInv'
    <1>1. AskOk(y)' /\ ConfigOk'
        BY DEF AskOk, Puts, ConfigOk, BotInv, OpenOk
    <1>2. Beside
        BY BesideNone
    <1>3. \A sym \in Symbols \ strayed' : Bought(sym)'
        <2>1. ASSUME NEW sym \in Symbols \ strayed' PROVE Bought(sym)'
            <3>1. sym \in Symbols \ strayed
                OBVIOUS
            <3>2. Watched(sym)' = Watched(sym) /\ Unbooked(sym)' = Unbooked(sym)
                BY <2>1
            <3> QED
                BY <1>2, <3>1, <3>2, BoughtKept DEF Beside
        <2> QED
            BY <2>1
    <1>4. PICK N : N = {}
        OBVIOUS
    <1>5. /\ \A p \in N : Position(p)' /\ ~(p.id <= lastId)
          /\ \A p, q \in N : p = q
          /\ held' \cup pass'.working \subseteq Known \cup N /\ pass'.added \subseteq pass.added \cup N
        BY <1>4
    <1>6. lastId' \in Nat /\ lastId <= lastId' /\ sold \subseteq sold' /\ sold' \in SUBSET Nat /\ \A i \in sold' : i <= lastId'
        BY DEF BotInv, OpenOk
    <1> QED
        BY <1>1, <1>2, <1>3, <1>5, <1>6, SchedulerMoves

\* A pass that has not started knows nothing.
LEMMA NoPassRows ==
    ASSUME pass' = NoPass
    PROVE  /\ PassRows' /\ ~pass'.on /\ pass'.working = {} /\ pass'.added = {} /\ pass'.deleted = {}
    BY DEF NoPass, PassRows, PassFields

\* The pass goes on to its next symbol.
LEMMA TodoMoves ==
    ASSUME BotInv, pass.on, pass.todo # <<>>, pass' = [pass EXCEPT !.todo = Tail(@)], UNCHANGED <<held, sold>>
    PROVE  /\ PassRows' /\ pass'.working = pass.working /\ pass'.added = pass.added /\ pass'.deleted = pass.deleted
           /\ pass'.on /\ IsFiniteSet(held') /\ OneEach(held') /\ held' \cup pass'.working \subseteq Known
           /\ \A sym : Watched(sym)' = Watched(sym)
    <1>1. /\ DOMAIN pass' = PassFields /\ pass'.on = pass.on /\ pass'.view = pass.view /\ pass'.todo = Tail(pass.todo)
          /\ pass'.cap = pass.cap /\ pass'.working = pass.working /\ pass'.added = pass.added /\ pass'.deleted = pass.deleted
        BY DEF BotInv, PassOk, PassRows, PassFields
    <1>2. Flushed' = Flushed
        BY <1>1 DEF Flushed
    <1>3. pass'.todo \in Seq(Symbols)
        BY <1>1, SymOf
    <1>4. PassRows'
        BY <1>1, <1>2, <1>3 DEF PassRows, BotInv, PassOk, OneEach
    <1>5. \A sym : Watched(sym)' = Watched(sym)
        BY <1>1 DEF Watched
    <1> QED
        BY <1>1, <1>4, <1>5 DEF BotInv, OpenOk, OneEach, Known

\* The scheduler's thread asks nothing.
LEMMA IdleSchedulerOk == req'[Scheduler].pc = "idle" => SchedulerOk'
    BY DEF SchedulerOk

LEMMA PassSkipsBot == ASSUME BrokerInv, BotInv, PassSkips PROVE BotInv'
    <1>1. /\ pass.on /\ req[Scheduler].pc = "idle" /\ pass.todo # <<>> /\ pass' = [pass EXCEPT !.todo = Tail(@)]
          /\ UNCHANGED <<deskVars, config, held, lastId, sold, strayed>>
        BY DEF PassSkips, Deciding, At
    <1>2. PICK y : y = req[Scheduler]
        OBVIOUS
    <1>3. UNCHANGED <<settings, orders, exchange, req>>
        BY <1>1 DEF deskVars
    <1>4. req' = [req EXCEPT ![Scheduler] = y] /\ req'[Scheduler] = y
        BY <1>2, <1>3, BotAssumption DEF BrokerInv, TablesOk
    <1>5. AskOk(y) /\ ~ClosesOne(y)
        BY <1>1, <1>2, BotAssumption DEF BotInv, ClosesOne, Carrying
    <1>6. SchedulerOk'
        BY <1>1, <1>2, <1>4, IdleSchedulerOk
    <1>7. \A sym : Unbooked(sym)' = Unbooked(sym)
        BY <1>1, <1>2, <1>4 DEF Unbooked
    <1> QED
        BY <1>1, <1>3, <1>4, <1>5, <1>6, <1>7, TodoMoves, PassMoves

LEMMA PassRefusedBot == ASSUME BrokerInv, BotInv, PassRefused PROVE BotInv'
    <1>1. /\ pass.on /\ req[Scheduler].pc = "refused" /\ pass' = [pass EXCEPT !.todo = Tail(@)]
          /\ req' = [req EXCEPT ![Scheduler] = Idle] /\ UNCHANGED <<settings, orders, exchange, config, held, lastId, sold, strayed>>
        BY DEF PassRefused, At, Set
    <1>2. pass.todo # <<>>
        BY <1>1 DEF BotInv, SchedulerOk
    <1>3. req'[Scheduler] = Idle
        BY <1>1, BotAssumption DEF BrokerInv, TablesOk
    <1>4. SchedulerOk'
        BY <1>3, IdleSchedulerOk, IdleAsk
    <1>5. \A sym : Unbooked(sym)' = Unbooked(sym)
        BY <1>1, <1>3, IdleAsk DEF Unbooked
    <1> QED
        BY <1>1, <1>2, <1>4, <1>5, IdleAsk, TodoMoves, PassMoves

LEMMA PassFailsBot == ASSUME BrokerInv, BotInv, PassFails PROVE BotInv'
    <1>1. /\ req[Scheduler].pc = "idle" /\ pass' = NoPass /\ strayed' = strayed \cup HeldSyms(pass.added)
          /\ UNCHANGED <<settings, orders, exchange, req, config, held, lastId, sold>>
        BY DEF PassFails, Deciding, At, deskVars
    <1>2. PICK y : y = req[Scheduler]
        OBVIOUS
    <1>3. req' = [req EXCEPT ![Scheduler] = y] /\ req'[Scheduler] = y
        BY <1>1, <1>2, BotAssumption DEF BrokerInv, TablesOk
    <1>4. AskOk(y) /\ ~ClosesOne(y)
        BY <1>1, <1>2, BotAssumption DEF BotInv, ClosesOne, Carrying
    <1>5. SchedulerOk'
        BY <1>1, <1>2, <1>3, IdleSchedulerOk
    <1>6. \A sym : Unbooked(sym)' = Unbooked(sym)
        BY <1>1, <1>2, <1>3 DEF Unbooked
    <1>7. \A sym \in Symbols \ strayed' : Watched(sym)' = Watched(sym)
        BY <1>1, NoPassRows DEF Watched, HeldSyms
    <1>8. IsFiniteSet(held') /\ OneEach(held') /\ held' \cup pass'.working \subseteq Known
        BY <1>1, NoPassRows DEF BotInv, OpenOk, OneEach, Known
    <1>9. PassRows' /\ pass'.added \subseteq pass.added
        BY <1>1, NoPassRows
    <1> QED
        BY <1>1, <1>3, <1>4, <1>5, <1>6, <1>7, <1>8, <1>9, PassMoves

LEMMA PassEndsBot == ASSUME BrokerInv, BotInv, PassEnds PROVE BotInv'
    <1>1. /\ pass.on /\ req[Scheduler].pc = "idle" /\ pass' = NoPass /\ held' = Flushed
          /\ UNCHANGED <<settings, orders, exchange, req, config, lastId, sold, strayed>>
        BY DEF PassEnds, At, deskVars
    <1>2. PICK y : y = req[Scheduler]
        OBVIOUS
    <1>3. req' = [req EXCEPT ![Scheduler] = y] /\ req'[Scheduler] = y
        BY <1>1, <1>2, BotAssumption DEF BrokerInv, TablesOk
    <1>4. AskOk(y) /\ ~ClosesOne(y)
        BY <1>1, <1>2, BotAssumption DEF BotInv, ClosesOne, Carrying
    <1>5. SchedulerOk'
        BY <1>1, <1>2, <1>3, IdleSchedulerOk
    <1>6. \A sym : Unbooked(sym)' = Unbooked(sym)
        BY <1>1, <1>2, <1>3 DEF Unbooked
    <1>7. \A sym : Watched(sym)' = Watched(sym)
        BY <1>1, NoPassRows, WatchedKept DEF Flushed
    <1>8. IsFiniteSet(held') /\ OneEach(held') /\ held' \cup pass'.working \subseteq Known
        <2>1. Flushed \subseteq pass.working /\ IsFiniteSet(pass.working) /\ OneEach(pass.working)
            BY <1>1 DEF BotInv, PassOk, PassRows
        <2> QED
            BY <1>1, <2>1, NoPassRows, FS_Subset DEF OneEach, Known
    <1>9. PassRows' /\ pass'.added \subseteq pass.added
        BY <1>1, NoPassRows
    <1> QED
        BY <1>1, <1>3, <1>4, <1>5, <1>6, <1>7, <1>8, <1>9, PassMoves

\* The members of a finite set, one after the other.
LEMMA ListedOf ==
    ASSUME NEW S, NEW T \in SUBSET S, IsFiniteSet(S)
    PROVE  SetToSeq(T) \in Seq(S)
    <1>1. IsFiniteSet(T)
        BY FS_Subset
    <1>2. PICK n \in Nat : n = Cardinality(T) /\ ExistsBijection(1 .. n, T)
        BY <1>1, FS_CardinalityType
    <1>3. \E f \in [1 .. n -> T] : IsInjective(f)
        BY <1>2 DEF ExistsBijection, Bijection, Injection
    <1>4. SetToSeq(T) = CHOOSE f \in [1 .. n -> T] : IsInjective(f)
        BY <1>2 DEF SetToSeq
    <1>5. SetToSeq(T) \in [1 .. n -> T]
        BY <1>3, <1>4
    <1>6. PICK s : s = SetToSeq(T)
        OBVIOUS
    <1>7. s \in [1 .. n -> S]
        BY <1>5, <1>6
    <1> QED
        BY <1>6, <1>7

LEMMA PassStartBot == ASSUME BrokerInv, BotInv, PassStart PROVE BotInv'
    <1>1. PICK view \in [Symbols -> View] : \E todo \in ToEvaluate(view) :
             pass' = [NoPass EXCEPT !.on = TRUE, !.view = view, !.todo = todo, !.cap = config.cap, !.working = held]
        BY DEF PassStart
    <1>2. PICK todo \in ToEvaluate(view) :
             pass' = [NoPass EXCEPT !.on = TRUE, !.view = view, !.todo = todo, !.cap = config.cap, !.working = held]
        BY <1>1
    <1>3. /\ ~pass.on /\ req[Scheduler].pc = "idle"
          /\ UNCHANGED <<settings, orders, exchange, req, config, held, lastId, sold, strayed>>
        BY DEF PassStart, At, deskVars
    <1>4. todo \in Seq(Symbols)
        <2>1. CASE config.mode = "manual"
            BY <1>2, <2>1 DEF ToEvaluate, BotInv, OpenOk
        <2>2. CASE config.mode # "manual"
            <3>1. PICK P \in SUBSET Picks(view) : todo = SetToSeq(HeldSyms(held)) \o SetToSeq(P)
                BY <1>2, <2>2 DEF ToEvaluate
            <3>2. P \subseteq Symbols /\ HeldSyms(held) \subseteq Symbols
                BY DEF Picks, HeldSyms, BotInv, OpenOk, Known, Position
            <3>3. PICK s, u : s = SetToSeq(HeldSyms(held)) /\ u = SetToSeq(P)
                OBVIOUS
            <3>4. s \in Seq(Symbols) /\ u \in Seq(Symbols)
                BY <3>2, <3>3, ListedOf, BotAssumption
            <3>5. s \o u \in Seq(Symbols)
                BY <3>4
            <3> QED
                BY <3>1, <3>3, <3>5
        <2> QED
            BY <2>1, <2>2
    <1>5. pass = NoPass
        BY <1>3 DEF BotInv, PassOk, PassRows
    <1>6. /\ DOMAIN pass' = PassFields /\ pass'.on = TRUE /\ pass'.view = view /\ pass'.todo = todo
          /\ pass'.cap = config.cap /\ pass'.working = held /\ pass'.added = {} /\ pass'.deleted = {}
        BY <1>2 DEF NoPass, PassFields
    <1>7. pass.added = {} /\ pass.deleted = {}
        BY <1>5 DEF NoPass
    <1>8. Flushed' = held
        BY <1>3, <1>6 DEF Flushed
    <1>9. IsFiniteSet(held) /\ OneEach(held) /\ config.cap \in Nat
        BY DEF BotInv, OpenOk
    <1>10. PassRows' /\ IsFiniteSet(held') /\ OneEach(held')
        BY <1>3, <1>4, <1>6, <1>8, <1>9 DEF PassRows, OneEach
    <1>11. PICK y : y = req[Scheduler]
        OBVIOUS
    <1>12. req' = [req EXCEPT ![Scheduler] = y] /\ req'[Scheduler] = y
        BY <1>3, <1>11, BotAssumption DEF BrokerInv, TablesOk
    <1>13. AskOk(y) /\ ~ClosesOne(y)
        BY <1>3, <1>11, BotAssumption DEF BotInv, ClosesOne, Carrying
    <1>14. SchedulerOk'
        BY <1>3, <1>11, <1>12, IdleSchedulerOk
    <1>15. \A sym : Watched(sym)' = Watched(sym) /\ Unbooked(sym)' = Unbooked(sym)
        BY <1>3, <1>6, <1>7, <1>11, <1>12 DEF Watched, Unbooked
    <1>16. held' \cup pass'.working \subseteq Known /\ pass'.added \subseteq pass.added
        BY <1>3, <1>6 DEF Known
    <1> QED
        BY <1>3, <1>10, <1>12, <1>13, <1>14, <1>15, <1>16, PassMoves

\* What a budget pays for.
LEMMA AffordableNat ==
    ASSUME BotInv, pass.on, pass.todo # <<>>, LastPrice # 0
    PROVE  /\ LastPrice \in Nat /\ StopDistance \in Nat
           /\ Risk(pass.working) \in Int /\ Affordable \in Nat
           /\ Affordable >= 1 => Affordable * StopDistance <= pass.cap - Risk(pass.working)
    <1>1. LastPrice \in Nat
        <2>1. pass.view \in [Symbols -> View] /\ Sym \in Symbols
            BY SymOf DEF BotInv, PassOk, PassRows
        <2>2. pass.view[Sym] \in View
            BY <2>1
        <2>3. \A v \in View : v.last \in Prices \/ v.last = 0
            BY DEF View
        <2>4. LastPrice \in Prices \/ LastPrice = 0
            BY <2>2, <2>3 DEF LastPrice
        <2> QED
            BY <2>4, OrdersAssumption
    <1>2. PICK l, d, s : l = LastPrice /\ s = StopPart /\ d = StopDistance
        OBVIOUS
    <1>3. l \in Nat /\ s \in Nat \ {0} /\ d = l \div s
        BY <1>1, <1>2, BotAssumption DEF StopDistance
    <1>4. d \in Nat
        BY <1>3
    <1>5. Risk(pass.working) \in Int
        <2>1. \A p \in pass.working : Position(p)
            BY DEF BotInv, OpenOk, Known
        <2>2. IsFiniteSet(pass.working)
            BY DEF BotInv, PassOk, PassRows
        <2> DEFINE g == [p \in pass.working |-> RiskOf(p)]
        <2>3. \A p \in pass.working : g[p] = RiskOf(p) /\ g[p] \in Int
            BY <2>1 DEF RiskOf, Position
        <2> HIDE DEF g
        <2>4. PICK h : IsSum(h, pass.working, g)
            BY <2>2, <2>3, SumExists, SumOrder
        <2>5. Risk(pass.working) = h[pass.working]
            BY <2>2, <2>3, <2>4, RiskIsSum
        <2> QED
            BY <2>4, <2>5 DEF IsSum
    <1>6. PICK c, k, m : c = pass.cap /\ k = Risk(pass.working) /\ m = Max({0, c - k})
        OBVIOUS
    <1>7. c \in Nat /\ k \in Int
        BY <1>5, <1>6 DEF BotInv, PassOk, PassRows
    <1>8. m = IF c >= k THEN c - k ELSE 0
        <2>1. m = CHOOSE x \in {0, c - k} : \A y \in {0, c - k} : x >= y
            BY <1>6 DEF Max
        <2>2. \E x \in {0, c - k} : \A y \in {0, c - k} : x >= y
            BY <1>7
        <2>3. m \in {0, c - k} /\ \A y \in {0, c - k} : m >= y
            BY <2>1, <2>2
        <2> QED
            BY <1>7, <2>3
    <1>9. m \in Nat
        BY <1>7, <1>8
    <1>10. Affordable = IF d > 0 THEN m \div d ELSE 0
        BY <1>2, <1>6 DEF Affordable
    <1>11. Affordable \in Nat /\ (Affordable >= 1 => Affordable * d <= c - k)
        <2>1. CASE d > 0
            <3>1. PICK q : q = m \div d
                OBVIOUS
            <3>2. q \in Nat /\ q * d <= m
                BY <1>4, <1>9, <2>1, <3>1
            <3>3. m = 0 => q = 0
                BY <1>4, <2>1, <3>1
            <3>4. q >= 1 => m = c - k
                BY <1>8, <3>3
            <3>5. Affordable = q
                BY <1>10, <2>1, <3>1
            <3>6. q >= 1 => q * d <= c - k
                BY <3>2, <3>4
            <3> QED
                BY <3>2, <3>5, <3>6
        <2>2. CASE ~(d > 0)
            BY <1>10, <2>2
        <2> QED
            BY <2>1, <2>2
    <1> QED
        BY <1>1, <1>2, <1>4, <1>5, <1>6, <1>8, <1>11

\* The pass asks for an order.
LEMMA PassOrdersBot == ASSUME BrokerInv, BotInv, PassOrders PROVE BotInv'
    <1>1. /\ pass.on /\ req[Scheduler].pc = "idle" /\ pass.todo # <<>> /\ LastPrice # 0
          /\ UNCHANGED <<settings, orders, exchange, config, held, pass, lastId, sold, strayed>>
        BY DEF PassOrders, Deciding, At, botVars
    <1>2. PICK side, qty, y : /\ y = FillRequest("bot", Sym, side, qty, LastPrice, 0) /\ Set(Scheduler, y)
                              /\ \/ side = "buy" /\ Mine = {} /\ qty = Affordable
                                 \/ side = "sell" /\ \E p \in Mine : qty = p.qty
        BY DEF PassOrders, Opens
    <1>3. /\ y.pc = "gate" /\ y.by = "bot" /\ y.sym = Sym /\ y.side = side /\ y.qty = qty
          /\ y.price = LastPrice /\ y.limit = 0
        BY <1>2 DEF FillRequest, Request
    <1>4. LastPrice \in Nat /\ Affordable \in Nat
        BY <1>1, AffordableNat
    <1>5. qty \in Nat
        BY <1>1, <1>2, <1>4, MineOne DEF Position
    <1>6. AskOk(y) /\ ~ClosesOne(y)
        BY <1>3, <1>4, <1>5 DEF AskOk, ClosesOne, ForBot
    <1>7. req' = [req EXCEPT ![Scheduler] = y] /\ req'[Scheduler] = y
        BY <1>2, BotAssumption DEF BrokerInv, TablesOk, Set
    <1>8. SchedulerOk'
        <2>1. Mine' = Mine /\ Sym' = Sym
            BY <1>1 DEF Mine, Sym
        <2> QED
            BY <1>1, <1>2, <1>3, <1>7, <2>1 DEF SchedulerOk
    <1>9. \A sym : Watched(sym)' = Watched(sym) /\ Unbooked(sym)' = Unbooked(sym)
        BY <1>1, <1>3, <1>7 DEF Watched, Unbooked
    <1>10. PassRows' /\ IsFiniteSet(held') /\ OneEach(held') /\ held' \cup pass'.working \subseteq Known
        BY <1>1 DEF BotInv, OpenOk, PassOk, PassRows, Flushed, OneEach, Known
    <1> QED
        BY <1>1, <1>6, <1>7, <1>8, <1>9, <1>10, PassMoves

\* A position that was sold is deleted from the session, if it is still there.
LEMMA PassSoldBot ==
    ASSUME BrokerInv, BotInv, PassFilled, req[Scheduler].side # "buy" PROVE BotInv'
    <1>1. /\ pass.on /\ req[Scheduler].pc = "filled" /\ req' = [req EXCEPT ![Scheduler] = Idle]
          /\ UNCHANGED <<settings, orders, exchange, config, held, lastId, sold, strayed>>
          /\ pass' = IF Mine \subseteq held
                     THEN [pass EXCEPT !.todo = Tail(@), !.working = @ \ Mine, !.deleted = Mine]
                     ELSE NoPass
        BY DEF PassFilled, At, Set
    <1>2. /\ pass.todo # <<>> /\ pass.added = {} /\ pass.deleted = {} /\ \A p \in Mine : p.id \in sold
        BY <1>1 DEF BotInv, SchedulerOk
    <1>3. req'[Scheduler] = Idle
        BY <1>1, BotAssumption DEF BrokerInv, TablesOk
    <1>4. SchedulerOk'
        BY <1>3, IdleSchedulerOk, IdleAsk
    <1>5. \A sym : Unbooked(sym)' = Unbooked(sym)
        BY <1>1, <1>3, IdleAsk DEF Unbooked
    <1>6. CASE ~(Mine \subseteq held)
        <2>1. PassRows' /\ pass'.working = {} /\ pass'.added = {}
            BY <1>1, <1>6, NoPassRows
        <2>2. \A sym : Watched(sym)' = Watched(sym)
            BY <1>1, <1>2, <2>1 DEF Watched
        <2>3. IsFiniteSet(held') /\ OneEach(held') /\ held' \cup pass'.working \subseteq Known /\ pass'.added \subseteq pass.added
            BY <1>1, <2>1 DEF BotInv, OpenOk, OneEach, Known
        <2> QED
            BY <1>1, <1>4, <1>5, <2>1, <2>2, <2>3, IdleAsk, PassMoves
    <1>7. CASE Mine \subseteq held
        <2>1. /\ DOMAIN pass' = PassFields /\ pass'.on = pass.on /\ pass'.view = pass.view /\ pass'.todo = Tail(pass.todo)
              /\ pass'.cap = pass.cap /\ pass'.working = pass.working \ Mine /\ pass'.added = {} /\ pass'.deleted = Mine
            BY <1>1, <1>2, <1>7 DEF BotInv, PassOk, PassRows, PassFields
        <2>2. IsFiniteSet(pass.working) /\ OneEach(pass.working) /\ Flushed \subseteq pass.working
            BY <1>1 DEF BotInv, PassOk, PassRows
        <2>3. IsFiniteSet(pass'.working) /\ OneEach(pass'.working)
            <3>1. pass'.working \subseteq pass.working
                BY <2>1
            <3> QED
                BY <2>2, <3>1, FS_Subset DEF OneEach
        <2>4. Flushed' \subseteq pass'.working
            BY <1>1, <1>2, <2>1, <2>2 DEF Flushed
        <2>5. pass'.todo \in Seq(Symbols)
            BY <1>1, <1>2, <2>1, SymOf
        <2>6. PassRows'
            BY <1>1, <1>2, <2>1, <2>3, <2>4, <2>5 DEF PassRows, BotInv, PassOk, OneEach
        <2>7. \A sym : Watched(sym)' = Watched(sym)
            BY <1>1, <1>2, <2>1 DEF Watched
        <2>8. IsFiniteSet(held') /\ OneEach(held') /\ held' \cup pass'.working \subseteq Known /\ pass'.added \subseteq pass.added
            BY <1>1, <2>1 DEF BotInv, OpenOk, OneEach, Known
        <2> QED
            BY <1>1, <1>4, <1>5, <2>6, <2>7, <2>8, IdleAsk, PassMoves
    <1> QED
        BY <1>6, <1>7

\* A position that was opened is added to the session.
LEMMA PassOpenedBot ==
    ASSUME BrokerInv, BotInv, PassFilled, req[Scheduler].side = "buy" PROVE BotInv'
    <1>1. PICK r, opened : r = req[Scheduler] /\
              opened = [id |-> lastId + 1, sym |-> Sym, qty |-> r.qty, entry |-> r.price, stop |-> LastPrice - StopDistance]
        OBVIOUS
    <1>2. /\ pass.on /\ r.pc = "filled" /\ r.side = "buy" /\ req' = [req EXCEPT ![Scheduler] = Idle] /\ lastId' = lastId + 1
          /\ UNCHANGED <<settings, orders, exchange, config, held, sold, strayed>>
          /\ pass' = [pass EXCEPT !.todo = Tail(@), !.working = @ \cup {opened}, !.added = {opened}]
        BY <1>1 DEF PassFilled, At, Set
    <1>3. /\ pass.todo # <<>> /\ pass.added = {} /\ pass.deleted = {} /\ Mine = {} /\ r.by = "bot" /\ r.sym = Sym
        BY <1>1, <1>2 DEF BotInv, SchedulerOk
    <1>4. req'[Scheduler] = Idle
        BY <1>2, BotAssumption DEF BrokerInv, TablesOk
    <1>5. SchedulerOk'
        BY <1>4, IdleSchedulerOk, IdleAsk
    <1>6. r.qty \in Nat /\ r.price \in Nat
        <2>1. AskOk(r)
            BY <1>1, BotAssumption DEF BotInv
        <2> QED
            BY <1>2, <1>3, <2>1 DEF AskOk, Carrying, ForBot
    <1>7. LastPrice \in Int /\ StopDistance \in Int
        <2>1. CASE LastPrice # 0
            BY <1>2, <1>3, <2>1, AffordableNat
        <2>2. CASE LastPrice = 0
            BY <2>2, BotAssumption DEF StopDistance
        <2> QED
            BY <2>1, <2>2
    <1>8. lastId \in Nat /\ lastId' \in Nat /\ lastId <= lastId'
        BY <1>2 DEF BotInv, OpenOk
    <1>9. Position(opened)' /\ ~(opened.id <= lastId) /\ opened.sym = Sym /\ opened.qty = r.qty
        <2>1. Sym \in Symbols
            BY <1>2, <1>3, SymOf
        <2>2. /\ opened.id = lastId + 1 /\ opened.sym = Sym /\ opened.qty = r.qty /\ opened.entry = r.price
              /\ opened.stop = LastPrice - StopDistance
            BY <1>1
        <2> QED
            BY <1>2, <1>6, <1>7, <1>8, <2>1, <2>2 DEF Position
    <1>10. /\ DOMAIN pass' = PassFields /\ pass'.on = pass.on /\ pass'.view = pass.view /\ pass'.todo = Tail(pass.todo)
           /\ pass'.cap = pass.cap /\ pass'.working = pass.working \cup {opened} /\ pass'.added = {opened} /\ pass'.deleted = {}
        BY <1>2, <1>3 DEF BotInv, PassOk, PassRows, PassFields
    <1>11. IsFiniteSet(pass.working) /\ OneEach(pass.working) /\ Flushed \subseteq pass.working
        BY <1>2 DEF BotInv, PassOk, PassRows
    <1>12. IsFiniteSet(pass'.working) /\ OneEach(pass'.working)
        <2>1. \A p \in pass.working : p.sym # Sym
            BY <1>3 DEF Mine
        <2> QED
            BY <1>9, <1>10, <1>11, <2>1, FS_AddElement DEF OneEach
    <1>13. \A p \in Known : p.id <= lastId /\ p # opened
        BY <1>9 DEF BotInv, OpenOk, Position
    <1>14. held \subseteq Known /\ pass.working \subseteq Known
        BY DEF Known
    <1>15. PassRows'
        <2>1. pass'.todo \in Seq(Symbols)
            BY <1>2, <1>3, <1>10, SymOf
        <2>2. Flushed' \subseteq pass'.working
            BY <1>2, <1>3, <1>10, <1>11 DEF Flushed
        <2>3. pass'.added \cap held' = {} /\ \A p \in pass'.added : p.id \notin sold'
            BY <1>2, <1>9, <1>10, <1>13, <1>14 DEF BotInv, OpenOk
        <2>4. pass.on = TRUE /\ pass'.view \in [Symbols -> View] /\ pass'.cap \in Nat
            BY <1>2, <1>10 DEF BotInv, PassOk, PassRows
        <2> QED
            BY <1>10, <1>12, <2>1, <2>2, <2>3, <2>4 DEF PassRows, OneEach
    <1>16. ASSUME NEW sym \in Symbols \ strayed' PROVE Bought(sym)'
        <2>1. Bought(sym) /\ sym \in Symbols \ strayed
            BY <1>2 DEF BotInv
        <2>2. Net(ByBot(sym), orders)' = Net(ByBot(sym), orders)
            <3>1. ByBot(sym)' = ByBot(sym) /\ orders' = orders
                BY <1>2 DEF ByBot, Filled
            <3> QED
                BY <3>1
        <2>3. Unbooked(sym)' = 0
            BY <1>4, IdleAsk DEF Unbooked
        <2>4. opened.id \notin sold
            BY <1>9 DEF BotInv, OpenOk
        <2>5. Watched(sym)' = {q \in held \cup {opened} : q.sym = sym /\ q.id \notin sold}
            BY <1>2, <1>10 DEF Watched
        <2>6. Watched(sym) = {q \in held : q.sym = sym /\ q.id \notin sold}
            BY <1>3 DEF Watched
        <2>7. CASE sym # Sym
            <3>1. Watched(sym)' = Watched(sym)
                BY <1>9, <2>5, <2>6, <2>7
            <3>2. Unbooked(sym) = 0
                BY <1>1, <1>3, <2>7 DEF Unbooked
            <3> QED
                BY <2>1, <2>2, <2>3, <3>1, <3>2 DEF Bought
        <2>8. CASE sym = Sym
            <3>1. Watched(sym) = {}
                BY <1>2, <1>3, <2>8, MineOne
            <3>2. Watched(sym)' = {opened}
                BY <1>9, <2>4, <2>5, <2>6, <2>8, <3>1
            <3>3. Unbooked(sym) = r.qty
                BY <1>1, <1>2, <1>3, <2>8 DEF Unbooked
            <3>4. Lots({}) = 0 /\ Lots({opened}) = r.qty
                BY <1>6, <1>9, LotsOfOne
            <3>5. Lots(Watched(sym)) = 0 /\ Lots(Watched(sym))' = r.qty
                BY <3>1, <3>2, <3>4
            <3>6. Net(ByBot(sym), orders) = 0 + r.qty
                BY <2>1, <3>3, <3>5 DEF Bought
            <3>7. Net(ByBot(sym), orders)' = r.qty + 0
                BY <1>6, <2>2, <3>6
            <3> QED
                BY <2>3, <3>5, <3>7 DEF Bought
        <2> QED
            BY <2>7, <2>8
    <1>17. AskOk(Idle)' /\ ConfigOk'
        BY <1>2 DEF AskOk, Idle, BotInv, OpenOk, ConfigOk, Carrying
    <1>18. Beside
        BY <1>2, BesideNone
    <1>19. PICK N : N = {opened}
        OBVIOUS
    <1>20. /\ \A p \in N : Position(p)' /\ ~(p.id <= lastId)
           /\ \A p, q \in N : p = q
           /\ held' \cup pass'.working \subseteq Known \cup N /\ pass'.added \subseteq pass.added \cup N
        BY <1>2, <1>9, <1>10, <1>14, <1>19
    <1>21. sold \subseteq sold' /\ sold' \in SUBSET Nat /\ \A i \in sold' : i <= lastId'
        BY <1>2 DEF BotInv, OpenOk
    <1>22. IsFiniteSet(held') /\ OneEach(held')
        BY <1>2 DEF BotInv, OpenOk, OneEach
    <1> QED
        BY <1>2, <1>5, <1>8, <1>15, <1>16, <1>17, <1>18, <1>20, <1>21, <1>22, IdleAsk, SchedulerMoves

LEMMA PassFillBot == ASSUME BrokerInv, BotInv, PassFill PROVE BotInv'
    <1>1. pass.on /\ UNCHANGED <<config, lastId>> /\ Scheduler \in Threads
        BY BotAssumption DEF PassFill
    <1>2. CASE \E reading \in Readings :
                 /\ Gate(Scheduler, reading)
                 /\ IF GateCommits(reading) THEN SessionCommits ELSE UNCHANGED <<held, pass>>
                 /\ UNCHANGED <<sold, strayed>>
        <2>1. SessionCommits \/ UNCHANGED <<held, pass>>
            BY <1>2
        <2> QED
            BY <1>1, <1>2, <2>1, GateGoesOn, BotGoesOn
    <1>3. CASE RouteStep(Scheduler) /\ UNCHANGED <<held, pass, sold, strayed>>
        BY <1>1, <1>3, RouteGoesOn, BotGoesOn
    <1>4. CASE Commit(Scheduler) /\ Sell(Scheduler) /\ SessionCommits
        BY <1>1, <1>4, BotCommitBot
    <1> QED
        BY <1>2, <1>3, <1>4 DEF PassFill

-----------------------------------------------------------------------------
(* The other steps *)

\* Positions are cleared without an order: their symbols are set aside.
LEMMA ForgetsBot ==
    ASSUME BrokerInv, BotInv, UNCHANGED <<deskVars, pass, lastId, sold>>, held' \subseteq held, strayed \subseteq strayed',
           \A p \in held \ held' : p.sym \in strayed', ConfigOk'
    PROVE  BotInv'
    <1>1. UNCHANGED <<settings, orders, exchange, req, pass, lastId, sold>>
        BY DEF deskVars
    <1>2. Beside
        BY <1>1, BesideNone
    <1>3. \A t \in Threads : AskOk(req[t])'
        BY <1>1 DEF BotInv, AskOk, Puts
    <1>4. \A t \in Threads \ {Scheduler} : ClientOk(req[t])'
        BY <1>1 DEF BotInv, ClientOk
    <1>5. Known' \subseteq Known
        BY <1>1 DEF Known, ClosesOne
    <1>6. OpenOk'
        <2>1. IsFiniteSet(held') /\ OneEach(held')
            BY FS_Subset DEF BotInv, OpenOk, OneEach
        <2>2. \A p \in Known' : Position(p)'
            BY <1>1, <1>5 DEF BotInv, OpenOk, Position
        <2>3. \A p, q \in Known' : p.id = q.id => p = q
            BY <1>5 DEF BotInv, OpenOk
        <2> QED
            BY <1>1, <2>1, <2>2, <2>3 DEF OpenOk, ConfigOk, OneEach, BotInv
    <1>7. PassOk'
        <2>1. Flushed' \subseteq Flushed
            BY <1>1 DEF Flushed
        <2> QED
            BY <1>1, <2>1 DEF BotInv, PassOk, PassRows, OneEach, ClosesOne
    <1>8. SchedulerOk'
        BY <1>1 DEF BotInv, SchedulerOk, Sym, Mine
    <1>9. ASSUME NEW sym \in Symbols \ strayed' PROVE Bought(sym)'
        <2>1. sym \in Symbols \ strayed
            OBVIOUS
        <2>2. Watched(sym)' = Watched(sym)
            <3>1. Watched(sym)' = {q \in held' \cup pass.added : q.sym = sym /\ q.id \notin sold}
                BY <1>1 DEF Watched
            <3>2. Watched(sym) = {q \in held \cup pass.added : q.sym = sym /\ q.id \notin sold}
                BY DEF Watched
            <3> QED
                BY <3>1, <3>2, <1>9
        <2>3. Unbooked(sym)' = Unbooked(sym)
            BY <1>1 DEF Unbooked
        <2> QED
            BY <1>2, <2>1, <2>2, <2>3, BoughtKept DEF Beside
    <1> QED
        BY <1>2, <1>3, <1>4, <1>6, <1>7, <1>8, <1>9 DEF BotInv, Beside

LEMMA ForceClearBot == ASSUME BrokerInv, BotInv, ForceClear PROVE BotInv'
    <1>1. PICK p \in held : held' = held \ {p} /\ strayed' = strayed \cup {p.sym}
        BY DEF ForceClear
    <1>2. ConfigOk' /\ UNCHANGED <<deskVars, pass, lastId, sold>>
        BY DEF ForceClear, ConfigOk, BotInv, OpenOk
    <1> QED
        BY <1>1, <1>2, ForgetsBot

LEMMA HardResetBot == ASSUME BrokerInv, BotInv, HardReset PROVE BotInv'
    <1>1. UNCHANGED <<deskVars, pass, lastId, sold>> /\ held' = {} /\ strayed' = strayed \cup HeldSyms(held)
          /\ config' = [config EXCEPT !.basket = <<>>, !.enabled = FALSE]
        BY DEF HardReset
    <1>2. \A p \in held \ held' : p.sym \in strayed'
        BY <1>1 DEF HeldSyms
    <1>3. ConfigOk'
        <2>1. config = [enabled |-> config.enabled, mode |-> config.mode, basket |-> config.basket, cap |-> config.cap]
            BY DEF BotInv, OpenOk
        <2>2. config' = [enabled |-> FALSE, mode |-> config.mode, basket |-> <<>>, cap |-> config.cap]
            BY <1>1, <2>1
        <2>3. <<>> \in Seq(Symbols) /\ config.cap \in Nat
            BY DEF BotInv, OpenOk
        <2> QED
            BY <2>2, <2>3 DEF ConfigOk
    <1> QED
        BY <1>1, <1>2, <1>3, ForgetsBot

\* The process dies: what the pass had not committed is not booked.
LEMMA TradingDiesBot == ASSUME BrokerInv, BotInv, TradingDies PROVE BotInv'
    <1>1. /\ req' = [t \in Threads |-> Idle] /\ pass' = NoPass
          /\ UNCHANGED <<settings, orders, exchange, config, held, lastId, sold>>
        BY DEF TradingDies, ProcessDies
    <1>2. \A t \in Threads : req'[t] = Idle
        BY <1>1
    <1>3. Beside
        BY <1>1, BesideNone
    <1>4. \A t \in Threads : AskOk(req[t])'
        <2>1. AskOk(Idle)'
            BY DEF AskOk, Idle, Carrying
        <2> QED
            BY <1>2, <2>1
    <1>5. \A t \in Threads : ~ClosesOne(req'[t]) /\ req'[t].pc = "idle" /\ req'[t].pc \notin Carrying
        BY <1>2, IdleAsk
    <1>6. \A t \in Threads \ {Scheduler} : ClientOk(req[t])'
        BY <1>5 DEF ClientOk
    <1>7. pass'.working = {} /\ pass'.added = {} /\ PassRows'
        BY <1>1, NoPassRows
    <1>8. Known' = held
        BY <1>1, <1>5, <1>7 DEF Known, ClosesOne
    <1>9. OpenOk'
        BY <1>1, <1>8 DEF BotInv, OpenOk, OneEach, Known, Position
    <1>10. PassOk'
        BY <1>7 DEF PassOk
    <1>11. SchedulerOk'
        BY <1>5, IdleSchedulerOk, BotAssumption
    <1>12. strayed' = strayed \cup (IF pass.on /\ req[Scheduler].pc = "filled" /\ req[Scheduler].side = "buy"
                                    THEN {Sym} ELSE {}) \cup HeldSyms(pass.added)
        BY DEF TradingDies
    <1>13. ASSUME NEW sym \in Symbols \ strayed' PROVE Bought(sym)'
        <2>1. sym \in Symbols \ strayed
            BY <1>12
        <2>2. Watched(sym)' = Watched(sym)
            BY <1>1, <1>7, <1>12, <1>13 DEF Watched, HeldSyms
        <2>3. Unbooked(sym)' = 0
            BY <1>5, BotAssumption DEF Unbooked
        <2>4. Unbooked(sym) = 0
            BY <1>12, <1>13 DEF Unbooked, BotInv, SchedulerOk
        <2> QED
            BY <1>3, <2>1, <2>2, <2>3, <2>4, BoughtKept DEF Beside
    <1> QED
        BY <1>3, <1>4, <1>6, <1>9, <1>10, <1>11, <1>13 DEF BotInv, Beside

\* What the bot's books depend on stays.
LEMMA BotSame ==
    ASSUME BotInv, UNCHANGED <<settings, orders, req, botVars>>, BooksOk' PROVE BotInv'
    <1>1. UNCHANGED <<config, held, pass, lastId, sold, strayed>>
        BY DEF botVars
    <1>2. \A t \in Threads : AskOk(req[t])'
        BY DEF BotInv, AskOk, Puts
    <1>3. \A t \in Threads \ {Scheduler} : ClientOk(req[t])'
        BY <1>1 DEF BotInv, ClientOk
    <1>4. OpenOk'
        BY <1>1 DEF BotInv, OpenOk, OneEach, Known, ClosesOne, Position
    <1>5. PassOk'
        BY <1>1 DEF BotInv, PassOk, PassRows, OneEach, ClosesOne, Flushed
    <1>6. SchedulerOk'
        BY <1>1 DEF BotInv, SchedulerOk, Sym, Mine
    <1>7. \A sym \in Symbols \ strayed' : Bought(sym)'
        <2>1. ASSUME NEW sym \in Symbols \ strayed PROVE Bought(sym)'
            <3>1. ByBot(sym)' = ByBot(sym) /\ Watched(sym)' = Watched(sym) /\ Unbooked(sym)' = Unbooked(sym)
                BY <1>1 DEF ByBot, Filled, Watched, Unbooked
            <3>2. Net(ByBot(sym), orders)' = Net(ByBot(sym), orders)
                BY <3>1
            <3>3. Lots(Watched(sym))' = Lots(Watched(sym))
                BY <3>1
            <3> QED
                BY <2>1, <3>1, <3>2, <3>3 DEF BotInv, Bought
        <2> QED
            BY <1>1, <2>1
    <1> QED
        BY <1>2, <1>3, <1>4, <1>5, <1>6, <1>7 DEF BotInv

LEMMA BrokerDecidesBot == ASSUME BrokerInv, BotInv, BrokerDecides, UNCHANGED botVars PROVE BotInv'
    <1>0. \E i \in DOMAIN exchange : \E e :
             exchange' = [exchange EXCEPT ![i] = e] /\ (e.status = "filled" => e.price \in Nat)
        <2>1. PICK i \in DOMAIN exchange :
                 \/ \E p \in Prices : exchange' = [exchange EXCEPT ![i] = [@ EXCEPT !.status = "filled", !.price = p]]
                 \/ exchange' = [exchange EXCEPT ![i] = [@ EXCEPT !.status = "rejected"]]
            BY DEF BrokerDecides
        <2>2. DOMAIN exchange[i] = {"sym", "side", "qty", "status", "price"}
            BY DEF BrokerInv, TablesOk
        <2>3. CASE \E p \in Prices : exchange' = [exchange EXCEPT ![i] = [@ EXCEPT !.status = "filled", !.price = p]]
            <3>1. PICK p \in Prices : exchange' = [exchange EXCEPT ![i] = [@ EXCEPT !.status = "filled", !.price = p]]
                BY <2>3
            <3>2. PICK e : e = [exchange[i] EXCEPT !.status = "filled", !.price = p]
                OBVIOUS
            <3>3. exchange' = [exchange EXCEPT ![i] = e] /\ e.price = p
                BY <2>2, <3>1, <3>2
            <3> QED
                BY <3>3, OrdersAssumption
        <2>4. CASE exchange' = [exchange EXCEPT ![i] = [@ EXCEPT !.status = "rejected"]]
            <3>1. PICK e : e = [exchange[i] EXCEPT !.status = "rejected"]
                OBVIOUS
            <3>2. exchange' = [exchange EXCEPT ![i] = e] /\ e.status = "rejected"
                BY <2>2, <2>4, <3>1
            <3> QED
                BY <3>2
        <2> QED
            BY <2>1, <2>3, <2>4
    <1>1. PICK i \in DOMAIN exchange : \E e :
             exchange' = [exchange EXCEPT ![i] = e] /\ (e.status = "filled" => e.price \in Nat)
        BY <1>0
    <1>2. UNCHANGED <<settings, orders, req>>
        BY DEF BrokerDecides
    <1>3. BooksOk'
        BY <1>1, <1>2 DEF BotInv, BooksOk
    <1> QED
        BY <1>2, <1>3, BotSame

LEMMA SameBot == ASSUME BotInv, UNCHANGED <<settings, orders, exchange, req, botVars>> PROVE BotInv'
    <1>1. BooksOk'
        BY DEF BotInv, BooksOk
    <1> QED
        BY <1>1, BotSame

LEMMA InitBotInv == TradingInit => BotInv
    <1>1. SUFFICES ASSUME TradingInit PROVE BotInv
        OBVIOUS
    <1>2. /\ orders = <<>> /\ exchange = <<>> /\ req = [t \in Threads |-> Idle]
          /\ held = {} /\ pass = NoPass /\ lastId = 0 /\ sold = {} /\ strayed = {}
          /\ config = [enabled |-> FALSE, mode |-> "manual", basket |-> <<>>, cap |-> Max(Caps)]
        BY <1>1 DEF TradingInit, DeskStart, BotInit
    <1>3. \A t \in Threads : req[t] = Idle
        BY <1>2
    <1>4. /\ pass.added = {} /\ pass.working = {} /\ pass.deleted = {} /\ ~pass.on /\ DOMAIN pass = PassFields /\ pass.on = FALSE
        BY <1>2 DEF NoPass, PassFields
    <1>5. BooksOk
        BY <1>2 DEF BooksOk
    <1>6. \A t \in Threads : AskOk(req[t]) /\ ~ClosesOne(req[t]) /\ req[t].pc = "idle"
        BY <1>3, IdleAsk
    <1>7. \A t \in Threads \ {Scheduler} : ClientOk(req[t])
        BY <1>6 DEF ClientOk, Carrying
    <1>8. Known = {}
        BY <1>2, <1>4, <1>6 DEF Known
    <1>9. Max(Caps) \in Nat
        <2>1. PICK c \in Caps : \A d \in Caps : d <= c
            BY BotAssumption
        <2>2. c \in Caps /\ \A d \in Caps : c >= d
            BY <2>1, BotAssumption
        <2>3. Max(Caps) \in Caps
            BY <2>2 DEF Max
        <2> QED
            BY <2>3, BotAssumption
    <1>10. IsFiniteSet(held) /\ <<>> \in Seq(Symbols)
        BY <1>2, FS_EmptySet
    <1>11. OpenOk
        BY <1>2, <1>8, <1>9, <1>10 DEF OpenOk, OneEach
    <1>12. PassOk
        BY <1>2, <1>4 DEF PassOk, PassRows
    <1>13. SchedulerOk
        BY <1>6, BotAssumption DEF SchedulerOk
    <1>14. ASSUME NEW sym PROVE Bought(sym)
        <2>1. ByBot(sym) = {} /\ Watched(sym) = {} /\ Unbooked(sym) = 0
            BY <1>2, <1>4 DEF ByBot, Filled, Watched, Unbooked
        <2>2. Lots({}) = 0
            BY LotsOfOne
        <2>3. Net({}, orders) = 0
            <3> DEFINE g == [i \in {} |-> 0]
            <3>1. IsFiniteSet({})
                BY FS_EmptySet
            <3>2. PICK h : IsSum(h, {}, g)
                BY <3>1, SumExists, SumOrder
            <3> HIDE DEF g
            <3>3. Net({}, orders) = h[{}]
                BY <3>1, <3>2, NetIsSum
            <3> QED
                BY <3>2, <3>3 DEF IsSum
        <2> QED
            BY <2>1, <2>2, <2>3 DEF Bought
    <1> QED
        BY <1>5, <1>6, <1>7, <1>11, <1>12, <1>13, <1>14 DEF BotInv

-----------------------------------------------------------------------------
(* Every step keeps the books *)

\* A request's step.
LEMMA ClientBot ==
    ASSUME BrokerInv, BotInv, NEW t \in Threads \ {Scheduler},
           \/ (DeskRequest(t) \/ DeskStep(t)) /\ UNCHANGED botVars
           \/ ClientFill(t) \/ CloseRead(t) \/ CloseDone(t) \/ PutConfig(t) \/ PutCommit(t)
    PROVE  BotInv'
    BY PlaceOrderBot, MatchReadBot, CancelReadBot, MatchGateBot, CancelCommitBot, ClientFillBot, CloseReadBot,
       CloseDoneBot, PutConfigBot, PutCommitBot DEF DeskRequest, DeskStep

LEMMA BotStepBot == ASSUME BrokerInv, BotInv, BotStep PROVE BotInv'
    BY PassOrdersBot, PassSkipsBot, PassRefusedBot, PassSoldBot, PassOpenedBot, PassFailsBot, PassEndsBot,
       PassFillBot DEF BotStep

LEMMA StepBotInv == BrokerInv /\ BotInv /\ [TradingNext]_tradingVars => BotInv'
    <1> SUFFICES ASSUME BrokerInv, BotInv, [TradingNext]_tradingVars PROVE BotInv'
        OBVIOUS
    <1>1. CASE UNCHANGED tradingVars
        <2>1. UNCHANGED <<settings, orders, exchange, req, botVars>>
            BY <1>1 DEF tradingVars, deskVars
        <2> QED
            BY <2>1, SameBot
    <1>2. CASE TradingNext
        <2>1. CASE BrokerDecides /\ UNCHANGED botVars
            BY <2>1, BrokerDecidesBot
        <2>2. CASE Midnight /\ UNCHANGED botVars
            <3>1. UNCHANGED <<settings, orders, exchange, req, botVars>>
                BY <2>2 DEF Midnight
            <3> QED
                BY <3>1, SameBot
        <2> QED
            BY <1>2, <2>1, <2>2, ClientBot, PassStartBot, BotStepBot, ForceClearBot, HardResetBot, TradingDiesBot
               DEF TradingNext
    <1> QED
        BY <1>1, <1>2

\* What is watched is what the table holds and what the session adds.
LEMMA InvBotBooks == BotInv => BotBooks
    <1> SUFFICES ASSUME BotInv PROVE BotBooks
        OBVIOUS
    <1>1. \A p, q \in held : p.sym = q.sym => p = q
        BY DEF BotInv, OpenOk, OneEach
    <1>2. ASSUME NEW sym \in Symbols \ strayed
          PROVE  Net(ByBot(sym), orders)
                   = TotalOver({p \in held : p.sym = sym /\ p.id \notin sold}, LAMBDA p : p.qty) + Pending(sym)
        <2>1. PICK H, A, W, u : /\ H = {p \in held : p.sym = sym /\ p.id \notin sold}
                                /\ A = {p \in pass.added : p.sym = sym}
                                /\ W = Watched(sym) /\ u = Unbooked(sym)
            OBVIOUS
        <2>2. W = H \cup A /\ H \cap A = {} /\ \A p, q \in W : p = q
            <3>1. \A p \in A : p.id \notin sold /\ p \notin held
                BY <2>1 DEF BotInv, PassOk, PassRows
            <3> QED
                BY <2>1, <3>1, WatchedOne DEF Watched
        <2>3. \A p \in W : p.qty \in Nat
            BY <2>1, WatchedOne DEF BotInv, OpenOk, Position
        <2>4. u \in Int
            BY <2>1, UnbookedInt
        <2>5. Lots(H) + (Lots(A) + u) = Lots(W) + u
            <3>1. CASE W = {}
                <4>1. H = {} /\ A = {}
                    BY <2>2, <3>1
                <4>2. Lots({}) = 0
                    BY LotsOfOne
                <4> QED
                    BY <2>4, <3>1, <4>1, <4>2
            <3>2. CASE W # {}
                <4>1. PICK p : W = {p}
                    BY <2>2, <3>2
                <4>2. (H = {p} /\ A = {}) \/ (H = {} /\ A = {p})
                    BY <2>2, <4>1
                <4>3. PICK n \in Nat : n = p.qty
                    BY <2>3, <4>1
                <4>4. Lots({}) = 0 /\ Lots({p}) = n
                    BY <4>3, LotsOfOne
                <4>5. PICK a, b, c : a = Lots(H) /\ b = Lots(A) /\ c = Lots(W)
                    OBVIOUS
                <4>6. c = n /\ ((a = n /\ b = 0) \/ (a = 0 /\ b = n))
                    BY <4>1, <4>2, <4>4, <4>5
                <4>7. a + (b + u) = c + u
                    BY <2>4, <4>6
                <4> QED
                    BY <4>5, <4>7
            <3> QED
                BY <3>1, <3>2
        <2>6. TotalOver(H, LAMBDA p : p.qty) = Lots(H) /\ TotalOver(A, LAMBDA p : p.qty) = Lots(A)
            BY DEF Lots
        <2>7. Pending(sym) = Lots(A) + u
            <3>1. Pending(sym) = TotalOver(A, LAMBDA p : p.qty) + Unbooked(sym)
                BY <2>1 DEF Pending, Unbooked
            <3> QED
                BY <2>1, <2>6, <3>1
        <2>8. Net(ByBot(sym), orders) = Lots(W) + u
            BY <2>1 DEF BotInv, Bought
        <2> QED
            BY <2>1, <2>5, <2>6, <2>7, <2>8
    <1> QED
        BY <1>1, <1>2 DEF BotBooks

\* What the bot has bought and not sold is what it watches the exit of (BotPosition rows and
\* what a pass of signal_engine.py has not committed yet), for every number of threads,
\* symbols, positions and orders.
THEOREM BotsBooksAreKept == TradingSpec => []BotBooks
    BY StepBrokerInv, StepBotInv, InitBrokerInv, InitBotInv, InvBotBooks, PTL DEF TradingSpec

-----------------------------------------------------------------------------
(* The risk budget *)

\* Whatever changes, a request's thread forgets positions at most.
LEMMA BudgetStays ==
    ASSUME BudgetInv, UNCHANGED settings, req'[Scheduler] = req[Scheduler], UNCHANGED pass, held' \subseteq held
    PROVE  BudgetInv'
    BY DEF BudgetInv, BudgetOk, LastPrice, Sym, StopDistance

\* The scheduler's thread is idle, and the pass went on or is over.
LEMMA BudgetIdle ==
    ASSUME BudgetInv, UNCHANGED settings, req'[Scheduler].pc = "idle",
           held' \cup pass'.working \subseteq held \cup pass.working,
           pass'.added = {} \/ (pass'.added = pass.added /\ pass'.working = pass.working /\ pass'.cap = pass.cap)
    PROVE  BudgetInv'
    BY DEF BudgetInv, BudgetOk

LEMMA BudgetOrders == ASSUME BrokerInv, BotInv, BudgetInv, PassOrders PROVE BudgetInv'
    <1>1. pass.on /\ pass.todo # <<>> /\ LastPrice # 0 /\ UNCHANGED <<settings, held, pass>>
        BY DEF PassOrders, Deciding, botVars
    <1>2. PICK side, qty, y : /\ y = FillRequest("bot", Sym, side, qty, LastPrice, 0) /\ Set(Scheduler, y)
                              /\ side = "buy" => qty = Affordable /\ qty >= 1
        BY DEF PassOrders, Opens
    <1>3. y.pc = "gate" /\ y.side = side /\ y.qty = qty /\ y.price = LastPrice
        BY <1>2 DEF FillRequest, Request
    <1>4. req'[Scheduler] = y
        BY <1>2, BotAssumption DEF BrokerInv, TablesOk, Set
    <1>5. PICK c, k, d, a, m : /\ c = pass.cap /\ k = Risk(pass.working) /\ d = StopDistance /\ a = Affordable
                               /\ m = a * d
        OBVIOUS
    <1>6. side = "buy" => k + qty * d <= c
        <2>1. c \in Nat /\ k \in Int /\ d \in Nat /\ a \in Nat
            BY <1>1, <1>5, AffordableNat DEF BotInv, PassOk, PassRows
        <2>2. a >= 1 => m <= c - k
            BY <1>1, <1>5, AffordableNat
        <2>3. m \in Int
            BY <1>5, <2>1
        <2>4. a >= 1 => k + m <= c
            BY <2>1, <2>2, <2>3
        <2> QED
            BY <1>2, <1>5, <2>4
    <1>7. Risk(pass.working)' = k /\ pass'.cap = c /\ StopDistance' = d /\ LastPrice' = LastPrice
        BY <1>1, <1>5 DEF StopDistance, LastPrice, Sym
    <1> QED
        BY <1>1, <1>3, <1>4, <1>6, <1>7 DEF BudgetInv, BudgetOk

\* The scheduler's fill goes on, or is committed.
LEMMA BudgetFill == ASSUME BrokerInv, BotInv, BudgetInv, PassFill PROVE BudgetInv'
    <1>1. pass.on /\ Scheduler \in Threads
        BY BotAssumption DEF PassFill
    <1>2. PICK r : r = req[Scheduler]
        OBVIOUS
    <1>3. \E y : /\ req'[Scheduler] = y /\ r.pc # "idle" /\ UNCHANGED settings /\ y.side = r.side /\ y.qty = r.qty
                 /\ settings.router = "paper" /\ r.side = "buy" /\ BudgetOk =>
                       y.price = r.price /\ (y.pc \in {"fold", "commit"} => y.fills[1].price = r.price)
        <2>1. CASE \E y : GoesOn(Scheduler, y)
            <3>1. PICK y : GoesOn(Scheduler, y)
                BY <2>1
            <3>2. /\ r.pc \in {"gate", "route", "wait", "fold"} /\ r.by = "bot" /\ Carries(r, y) /\ y.price = r.price
                  /\ y.pc \in {"route", "wait", "fold", "commit", "refused"} /\ req' = [req EXCEPT ![Scheduler] = y]
                BY <1>2, <3>1 DEF GoesOn, BotInv, SchedulerOk
            <3>3. req'[Scheduler] = y /\ UNCHANGED settings
                BY <1>1, <3>1, <3>2 DEF BrokerInv, TablesOk, GoesOn, Apart, Beside
            <3>4. settings.router = "paper" /\ r.side = "buy" /\ BudgetOk /\ y.pc \in {"fold", "commit"} => y.fills[1].price = r.price
                BY <1>2, <3>1, <3>2 DEF GoesOn, BudgetOk
            <3> QED
                BY <3>2, <3>3, <3>4 DEF Carries
        <2>2. CASE Commit(Scheduler)
            <3>1. PICK y : y = [r EXCEPT !.pc = "filled", !.price = r.fills[1].price]
                OBVIOUS
            <3>2. r.pc = "commit" /\ DOMAIN r = Fields /\ UNCHANGED settings
                BY <1>1, <1>2, <2>2, CommitReturns
            <3>3. r.by = "bot"
                BY <1>2, <3>2 DEF BotInv, SchedulerOk
            <3>4. req' = [req EXCEPT ![Scheduler] = y]
                BY <1>1, <1>2, <2>2, <3>1, <3>3, CommitReturns
            <3>5. req'[Scheduler] = y
                BY <1>1, <3>4 DEF BrokerInv, TablesOk
            <3>6. y.pc = "filled" /\ y.side = r.side /\ y.qty = r.qty /\ y.price = r.fills[1].price
                BY <3>1, <3>2 DEF Fields
            <3>7. BudgetOk /\ r.side = "buy" => r.fills[1].price = r.price
                BY <1>2, <3>2 DEF BudgetOk
            <3> QED
                BY <3>2, <3>5, <3>6, <3>7
        <2> QED
            BY <1>1, <2>1, <2>2, GateGoesOn, RouteGoesOn DEF PassFill
    <1>4. PICK y : /\ req'[Scheduler] = y /\ r.pc # "idle" /\ UNCHANGED settings /\ y.side = r.side /\ y.qty = r.qty
                   /\ settings.router = "paper" /\ r.side = "buy" /\ BudgetOk =>
                         y.price = r.price /\ (y.pc \in {"fold", "commit"} => y.fills[1].price = r.price)
        BY <1>3
    <1>5. SessionCommits \/ UNCHANGED <<held, pass>>
        BY DEF PassFill
    <1>6. /\ pass'.view = pass.view /\ pass'.todo = pass.todo /\ pass'.cap = pass.cap /\ pass'.working = pass.working
          /\ pass'.added \subseteq pass.added /\ held' \subseteq held \cup pass.working
        <2>1. CASE SessionCommits
            <3>1. Flushed \subseteq pass.working
                BY <1>1 DEF BotInv, PassOk, PassRows
            <3> QED
                BY <2>1, <3>1 DEF SessionCommits, BotInv, PassOk, PassRows, PassFields
        <2>2. CASE UNCHANGED <<held, pass>>
            BY <2>2
        <2> QED
            BY <1>5, <2>1, <2>2
    <1>7. StopDistance' = StopDistance /\ LastPrice' = LastPrice
        BY <1>6 DEF StopDistance, LastPrice, Sym
    <1> QED
        BY <1>2, <1>4, <1>6, <1>7 DEF BudgetInv, BudgetOk

\* What the bot has opened risks what was reserved for it.
LEMMA BudgetFilled == ASSUME BrokerInv, BotInv, BudgetInv, PassFilled PROVE BudgetInv'
    <1>1. PICK r, opened : r = req[Scheduler] /\
              opened = [id |-> lastId + 1, sym |-> Sym, qty |-> r.qty, entry |-> r.price, stop |-> LastPrice - StopDistance]
        OBVIOUS
    <1>2. /\ pass.on /\ r.pc = "filled" /\ req'[Scheduler] = Idle /\ UNCHANGED <<settings, held>>
          /\ IF r.side = "buy"
             THEN pass' = [pass EXCEPT !.todo = Tail(@), !.working = @ \cup {opened}, !.added = {opened}]
             ELSE pass' = IF Mine \subseteq held
                          THEN [pass EXCEPT !.todo = Tail(@), !.working = @ \ Mine, !.deleted = Mine] ELSE NoPass
        BY <1>1, BotAssumption DEF PassFilled, At, Set, BrokerInv, TablesOk
    <1>3. pass.todo # <<>> /\ pass.added = {} /\ r.by = "bot" /\ DOMAIN pass = PassFields
        BY <1>1, <1>2 DEF BotInv, SchedulerOk, PassOk, PassRows
    <1>4. Idle.pc = "idle"
        BY IdleAsk
    <1>5. CASE r.side # "buy"
        <2>1. pass'.working \subseteq pass.working /\ pass'.added = {}
            <3>1. CASE Mine \subseteq held
                <4>1. pass' = [pass EXCEPT !.todo = Tail(@), !.working = @ \ Mine, !.deleted = Mine]
                    BY <1>2, <1>5, <3>1
                <4> QED
                    BY <1>3, <4>1 DEF PassFields
            <3>2. CASE ~(Mine \subseteq held)
                BY <1>2, <1>5, <3>2 DEF NoPass
            <3> QED
                BY <3>1, <3>2
        <2> QED
            BY <1>2, <1>4, <2>1 DEF BudgetInv, BudgetOk
    <1>6. CASE r.side = "buy"
        <2>1. SUFFICES ASSUME settings.router = "paper", BudgetOk PROVE BudgetOk'
            BY <1>2 DEF BudgetInv
        <2>2. pass'.working = pass.working \cup {opened} /\ pass'.added = {opened} /\ pass'.cap = pass.cap
            BY <1>2, <1>3, <1>6 DEF PassFields
        <2>3. PICK c, k, d, q, l : c = pass.cap /\ k = Risk(pass.working) /\ d = StopDistance /\ q = r.qty /\ l = LastPrice
            OBVIOUS
        <2>4. r.price = l /\ k + q * d <= c
            BY <1>1, <1>2, <1>6, <2>1, <2>3 DEF BudgetOk
        <2>5. q \in Nat /\ l \in Nat
            <3>1. AskOk(r)
                BY <1>1, BotAssumption DEF BotInv
            <3> QED
                BY <1>2, <1>3, <2>3, <2>4, <3>1 DEF AskOk, Carrying, ForBot
        <2>6. d \in Nat
            <3>1. d = l \div StopPart /\ StopPart \in Nat \ {0}
                BY <2>3, BotAssumption DEF StopDistance
            <3> QED
                BY <2>5, <3>1
        <2>7. RiskOf(opened) = q * d
            <3>1. opened.qty = q /\ opened.entry = l /\ opened.stop = l - d
                BY <1>1, <2>3, <2>4
            <3>2. l - (l - d) = d
                BY <2>5, <2>6
            <3> QED
                BY <3>1, <3>2 DEF RiskOf
        <2>8. q * d \in Nat
            BY <2>5, <2>6
        <2>9. PICK U : U = pass.working \cup {opened}
            OBVIOUS
        <2>10. IsFiniteSet(U) /\ (\A p \in U : RiskOf(p) \in Nat) /\ pass.working \in SUBSET U /\ opened \in U
            <3>1. IsFiniteSet(pass.working)
                BY <1>2 DEF BotInv, PassOk, PassRows
            <3> QED
                BY <2>1, <2>7, <2>8, <2>9, <3>1, FS_AddElement DEF BudgetOk
        <2>11. Risk(U) \in Nat /\ k \in Nat /\ Risk(U) <= k + RiskOf(opened)
            BY <2>3, <2>9, <2>10, RiskGrows
        <2>12. Risk(U) <= c
            <3>1. c \in Nat
                BY <1>2, <2>3 DEF BotInv, PassOk, PassRows
            <3>2. PICK m \in Nat : m = q * d
                BY <2>8
            <3>3. k + m <= c /\ Risk(U) <= k + m
                BY <2>4, <2>7, <2>11, <3>2
            <3> QED
                BY <2>11, <3>1, <3>2, <3>3
        <2>13. \A p \in held' \cup pass'.working : RiskOf(p) \in Nat
            BY <1>2, <2>1, <2>2, <2>7, <2>8 DEF BudgetOk
        <2>14. Risk(pass.working)' = Risk(U) /\ pass'.cap = c
            BY <2>2, <2>3, <2>9
        <2> QED
            BY <1>2, <1>4, <2>12, <2>13, <2>14 DEF BudgetOk
    <1> QED
        BY <1>5, <1>6

LEMMA BudgetStep == ASSUME BrokerInv, BotInv, BudgetInv, BotStep PROVE BudgetInv'
    <1>1. CASE PassSkips
        <2>1. /\ pass.on /\ req[Scheduler].pc = "idle" /\ pass' = [pass EXCEPT !.todo = Tail(@)]
              /\ UNCHANGED <<settings, req, held>>
            BY <1>1 DEF PassSkips, Deciding, At, deskVars
        <2>2. /\ pass'.working = pass.working /\ pass'.added = pass.added /\ pass'.cap = pass.cap
            BY <2>1 DEF BotInv, PassOk, PassRows, PassFields
        <2> QED
            BY <2>1, <2>2, BudgetIdle
    <1>2. CASE PassRefused
        <2>1. /\ pass.on /\ req' = [req EXCEPT ![Scheduler] = Idle] /\ pass' = [pass EXCEPT !.todo = Tail(@)]
              /\ UNCHANGED <<settings, held>>
            BY <1>2 DEF PassRefused, Set
        <2>2. /\ pass'.working = pass.working /\ pass'.added = pass.added /\ pass'.cap = pass.cap
            BY <2>1 DEF BotInv, PassOk, PassRows, PassFields
        <2>3. req'[Scheduler].pc = "idle"
            BY <2>1, IdleAsk, BotAssumption DEF BrokerInv, TablesOk
        <2> QED
            BY <2>1, <2>2, <2>3, BudgetIdle
    <1>3. CASE PassFails \/ PassEnds
        <2>1. pass.on /\ req'[Scheduler].pc = "idle" /\ pass' = NoPass /\ UNCHANGED settings /\ (held' = held \/ held' = Flushed)
            BY <1>3 DEF PassFails, PassEnds, Deciding, At, deskVars
        <2>2. Flushed \subseteq pass.working
            BY <2>1 DEF BotInv, PassOk, PassRows
        <2> QED
            BY <2>1, <2>2, NoPassRows, BudgetIdle
    <1> QED
        BY <1>1, <1>2, <1>3, BudgetOrders, BudgetFilled, BudgetFill DEF BotStep

\* A request's thread leaves the scheduler's alone, and adds no position.
LEMMA ClientLeaves ==
    ASSUME BrokerInv, BotInv, NEW t \in Threads \ {Scheduler},
           \/ (DeskRequest(t) \/ DeskStep(t)) /\ UNCHANGED botVars
           \/ ClientFill(t) \/ CloseRead(t) \/ CloseDone(t) \/ PutConfig(t) \/ PutCommit(t)
    PROVE  UNCHANGED <<settings, pass>> /\ req'[Scheduler] = req[Scheduler] /\ held' \subseteq held
    <1>1. UNCHANGED <<settings, pass>> /\ held' \subseteq held
        BY DEF DeskRequest, DeskStep, botVars, ClientFill, CloseRead, CloseDone, PutConfig, PutCommit, PlaceOrder,
               MatchRead, CancelRead, MatchGate, CancelCommit, Gate, RouteStep, RoutePaper, RouteBroker, RouteRefused,
               WaitForFill, ReadPosition, Rest, Commit
    <1>2. \E y : req' = [req EXCEPT ![t] = y]
        <2>1. CASE PlaceOrder(t) \/ MatchRead(t) \/ CancelRead(t) \/ CancelCommit(t) \/ CloseRead(t) \/ CloseDone(t)
                   \/ PutConfig(t) \/ PutCommit(t) \/ Rest(t)
            BY <2>1 DEF PlaceOrder, MatchRead, CancelRead, CancelCommit, CloseRead, CloseDone, PutConfig, PutCommit, Rest, Set
        <2>2. CASE MatchGate(t)
            BY <2>2 DEF MatchGate, Filling, Set
        <2>3. CASE \E y : GoesOn(t, y)
            BY <2>3 DEF GoesOn
        <2>4. CASE Commit(t)
            BY <2>4, CommitReturns
        <2> QED
            BY <2>1, <2>2, <2>3, <2>4, GateGoesOn, RouteGoesOn DEF DeskRequest, DeskStep, ClientFill
    <1> QED
        BY <1>1, <1>2, BotAssumption DEF BrokerInv, TablesOk

LEMMA StepBudgetInv == BrokerInv /\ BotInv /\ BudgetInv /\ [TradingNext]_tradingVars => BudgetInv'
    <1> SUFFICES ASSUME BrokerInv, BotInv, BudgetInv, [TradingNext]_tradingVars PROVE BudgetInv'
        OBVIOUS
    <1>1. CASE UNCHANGED <<settings, req, pass>> /\ held' \subseteq held
        BY <1>1, BudgetStays
    <1>2. CASE TradingNext
        <2>1. ASSUME NEW t \in Threads \ {Scheduler},
                     \/ (DeskRequest(t) \/ DeskStep(t)) /\ UNCHANGED botVars
                     \/ ClientFill(t) \/ CloseRead(t) \/ CloseDone(t) \/ PutConfig(t) \/ PutCommit(t)
              PROVE  BudgetInv'
            BY <2>1, ClientLeaves, BudgetStays
        <2>2. CASE ((BrokerDecides \/ Midnight) /\ UNCHANGED botVars) \/ ForceClear \/ HardReset
            <3>1. UNCHANGED <<settings, req, pass>> /\ held' \subseteq held
                BY <2>2 DEF BrokerDecides, Midnight, botVars, ForceClear, HardReset, deskVars
            <3> QED
                BY <1>1, <3>1
        <2>3. CASE PassStart
            <3>1. /\ req[Scheduler].pc = "idle" /\ UNCHANGED <<settings, req, held>>
                  /\ pass'.added = {} /\ pass'.working = held
                BY <2>3 DEF PassStart, At, deskVars, NoPass
            <3> QED
                BY <3>1, BudgetIdle
        <2>4. CASE TradingDies
            <3>1. req'[Scheduler] = Idle /\ pass' = NoPass /\ UNCHANGED <<settings, held>>
                BY <2>4, BotAssumption DEF TradingDies, ProcessDies
            <3> QED
                BY <3>1, IdleAsk, NoPassRows, BudgetIdle
        <2> QED
            BY <1>2, <2>1, <2>2, <2>3, <2>4, BudgetStep DEF TradingNext
    <1>3. CASE UNCHANGED tradingVars
        BY <1>1, <1>3 DEF tradingVars, deskVars, botVars
    <1> QED
        BY <1>2, <1>3

LEMMA InitBudgetInv == TradingInit => BudgetInv
    <1>1. SUFFICES ASSUME TradingInit PROVE BudgetInv
        OBVIOUS
    <1>2. held = {} /\ pass = NoPass /\ req = [t \in Threads |-> Idle]
        BY <1>1 DEF TradingInit, DeskStart, BotInit
    <1>3. req[Scheduler].pc = "idle" /\ pass.added = {} /\ pass.working = {}
        BY <1>2, IdleAsk, BotAssumption DEF NoPass
    <1> QED
        BY <1>2, <1>3 DEF BudgetInv, BudgetOk

\* A position is added to the table by a commit of the pass's session.
LEMMA HeldGrows ==
    ASSUME BrokerInv, BotInv, TradingNext, NEW p \in held' \ held
    PROVE  held' = Flushed
    <1>1. ASSUME NEW t \in Threads \ {Scheduler},
                 \/ (DeskRequest(t) \/ DeskStep(t)) /\ UNCHANGED botVars
                 \/ ClientFill(t) \/ CloseRead(t) \/ CloseDone(t) \/ PutConfig(t) \/ PutCommit(t)
          PROVE  FALSE
        BY <1>1, ClientLeaves
    <1>2. CASE ((BrokerDecides \/ Midnight) /\ UNCHANGED botVars) \/ ForceClear \/ HardReset \/ PassStart \/ TradingDies
        BY <1>2 DEF botVars, ForceClear, HardReset, PassStart, TradingDies
    <1>3. CASE BotStep
        BY <1>3 DEF BotStep, PassOrders, PassSkips, PassRefused, PassFilled, PassFails, PassEnds, PassFill, SessionCommits, botVars
    <1> QED
        BY <1>1, <1>2, <1>3 DEF TradingNext

\* So every position of a pass was within the budget that the pass read.
LEMMA StepBudget ==
    BrokerInv /\ BotInv /\ BudgetInv /\ TradingNext =>
        \A p \in held' \ held : settings.router = "paper" /\ pass.on => Risk(held') <= pass.cap
    <1> SUFFICES ASSUME BrokerInv, BotInv, BudgetInv, TradingNext, NEW p \in held' \ held,
                        settings.router = "paper", pass.on
                 PROVE  Risk(held') <= pass.cap
        OBVIOUS
    <1>1. held' = Flushed /\ p \in pass.added
        BY HeldGrows DEF Flushed
    <1>2. held' \in SUBSET pass.working /\ IsFiniteSet(pass.working) /\ pass.cap \in Nat
        BY <1>1 DEF BotInv, PassOk, PassRows
    <1>3. (\A q \in pass.working : RiskOf(q) \in Nat) /\ Risk(pass.working) <= pass.cap
        BY <1>1 DEF BudgetInv, BudgetOk
    <1>4. PICK U, T : U = pass.working /\ T = held'
        OBVIOUS
    <1>5. Risk(T) \in Nat /\ Risk(T) <= Risk(U)
        BY <1>2, <1>3, <1>4, RiskGrows
    <1>6. Risk(U) \in Nat
        BY <1>2, <1>3, <1>4, RiskGrows
    <1>7. PICK a, b, c : a = Risk(T) /\ b = Risk(U) /\ c = pass.cap
        OBVIOUS
    <1>8. a <= c
        BY <1>2, <1>3, <1>4, <1>5, <1>6, <1>7
    <1> QED
        BY <1>4, <1>7, <1>8

\* A position that the bot opens keeps what a stop-out of the whole book loses within the
\* budget of its pass, two opened in one pass too: evaluate_tenant sizes against the
\* positions that the pass works on, for any number of them.
THEOREM BudgetIsKept == TradingSpec => OpensWithinBudget
    <1>1. BrokerInv /\ BotInv /\ BudgetInv /\ [TradingNext]_tradingVars =>
             [\A p \in held' \ held : settings.router = "paper" /\ pass.on => Risk(held') <= pass.cap]_tradingVars
        BY StepBudget
    <1> QED
        BY <1>1, StepBrokerInv, StepBotInv, StepBudgetInv, InitBrokerInv, InitBotInv, InitBudgetInv, PTL
           DEF TradingSpec, OpensWithinBudget

=============================================================================
