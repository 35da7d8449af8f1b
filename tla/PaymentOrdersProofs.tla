-------------------------- MODULE PaymentOrdersProofs --------------------------
(***************************************************************************)
(* The safety of PaymentOrders for any number of orders, transactions,     *)
(* buyers and callbacks, any products and any dates: the inductive         *)
(* invariants in three layers, and the implementation of OrderLedger.      *)
(***************************************************************************)
EXTENDS PaymentOrders, TLAPS

(* First layer: what a goroutine holds fits the step it is at, and rows    *)
(* and transactions refer to each other.                                   *)
Known(o) == o \in Orders /\ orders[o].status # "none"
Started(t) == t \in Txns /\ txns[t].state # "none"

CallFits(k) ==
  /\ k.step \in {"expire", "claim", "ask", "clear", "save",
                 "attach", "check", "confirm", "lapse"} => Known(k.order)
  /\ k.step \in {"expire", "create"} => k.product \in Products
  /\ k.step \in {"save", "payload", "attach", "check", "confirm", "lookup"}
       => Started(k.txn)
  /\ k.at <= now

TxnFits(t) == Started(t) => Known(txns[t].order)

RowFits(o) == /\ orders[o].status = "none" => orders[o] = NoRow
              /\ orders[o].expires # NoTime => orders[o].status \in {"paid", "canceled"}
              /\ orders[o].txn # NoTxn => Started(orders[o].txn)

Fit == /\ TypeOK
       /\ \A c \in Goroutines : CallFits(call[c])
       /\ \A t \in Txns : TxnFits(t)
       /\ \A o \in Orders : RowFits(o)

(* Second layer: an order has at most one transaction.  Who is on the way  *)
(* to the provider for an order is alone and the order says so.            *)
Asking(c) == call[c].step \in {"ask", "clear", "save"}

OneTxn == \A t, u \in Txns :
            Started(t) /\ Started(u) /\ txns[t].order = txns[u].order => t = u

AskingFits(c) ==
  Asking(c) => /\ orders[call[c].order].uncertain
               /\ \A d \in Goroutines : Asking(d) /\ call[d].order = call[c].order => d = c
               /\ \A t \in Txns : Started(t) /\ txns[t].order = call[c].order
                                   => At(c, "save") /\ call[c].txn = t
               /\ At(c, "save") => txns[call[c].txn].order = call[c].order

HandlingFits(c) ==
  LET k == call[c] IN
  /\ k.step \in {"payload", "attach", "check", "confirm", "lookup"} => SaysConfirmed(k.txn)
  /\ k.step = "attach" => txns[k.txn].order = k.order
  /\ k.step \in {"check", "confirm"} => orders[k.order].txn = k.txn

TxnKnown(t) == Started(t) => LET o == txns[t].order
                             IN orders[o].uncertain \/ orders[o].txn = t

TxnOwned(o) == orders[o].txn # NoTxn => txns[orders[o].txn].order = o

Single == /\ OneTxn
          /\ \A c \in Goroutines : AskingFits(c) /\ HandlingFits(c)
          /\ \A t \in Txns : TxnKnown(t)
          /\ \A o \in Orders : TxnOwned(o)

(* Third layer: while a link can be paid its order is the pending one.     *)
OnePending == \A o, p \in Orders :
                /\ orders[o].status = "pending" /\ orders[p].status = "pending"
                /\ orders[o].product = orders[p].product
                => o = p

LinkFits(c) ==
  /\ At(c, "ask") => orders[call[c].order].status = "pending"
  /\ At(c, "save") => txns[call[c].txn].deadline = call[c].at + LinkTTL
  /\ At(c, "expire") => \E t \in Txns : /\ Started(t) /\ txns[t].order = call[c].order
                                        /\ txns[t].deadline <= now
  /\ At(c, "lapse") => \E t \in Txns : /\ txns[t].order = call[c].order
                                       /\ txns[t].state = "canceled"

DeadlineFits(o) == orders[o].deadline # NoTime
                     => orders[o].deadline >= txns[orders[o].txn].deadline

OpenFits(t) ==
  txns[t].state = "open" =>
    \/ orders[txns[t].order].status = "pending"
    \/ orders[txns[t].order].status = "expired" /\ txns[t].deadline <= now

Live == /\ OnePending
        /\ \A c \in Goroutines : LinkFits(c)
        /\ \A o \in Orders : DeadlineFits(o)
        /\ \A t \in Txns : OpenFits(t)

--------------------------------------------------------------------------------
(* Steps of the first layer.                                               *)
LEMMA RowType ==
  ASSUME NEW s \in Statuses, NEW m \in Products \cup {NoProduct}, NEW u \in BOOLEAN,
         NEW t \in Txns \cup {NoTxn}, NEW d \in Time, NEW e \in Time,
         s = "none" <=> m = NoProduct, s = "paid" => e # NoTime, d # NoTime => t # NoTxn
  PROVE  Row(s, m, u, t, d, e) \in Rows
BY DEF Row, Rows

LEMMA RowFields ==
  ASSUME NEW r \in Rows
  PROVE  /\ r.status \in Statuses /\ r.product \in Products \cup {NoProduct}
         /\ r.uncertain \in BOOLEAN /\ r.txn \in Txns \cup {NoTxn}
         /\ r.deadline \in Time /\ r.expires \in Time
         /\ r.status = "none" <=> r.product = NoProduct
         /\ r.status = "paid" => r.expires # NoTime
         /\ r.deadline # NoTime => r.txn # NoTxn
BY DEF Rows

LEMMA FreshRows == NoRow \in Rows /\ \A m \in Products : NewRow(m) \in Rows
BY NullAssumption, RowType DEF NoRow, NewRow, Statuses, Time

LEMMA SetStatusType ==
  ASSUME NEW r \in Rows, NEW s \in Statuses \ {"none"},
         r.status # "none", s = "paid" => r.expires # NoTime
  PROVE  SetStatus(r, s) \in Rows
BY RowType, RowFields DEF SetStatus

LEMMA SetUncertainType ==
  ASSUME NEW r \in Rows, NEW u \in BOOLEAN PROVE SetUncertain(r, u) \in Rows
BY RowType, RowFields DEF SetUncertain

LEMMA SetTxnType ==
  ASSUME NEW r \in Rows, NEW t \in Txns, NullAssumption PROVE SetTxn(r, t) \in Rows
BY RowType, RowFields, NullAssumption DEF SetTxn

LEMMA CallTypes ==
  /\ \A s \in Steps, m \in Products, o \in Orders \cup {NoOrder}, n \in Nat :
       Wants(s, m, o, n) \in Calls
  /\ \A s \in Steps, o \in Orders \cup {NoOrder}, t \in Txns \cup {NoTxn}, r \in Rows, n \in Nat :
       Holds(s, o, t, r, n) \in Calls
  /\ Idle \in Calls
BY FreshRows DEF Wants, Holds, Calls, Idle, Steps

LEMMA GoFits ==
  ASSUME Fit, NEW c \in Goroutines, NEW k \in Calls, Go(c, k),
         \A o : Known(o) => Known(o)', \A t : Started(t) => Started(t)',
         now' = now, CallFits(k)'
  PROVE  call' \in [Goroutines -> Calls] /\ \A d \in Goroutines : CallFits(call[d])'
<1>1. call' \in [Goroutines -> Calls]
  BY DEF Fit, TypeOK, Go
<1>2. ASSUME NEW d \in Goroutines PROVE CallFits(call[d])'
  <2>1. CASE d = c
    BY <2>1 DEF Fit, TypeOK, Go
  <2>2. CASE d # c
    BY <2>2 DEF Fit, TypeOK, Go, CallFits
  <2> QED BY <2>1, <2>2
<1> QED BY <1>1, <1>2

LEMMA StayFits ==
  ASSUME Fit, call' = call,
         \A o : Known(o) => Known(o)', \A t : Started(t) => Started(t)',
         now' \in Nat, now' >= now
  PROVE  call' \in [Goroutines -> Calls] /\ \A d \in Goroutines : CallFits(call[d])'
BY DEF Fit, TypeOK, CallFits, Calls

(* A goroutine goes on without touching the database.                      *)
LEMMA QuietFit ==
  ASSUME Fit, NEW c \in Goroutines, NEW k \in Calls, Go(c, k), CallFits(k)',
         UNCHANGED <<now, orders, sub, txns>>, alerts' \subseteq Txns
  PROVE  Fit'
<1>1. (\A o : Known(o) => Known(o)') /\ \A t : Started(t) => Started(t)'
  BY DEF Known, Started
<1>2. call' \in [Goroutines -> Calls] /\ \A d \in Goroutines : CallFits(call[d])'
  BY <1>1, GoFits
<1> QED BY <1>1, <1>2 DEF Fit, TypeOK, TxnFits, RowFits, Known, Started

LEMMA IdleFits == ASSUME Fit, now' \in Nat PROVE CallFits(Idle)'
BY DEF CallFits, Idle, Holds

(* One row of orders changes; its order exists and stays.                  *)
LEMMA RowFit ==
  ASSUME Fit, NEW o \in Orders, NEW r \in Rows, Known(o), r.status # "none",
         orders' = [orders EXCEPT ![o] = r],
         r.expires # NoTime => r.status \in {"paid", "canceled"},
         r.txn # NoTxn => Started(r.txn), UNCHANGED txns
  PROVE  /\ orders' \in [Orders -> Rows]
         /\ \A p : Known(p) => Known(p)'
         /\ \A t : Started(t) => Started(t)'
         /\ \A t \in Txns : TxnFits(t)'
         /\ \A p \in Orders : RowFits(p)'
<1>1. orders' \in [Orders -> Rows]
  BY DEF Fit, TypeOK
<1>2. \A p : Known(p) => Known(p)'
  BY DEF Fit, TypeOK, Known
<1>3. \A t : Started(t) => Started(t)'
  BY DEF Started
<1>4. \A t \in Txns : TxnFits(t)'
  BY <1>2 DEF Fit, TxnFits, Started
<1>5. \A p \in Orders : RowFits(p)'
  BY DEF Fit, TypeOK, RowFits, Started
<1> QED BY <1>1, <1>2, <1>3, <1>4, <1>5

LEMMA RowGoFit ==
  ASSUME Fit, NEW o \in Orders, NEW r \in Rows, Known(o), r.status # "none",
         orders' = [orders EXCEPT ![o] = r],
         r.expires # NoTime => r.status \in {"paid", "canceled"},
         r.txn # NoTxn => Started(r.txn),
         NEW c \in Goroutines, NEW k \in Calls, Go(c, k), CallFits(k)',
         UNCHANGED <<now, txns, alerts>>,
         sub' \in [plan : Plans, active : BOOLEAN, expires : Time]
  PROVE  Fit'
<1>1. /\ orders' \in [Orders -> Rows]
      /\ \A p : Known(p) => Known(p)'
      /\ \A t : Started(t) => Started(t)'
      /\ \A t \in Txns : TxnFits(t)'
      /\ \A p \in Orders : RowFits(p)'
  BY RowFit
<1>2. call' \in [Goroutines -> Calls] /\ \A d \in Goroutines : CallFits(call[d])'
  BY <1>1, GoFits
<1> QED BY <1>1, <1>2 DEF Fit, TypeOK

--------------------------------------------------------------------------------
(* The first layer, action by action.                                      *)
USE DEF Goroutines

LEMMA GoOnFit ==
  ASSUME Fit, NEW c \in Goroutines, NEW o \in Orders, NEW r, Known(o)',
         GoOn(c, o, r), now' \in Nat
  PROVE  \E k \in Calls : Go(c, k) /\ CallFits(k)'
<1>1. Holds("claim", o, NoTxn, NoRow, 0) \in Calls /\ CallFits(Holds("claim", o, NoTxn, NoRow, 0))'
  BY CallTypes, FreshRows DEF CallFits, Holds, Steps
<1> QED BY <1>1, CallTypes, IdleFits DEF GoOn

LEMMA RequestPaymentFit ==
  ASSUME Fit, NEW b \in Buyers, NEW m \in Products, RequestPayment(b, m) PROVE Fit'
<1>1. now \in Nat /\ alerts \subseteq Txns /\ now' = now
  BY DEF Fit, TypeOK, RequestPayment
<1>2. \E k \in Calls : Go(b, k) /\ CallFits(k)'
  <2>1. CASE Go(b, Wants("create", m, NoOrder, now))
    <3>1. PICK k \in Calls : k = Wants("create", m, NoOrder, now)
      BY <1>1, CallTypes DEF Steps
    <3>2. CallFits(k)'
      BY <1>1, <3>1 DEF CallFits, Wants
    <3> QED BY <2>1, <3>1, <3>2
  <2>2. ASSUME NEW o \in PendingFor(m), Go(b, Wants("expire", m, o, now))
        PROVE  \E k \in Calls : Go(b, k) /\ CallFits(k)'
    <3>1. Known(o)'
      BY DEF PendingFor, Known, RequestPayment
    <3>2. PICK k \in Calls : k = Wants("expire", m, o, now)
      BY <1>1, <3>1, CallTypes DEF Steps, Known
    <3>3. CallFits(k)'
      BY <1>1, <3>1, <3>2 DEF CallFits, Wants
    <3> QED BY <2>2, <3>2, <3>3
  <2>3. ASSUME NEW o \in PendingFor(m), GoOn(b, o, orders[o])
        PROVE  \E k \in Calls : Go(b, k) /\ CallFits(k)'
    <3>1. Known(o)' /\ o \in Orders
      BY DEF PendingFor, Known, RequestPayment
    <3> QED BY <1>1, <2>3, <3>1, GoOnFit
  <2> QED BY <2>1, <2>2, <2>3 DEF RequestPayment
<1> QED BY <1>1, <1>2, QuietFit DEF RequestPayment

LEMMA FindPendingFit ==
  ASSUME Fit, NEW b \in Buyers, FindPendingPaymentOrder(b) PROVE Fit'
<1> DEFINE o == call[b].order
<1>1. Known(o) /\ call[b].product \in Products /\ call[b].at \in Nat /\ call[b].at <= now
  BY DEF Fit, TypeOK, Calls, CallFits, FindPendingPaymentOrder, At
<1>2. now \in Nat /\ now' = now /\ orders[o] \in Rows
  BY <1>1 DEF Fit, TypeOK, FindPendingPaymentOrder, Known
<1>3. PICK r \in Rows : /\ orders' = [orders EXCEPT ![o] = r] /\ r.status # "none"
                        /\ r.expires = orders[o].expires /\ r.txn = orders[o].txn
                        /\ r.status = orders[o].status \/ orders[o].status = "pending"
  <2>1. CASE orders[o].status = "pending"
    <3>1. SetStatus(orders[o], "expired") \in Rows
      BY <1>2, <2>1, SetStatusType DEF Statuses
    <3> QED BY <2>1, <3>1 DEF FindPendingPaymentOrder, Expired, SetStatus, Row
  <2>2. CASE orders[o].status # "pending"
    <3>1. orders' = [orders EXCEPT ![o] = orders[o]]
      BY <1>1, <2>2 DEF Fit, TypeOK, FindPendingPaymentOrder, Expired, Known
    <3> QED BY <1>1, <1>2, <3>1 DEF Known
  <2> QED BY <2>1, <2>2
<1>4. \E k \in Calls : Go(b, k) /\ CallFits(k)'
  <2>1. LET k == Wants("create", call[b].product, NoOrder, call[b].at)
        IN k \in Calls /\ CallFits(Wants("create", call[b].product, NoOrder, call[b].at))
    BY <1>1, CallTypes DEF CallFits, Wants, Steps
  <2> QED BY <1>2, <2>1, CallTypes, IdleFits DEF FindPendingPaymentOrder, Return, CallFits, Wants
<1>5. /\ r.expires # NoTime => r.status \in {"paid", "canceled"}
      /\ r.txn # NoTxn => Started(r.txn)
  BY <1>1, <1>3 DEF Fit, RowFits, Known
<1> QED
  <2>1. o \in Orders /\ sub' \in [plan : Plans, active : BOOLEAN, expires : Time]
    BY <1>1 DEF Fit, TypeOK, Known, FindPendingPaymentOrder
  <2> HIDE DEF o
  <2> QED BY <1>1, <1>3, <1>4, <1>5, <2>1, RowGoFit DEF FindPendingPaymentOrder

LEMMA FindOrCreateFit ==
  ASSUME Fit, NEW b \in Buyers, FindOrCreatePendingPaymentOrder(b) PROVE Fit'
<1> DEFINE m == call[b].product
           stale == {o \in PendingFor(m) :
                      ~orders[o].uncertain /\ HasPassed(orders[o].deadline, call[b].at)}
<1>1. m \in Products /\ now \in Nat /\ now' = now
  BY DEF Fit, TypeOK, CallFits, FindOrCreatePendingPaymentOrder, At
<1>2. CASE UNCHANGED orders
  <2>1. PICK o \in Orders : Known(o) /\ GoOn(b, o, orders[o])
    <3>1. CASE \E o \in PendingFor(m) : GoOn(b, o, orders[o])
      BY <3>1 DEF PendingFor, Known
    <3>2. ASSUME NEW n \in Orders, IsNext(n), orders' = [o \in Orders |->
                                IF o = n THEN NewRow(m)
                                ELSE IF o \in stale THEN SetStatus(orders[o], "expired")
                                ELSE orders[o]]
          PROVE FALSE
      BY <1>2, <3>2, OrdersAssumption DEF IsNext, NewRow, Row, Fit, TypeOK
    <3> QED BY <3>1, <3>2 DEF FindOrCreatePendingPaymentOrder
  <2>2. \E k \in Calls : Go(b, k) /\ CallFits(k)'
    BY <1>1, <1>2, <2>1, GoOnFit DEF Known
  <2> QED BY <1>2, <2>2, QuietFit DEF FindOrCreatePendingPaymentOrder, Fit, TypeOK
<1>3. ASSUME NEW n \in Orders, IsNext(n), GoOn(b, n, NewRow(m)),
             orders' = [o \in Orders |->
                                IF o = n THEN NewRow(m)
                                ELSE IF o \in stale THEN SetStatus(orders[o], "expired")
                                ELSE orders[o]]
      PROVE  Fit'
  <2>1. \A o \in stale : SetStatus(orders[o], "expired") \in Rows
    BY SetStatusType DEF Fit, TypeOK, PendingFor, Statuses
  <2>2. orders' \in [Orders -> Rows]
    BY <1>1, <1>3, <2>1, FreshRows DEF Fit, TypeOK
  <2>3. \A o : Known(o) => Known(o)'
    BY <1>3 DEF Known, NewRow, SetStatus, Row
  <2>4. \A t : Started(t) => Started(t)'
    BY DEF Started, FindOrCreatePendingPaymentOrder
  <2>5. \A t \in Txns : TxnFits(t)'
    BY <2>3 DEF Fit, TxnFits, Started, FindOrCreatePendingPaymentOrder
  <2>6. ASSUME NEW o \in Orders PROVE RowFits(o)'
    <3>1. CASE o = n
      BY <1>3, <3>1 DEF RowFits, NewRow, Row
    <3>2. CASE o # n /\ o \in stale
      BY <1>3, <2>4, <3>2 DEF Fit, RowFits, SetStatus, Row, PendingFor
    <3>3. CASE o # n /\ o \notin stale
      BY <1>3, <2>4, <3>3 DEF Fit, RowFits
    <3> QED BY <3>1, <3>2, <3>3
  <2>7. Known(n)'
    BY <1>3 DEF Known, NewRow, Row
  <2>8. \E k \in Calls : Go(b, k) /\ CallFits(k)'
    BY <1>1, <1>3, <2>7, GoOnFit
  <2>9. call' \in [Goroutines -> Calls] /\ \A d \in Goroutines : CallFits(call[d])'
    BY <1>1, <2>3, <2>4, <2>8, GoFits
  <2> QED BY <2>2, <2>5, <2>6, <2>9 DEF Fit, TypeOK, FindOrCreatePendingPaymentOrder
<1> QED BY <1>2, <1>3 DEF FindOrCreatePendingPaymentOrder

LEMMA ReturnFit ==
  ASSUME Fit, NEW c \in Goroutines, Return(c), UNCHANGED <<now, orders, sub, txns>>,
         alerts' \subseteq Txns
  PROVE  Fit'
BY QuietFit, IdleFits, CallTypes DEF Return, Fit, TypeOK

LEMMA ClaimCreationFit ==
  ASSUME Fit, NEW b \in Buyers, ClaimCreation(b) PROVE Fit'
<1>1. PICK o \in Orders : o = call[b].order /\ Known(o)
  BY DEF Fit, CallFits, ClaimCreation, At, Known
<1>2. /\ now' = now /\ now \in Nat /\ orders[o] \in Rows
      /\ call[b].txn \in Txns \cup {NoTxn} /\ call[b].row \in Rows
      /\ sub' \in [plan : Plans, active : BOOLEAN, expires : Time]
  BY DEF Fit, TypeOK, ClaimCreation, Calls
<1>3. CASE Claimable(orders[o])
  <2>1. PICK r \in Rows : r = SetUncertain(orders[o], TRUE)
    BY <1>2, SetUncertainType
  <2>2. /\ r.status # "none" /\ r.expires = orders[o].expires
        /\ r.txn = orders[o].txn /\ r.status = orders[o].status
    BY <1>1, <2>1 DEF SetUncertain, Row, Known
  <2>3. PICK k \in Calls : k = Holds("ask", o, call[b].txn, call[b].row, 0)
    BY <1>2, CallTypes DEF Steps
  <2>4. orders' = [orders EXCEPT ![o] = r] /\ Go(b, k)
    BY <1>1, <1>3, <2>1, <2>3 DEF ClaimCreation, Goto
  <2>5. CallFits(k)'
    BY <1>2, <2>2, <2>3, <2>4 DEF CallFits, Holds, Known, Fit, TypeOK
  <2>6. /\ r.expires # NoTime => r.status \in {"paid", "canceled"}
        /\ r.txn # NoTxn => Started(r.txn)
    BY <2>2 DEF Fit, RowFits
  <2> QED BY <1>1, <1>2, <2>2, <2>4, <2>5, <2>6, RowGoFit DEF ClaimCreation
<1>4. CASE ~Claimable(orders[o])
  BY <1>1, <1>4, ReturnFit DEF ClaimCreation, Fit, TypeOK
<1> QED BY <1>3, <1>4

LEMMA CreateTransactionFit ==
  ASSUME Fit, NEW b \in Buyers, CreateTransaction(b) PROVE Fit'
<1>1. PICK o \in Orders : o = call[b].order /\ Known(o)
  BY DEF Fit, CallFits, CreateTransaction, At, Known
<1>2. PICK t \in Txns :
        /\ Unused(t)
        /\ txns' = [txns EXCEPT ![t] = [order |-> o, state |-> "open", deadline |-> now + LinkTTL]]
        /\ Go(b, Holds("save", o, t, NoRow, now))
        /\ UNCHANGED <<now, orders, sub, alerts>>
  BY <1>1 DEF CreateTransaction
<1>3. now \in Nat
  BY DEF Fit, TypeOK
<1>4. \A x : Started(x) => Started(x)'
  BY <1>2 DEF Started, Fit, TypeOK
<1>5. \A p : Known(p) => Known(p)'
  BY <1>2 DEF Known
<1>6. txns' \in [Txns -> [order : Orders \cup {NoOrder}, deadline : Nat,
                 state : {"none", "open", "confirmed", "canceled", "chargedback"}]]
  BY <1>2, <1>3, TimesAssumption DEF Fit, TypeOK
<1>7. PICK k \in Calls : k = Holds("save", o, t, NoRow, now)
  BY <1>3, CallTypes, FreshRows DEF Steps
<1>8. CallFits(k)'
  <2>1. Started(t)'
    BY <1>2 DEF Started, Fit, TypeOK
  <2> QED BY <1>1, <1>2, <1>3, <1>5, <1>7, <2>1 DEF CallFits, Holds
<1>9. call' \in [Goroutines -> Calls] /\ \A d \in Goroutines : CallFits(call[d])'
  BY <1>2, <1>4, <1>5, <1>7, <1>8, GoFits
<1>10. \A x \in Txns : TxnFits(x)'
  BY <1>1, <1>2, <1>5 DEF Fit, TypeOK, TxnFits, Started
<1>11. \A p \in Orders : RowFits(p)'
  BY <1>2, <1>4 DEF Fit, RowFits
<1> QED BY <1>2, <1>6, <1>9, <1>10, <1>11 DEF Fit, TypeOK

LEMMA RefuseTransactionFit ==
  ASSUME Fit, NEW b \in Buyers, RefuseTransaction(b) PROVE Fit'
<1>1. /\ Known(call[b].order) /\ now' = now /\ now \in Nat
      /\ call[b].txn \in Txns \cup {NoTxn} /\ call[b].row \in Rows
  BY DEF Fit, TypeOK, CallFits, RefuseTransaction, At, Calls
<1>2. PICK k \in Calls : k = Holds("clear", call[b].order, call[b].txn, call[b].row, 0)
  BY <1>1, CallTypes DEF Steps, Known
<1>3. CallFits(k)' /\ Go(b, k)
  BY <1>1, <1>2 DEF CallFits, Holds, Known, RefuseTransaction, Goto
<1> QED BY <1>3, QuietFit DEF RefuseTransaction, Fit, TypeOK

LEMMA ClearUncertainFit ==
  ASSUME Fit, NEW b \in Buyers, ClearUncertain(b) PROVE Fit'
<1>1. PICK o \in Orders : o = call[b].order /\ Known(o)
  BY DEF Fit, CallFits, ClearUncertain, At, Known
<1>2. /\ now' = now /\ now \in Nat /\ orders[o] \in Rows /\ Return(b)
      /\ sub' \in [plan : Plans, active : BOOLEAN, expires : Time]
  BY DEF Fit, TypeOK, ClearUncertain
<1>3. CASE orders[o].status = "pending"
  <2>1. PICK r \in Rows : r = SetUncertain(orders[o], FALSE)
    BY <1>2, SetUncertainType
  <2>2. /\ r.status # "none" /\ r.expires = orders[o].expires
        /\ r.txn = orders[o].txn /\ r.status = orders[o].status
    BY <1>1, <2>1 DEF SetUncertain, Row, Known
  <2>3. orders' = [orders EXCEPT ![o] = r]
    BY <1>1, <1>3, <2>1 DEF ClearUncertain
  <2>4. /\ r.expires # NoTime => r.status \in {"paid", "canceled"}
        /\ r.txn # NoTxn => Started(r.txn)
    BY <2>2 DEF Fit, RowFits
  <2> QED BY <1>1, <1>2, <2>2, <2>3, <2>4, RowGoFit, IdleFits, CallTypes DEF ClearUncertain, Return
<1>4. CASE orders[o].status # "pending"
  BY <1>1, <1>4, ReturnFit DEF ClearUncertain, Fit, TypeOK
<1> QED BY <1>3, <1>4

LEMMA SavePaymentDetailsFit ==
  ASSUME Fit, NEW b \in Buyers, SavePaymentDetails(b) PROVE Fit'
<1>1. PICK o \in Orders : o = call[b].order /\ Known(o)
  BY DEF Fit, CallFits, SavePaymentDetails, At, Known
<1>2. PICK t \in Txns : t = call[b].txn /\ Started(t)
  BY DEF Fit, CallFits, SavePaymentDetails, At, Started
<1>3. /\ now' = now /\ now \in Nat /\ orders[o] \in Rows /\ Return(b)
      /\ sub' \in [plan : Plans, active : BOOLEAN, expires : Time]
      /\ call[b].at \in Nat
  BY DEF Fit, TypeOK, SavePaymentDetails, Calls
<1>4. CASE orders[o].status = "pending"
  <2>1. PICK received \in call[b].at .. now :
          orders' = [orders EXCEPT ![o] = Row("pending", orders[o].product, FALSE, t,
                                              received + LinkTTL, orders[o].expires)]
    BY <1>1, <1>2, <1>4 DEF SavePaymentDetails
  <2>2. received + LinkTTL \in Nat
    BY <1>3, TimesAssumption
  <2>3. PICK r \in Rows : r = Row("pending", orders[o].product, FALSE, t,
                                  received + LinkTTL, orders[o].expires)
    <3>1. /\ "pending" \in Statuses /\ orders[o].product \in Products \cup {NoProduct}
          /\ received + LinkTTL \in Time /\ orders[o].expires \in Time
          /\ orders[o].product # NoProduct /\ t # NoTxn
      BY <1>3, <1>4, <2>2, RowFields, NullAssumption DEF Statuses, Time
    <3> QED BY <3>1, RowType
  <2>4. r.status = "pending" /\ r.expires = orders[o].expires /\ r.txn = t
    BY <2>3 DEF Row
  <2>5. r.expires # NoTime => r.status \in {"paid", "canceled"}
    BY <1>4, <2>4 DEF Fit, RowFits
  <2> QED BY <1>1, <1>2, <1>3, <2>1, <2>3, <2>4, <2>5, RowGoFit, IdleFits, CallTypes
          DEF SavePaymentDetails, Return
<1>5. CASE orders[o].status # "pending"
  BY <1>1, <1>5, ReturnFit DEF SavePaymentDetails, Fit, TypeOK
<1> QED BY <1>4, <1>5

LEMMA RequestFit ==
  ASSUME Fit, NEW b \in Buyers, Request(b) PROVE Fit'
<1>1. CASE Decline(b)
  BY <1>1, ReturnFit DEF Decline, Fit, TypeOK
<1> QED BY <1>1, FindPendingFit, FindOrCreateFit, ClaimCreationFit, CreateTransactionFit,
           RefuseTransactionFit, ClearUncertainFit, SavePaymentDetailsFit DEF Request

LEMMA SetStateFit ==
  ASSUME Fit, NEW t \in Txns, NEW s \in {"confirmed", "canceled", "chargedback"},
         Started(t), SetState(t, s), UNCHANGED <<now, orders, sub, call, alerts>>
  PROVE  Fit'
<1>1. txns' = [txns EXCEPT ![t] = [order |-> txns[t].order, state |-> s,
                                   deadline |-> txns[t].deadline]]
  BY DEF SetState
<1>2. /\ txns' \in [Txns -> [order : Orders \cup {NoOrder}, deadline : Nat,
                   state : {"none", "open", "confirmed", "canceled", "chargedback"}]]
      /\ \A x : Started(x) => Started(x)'
      /\ \A x : Started(x)' => Started(x)
      /\ \A x \in Txns : txns'[x].order = txns[x].order
  BY <1>1 DEF Fit, TypeOK, Started
<1>3. call' \in [Goroutines -> Calls] /\ \A d \in Goroutines : CallFits(call[d])'
  BY <1>2, StayFits DEF Known, Fit, TypeOK
<1>4. (\A x \in Txns : TxnFits(x)') /\ \A p \in Orders : RowFits(p)'
  BY <1>2 DEF Fit, TxnFits, RowFits, Known
<1> QED BY <1>2, <1>3, <1>4 DEF Fit, TypeOK

LEMMA ProviderFit ==
  ASSUME Fit, NEW t \in Txns, Pay(t) \/ Close(t) \/ TakeBack(t) PROVE Fit'
<1>1. Started(t)
  BY DEF Started, Pay, Close, TakeBack, Payable
<1> QED BY <1>1, SetStateFit DEF Pay, Close, TakeBack

LEMMA LookupFit ==
  ASSUME Fit, NEW c \in Goroutines, NEW t \in Txns, Started(t), Lookup(c, t) PROVE Fit'
<1>1. \E k \in Calls : Go(c, k) /\ CallFits(k)'
  <2>1. ASSUME NEW o \in Orders, orders[o].txn = t, Go(c, Holds("check", o, t, orders[o], 0))
        PROVE  \E k \in Calls : Go(c, k) /\ CallFits(k)'
    <3>1. orders[o].status # "none"
      BY <2>1, NullAssumption DEF Fit, RowFits, NoRow, Row
    <3>2. PICK k \in Calls : k = Holds("check", o, t, orders[o], 0)
      BY CallTypes DEF Steps, Fit, TypeOK
    <3>3. CallFits(k)'
      BY <3>1, <3>2 DEF CallFits, Holds, Lookup, Known, Started, Fit, TypeOK
    <3> QED BY <2>1, <3>2, <3>3
  <2>2. CASE Go(c, Holds("payload", NoOrder, t, NoRow, 0))
    <3>1. PICK k \in Calls : k = Holds("payload", NoOrder, t, NoRow, 0)
      BY CallTypes, FreshRows DEF Steps
    <3>2. CallFits(k)'
      BY <3>1 DEF CallFits, Holds, Lookup, Started, Fit, TypeOK
    <3> QED BY <2>2, <3>1, <3>2
  <2> QED BY <2>1, <2>2 DEF Lookup
<1> QED BY <1>1, QuietFit DEF Lookup, Fit, TypeOK

LEMMA PayloadFit ==
  ASSUME Fit, NEW c \in Goroutines, OrderByCallbackPayload(c) PROVE Fit'
<1>1. PICK t \in Txns : t = call[c].txn /\ Started(t)
  BY DEF Fit, CallFits, OrderByCallbackPayload, At, Started
<1>2. PICK o \in Orders : o = txns[t].order /\ Known(o)
  BY <1>1 DEF Fit, TxnFits, Known
<1>3. CASE orders[o].txn = NoTxn
  <2>1. PICK k \in Calls : k = Holds("attach", o, t, orders[o], 0)
    BY CallTypes DEF Steps, Fit, TypeOK
  <2>2. Go(c, k) /\ alerts' = alerts
    BY <1>1, <1>2, <1>3, <2>1 DEF OrderByCallbackPayload
  <2>3. CallFits(k)'
    BY <1>1, <1>2, <2>1 DEF CallFits, Holds, OrderByCallbackPayload, Known, Started, Fit, TypeOK
  <2> QED BY <2>2, <2>3, QuietFit DEF OrderByCallbackPayload, Fit, TypeOK
<1>4. CASE orders[o].txn # NoTxn
  BY <1>1, <1>2, <1>4, ReturnFit DEF OrderByCallbackPayload, Alert, Fit, TypeOK
<1> QED BY <1>3, <1>4

LEMMA AttachFit ==
  ASSUME Fit, NEW c \in Goroutines, AttachProviderPaymentID(c) PROVE Fit'
<1>1. PICK t \in Txns : t = call[c].txn /\ Started(t)
  BY DEF Fit, CallFits, AttachProviderPaymentID, At, Started
<1>2. PICK o \in Orders : o = call[c].order /\ Known(o)
  BY DEF Fit, CallFits, AttachProviderPaymentID, At, Known
<1>3. /\ now' = now /\ now \in Nat /\ orders[o] \in Rows /\ call[c].row \in Rows
      /\ sub' \in [plan : Plans, active : BOOLEAN, expires : Time]
  BY DEF Fit, TypeOK, AttachProviderPaymentID, Calls
<1>4. CASE orders[o].txn = NoTxn
  <2>1. PICK r \in Rows : r = SetTxn(orders[o], t)
    BY <1>3, SetTxnType, NullAssumption
  <2>2. /\ r.status # "none" /\ r.expires = orders[o].expires
        /\ r.txn = t /\ r.status = orders[o].status
    BY <1>2, <2>1 DEF SetTxn, Row, Known
  <2>3. PICK k \in Calls : k = Holds("check", o, t, call[c].row, 0)
    BY <1>3, CallTypes DEF Steps
  <2>4. orders' = [orders EXCEPT ![o] = r] /\ Go(c, k) /\ alerts' = alerts
    BY <1>1, <1>2, <1>4, <2>1, <2>3 DEF AttachProviderPaymentID, Goto
  <2>5. CallFits(k)'
    BY <1>1, <1>3, <2>2, <2>3, <2>4 DEF CallFits, Holds, Known, Started, Fit, TypeOK,
                                        AttachProviderPaymentID
  <2>6. r.expires # NoTime => r.status \in {"paid", "canceled"}
    BY <2>2 DEF Fit, RowFits
  <2> QED BY <1>1, <1>2, <1>3, <2>2, <2>4, <2>5, <2>6, RowGoFit DEF AttachProviderPaymentID
<1>5. CASE orders[o].txn # NoTxn
  BY <1>1, <1>2, <1>5, ReturnFit DEF AttachProviderPaymentID, Alert, Fit, TypeOK
<1> QED BY <1>4, <1>5

LEMMA CheckFit ==
  ASSUME Fit, NEW c \in Goroutines, CheckConfirmation(c) PROVE Fit'
<1>1. PICK t \in Txns : t = call[c].txn /\ Started(t)
  BY DEF Fit, CallFits, CheckConfirmation, At, Started
<1>2. PICK o \in Orders : o = call[c].order /\ Known(o)
  BY DEF Fit, CallFits, CheckConfirmation, At, Known
<1>3. PICK k \in Calls : k = Holds("confirm", o, t, NoRow, 0)
  BY CallTypes, FreshRows DEF Steps
<1>4. CallFits(k)'
  BY <1>1, <1>2, <1>3 DEF CallFits, Holds, CheckConfirmation, Known, Started, Fit, TypeOK
<1>5. CASE Go(c, k) /\ UNCHANGED alerts
  BY <1>4, <1>5, QuietFit DEF CheckConfirmation, Fit, TypeOK
<1>6. CASE Return(c) /\ alerts' \subseteq Txns
  BY <1>6, ReturnFit DEF CheckConfirmation
<1> QED BY <1>1, <1>2, <1>3, <1>5, <1>6 DEF CheckConfirmation, Alert, Fit, TypeOK

LEMMA ExpiryIsLater ==
  ASSUME TypeOK, NEW m \in Products
  PROVE  /\ CalculatePaymentExpiry(m) \in Nat
         /\ CalculatePaymentExpiry(m) > now
         /\ sub.plan = PlanOf[m] /\ sub.expires # NoTime => CalculatePaymentExpiry(m) > sub.expires
BY DurationAssumption DEF TypeOK, CalculatePaymentExpiry, Time

LEMMA ConfirmOrderPaidFit ==
  ASSUME Fit, NEW c \in Goroutines, ConfirmOrderPaidCAS(c) PROVE Fit'
<1>1. PICK o \in Orders : o = call[c].order /\ Known(o)
  BY DEF Fit, CallFits, ConfirmOrderPaidCAS, At, Known
<1>2. now' = now /\ now \in Nat /\ orders[o] \in Rows /\ Return(c)
  BY DEF Fit, TypeOK, ConfirmOrderPaidCAS
<1>3. CASE orders[o].status \in {"pending", "expired"}
  <2>1. PICK m \in Products : m = orders[o].product
    BY <1>2, <1>3, RowFields
  <2>2. PICK e \in Nat : e = CalculatePaymentExpiry(m)
    BY ExpiryIsLater DEF Fit
  <2>3. /\ orders' = [orders EXCEPT ![o] = Row("paid", m, orders[o].uncertain, orders[o].txn,
                                               orders[o].deadline, e)]
        /\ sub' = [plan |-> PlanOf[m], active |-> TRUE, expires |-> e]
    BY <1>1, <1>3, <2>1, <2>2 DEF ConfirmOrderPaidCAS
  <2>4. PICK r \in Rows : r = Row("paid", m, orders[o].uncertain, orders[o].txn,
                                  orders[o].deadline, e)
    <3>1. "paid" \in Statuses /\ m # NoProduct /\ e \in Time /\ e # NoTime
      BY NullAssumption DEF Statuses, Time
    <3> QED BY <1>2, <3>1, RowType, RowFields
  <2>5. r.status = "paid" /\ r.txn = orders[o].txn
    BY <2>4 DEF Row
  <2>6. sub' \in [plan : Plans, active : BOOLEAN, expires : Time]
    BY <2>3, PlansAssumption DEF Time
  <2>7. r.txn # NoTxn => Started(r.txn)
    BY <2>5 DEF Fit, RowFits
  <2> QED BY <1>1, <1>2, <2>3, <2>4, <2>5, <2>6, <2>7, RowGoFit, IdleFits, CallTypes
          DEF ConfirmOrderPaidCAS, Return
<1>4. CASE orders[o].status \notin {"pending", "expired"}
  BY <1>1, <1>4, ReturnFit DEF ConfirmOrderPaidCAS, Fit, TypeOK
<1> QED BY <1>3, <1>4

LEMMA CancelFit ==
  ASSUME Fit, NEW c \in Goroutines, NEW t \in Txns, CancelPaymentByProvider(c, t) PROVE Fit'
<1>1. PICK o \in Orders : /\ orders[o].txn = t
                          /\ CancelOrderCAS(o) \/ CancelPaidOrderAndDowngradeCAS(o)
  BY DEF CancelPaymentByProvider
<1>2. Known(o) /\ orders[o] \in Rows /\ call' = call /\ txns' = txns /\ now' = now /\ now \in Nat
  BY <1>1, NullAssumption DEF Fit, TypeOK, RowFits, NoRow, Row, Known, CancelPaymentByProvider
<1>3. sub' \in [plan : Plans, active : BOOLEAN, expires : Time]
  BY <1>1, PlansAssumption DEF Fit, TypeOK, CancelOrderCAS, CancelPaidOrderAndDowngradeCAS,
                               Downgraded, Time
<1>4. CASE UNCHANGED orders
  <2>1. call' \in [Goroutines -> Calls] /\ \A d \in Goroutines : CallFits(call[d])'
    BY <1>2, <1>4, StayFits DEF Known, Started
  <2> QED BY <1>2, <1>3, <1>4, <2>1
          DEF Fit, TypeOK, CancelPaymentByProvider, TxnFits, RowFits, Known, Started
<1>5. CASE orders' = [orders EXCEPT ![o] = SetStatus(orders[o], "canceled")]
  <2>1. PICK r \in Rows : r = SetStatus(orders[o], "canceled")
    BY <1>2, SetStatusType DEF Known, Statuses
  <2>2. r.status = "canceled" /\ (r.txn # NoTxn => Started(r.txn))
    BY <2>1 DEF SetStatus, Row, Fit, RowFits
  <2>3. /\ orders' \in [Orders -> Rows]
        /\ \A p : Known(p) => Known(p)'
        /\ \A x : Started(x) => Started(x)'
        /\ \A x \in Txns : TxnFits(x)'
        /\ \A p \in Orders : RowFits(p)'
    BY <1>2, <1>5, <2>1, <2>2, RowFit
  <2>4. call' \in [Goroutines -> Calls] /\ \A d \in Goroutines : CallFits(call[d])'
    BY <1>2, <2>3, StayFits
  <2> QED BY <1>2, <1>3, <2>3, <2>4 DEF Fit, TypeOK, CancelPaymentByProvider
<1> QED BY <1>1, <1>4, <1>5 DEF CancelOrderCAS, CancelPaidOrderAndDowngradeCAS

LEMMA ReconcileOrderFit ==
  ASSUME Fit, NEW o \in Orders, ReconcilePendingOrder(o) PROVE Fit'
<1>1. orders[o].txn # NoTxn /\ orders[o].status = "pending"
  BY RowFields DEF Fit, TypeOK, ReconcilePendingOrder, Stale
<1>2. PICK t \in Txns : t = orders[o].txn /\ Started(t)
  BY <1>1 DEF Fit, RowFits, Started
<1>3. PICK s \in {"lookup", "lapse"} : Go(Worker, Holds(s, o, t, NoRow, 0))
  BY <1>2 DEF ReconcilePendingOrder
<1>4. PICK k \in Calls : k = Holds(s, o, t, NoRow, 0)
  BY <1>3, CallTypes, FreshRows DEF Steps
<1>5. CallFits(k)'
  BY <1>1, <1>2, <1>3, <1>4 DEF CallFits, Holds, ReconcilePendingOrder, Known, Started, Fit, TypeOK
<1> QED BY <1>3, <1>4, <1>5, QuietFit DEF ReconcilePendingOrder, Fit, TypeOK

LEMMA ExpirePendingFit == ASSUME Fit, ExpirePendingOrder PROVE Fit'
<1>1. PICK o \in Orders : o = call[Worker].order /\ Known(o)
  BY DEF Fit, CallFits, ExpirePendingOrder, At, Known
<1>2. /\ now' = now /\ orders[o] \in Rows /\ now \in Nat /\ Return(Worker)
      /\ sub' \in [plan : Plans, active : BOOLEAN, expires : Time]
  BY DEF Fit, TypeOK, ExpirePendingOrder
<1>3. CASE orders[o].status = "pending"
  <2>1. PICK r \in Rows : r = SetStatus(orders[o], "expired")
    BY <1>2, <1>3, SetStatusType DEF Statuses
  <2>2. r.status = "expired" /\ r.expires = orders[o].expires /\ r.txn = orders[o].txn
    BY <2>1 DEF SetStatus, Row
  <2>3. orders' = [orders EXCEPT ![o] = r]
    BY <1>1, <1>3, <2>1 DEF ExpirePendingOrder, Expired
  <2>4. /\ r.expires # NoTime => r.status \in {"paid", "canceled"}
        /\ r.txn # NoTxn => Started(r.txn)
    BY <1>3, <2>2 DEF Fit, RowFits
  <2> QED BY <1>1, <1>2, <2>2, <2>3, <2>4, RowGoFit, IdleFits, CallTypes
          DEF ExpirePendingOrder, Return
<1>4. CASE orders[o].status # "pending"
  BY <1>1, <1>4, ReturnFit DEF ExpirePendingOrder, Expired, Fit, TypeOK
<1> QED BY <1>3, <1>4

(* Only the subscription changes, or only time passes.                     *)
LEMMA SubOrClockFit ==
  ASSUME Fit, UNCHANGED <<orders, txns, call, alerts>>, now' \in Nat, now' >= now,
         sub' \in [plan : Plans, active : BOOLEAN, expires : Time]
  PROVE  Fit'
<1>1. call' \in [Goroutines -> Calls] /\ \A d \in Goroutines : CallFits(call[d])'
  BY StayFits DEF Known, Started
<1> QED BY <1>1 DEF Fit, TypeOK, TxnFits, RowFits, Known, Started

LEMMA FitStep == ASSUME Fit, [Next]_vars PROVE Fit'
<1>1. CASE UNCHANGED vars
  BY <1>1, SubOrClockFit DEF vars, Fit, TypeOK
<1>2. ASSUME NEW b \in Buyers, Request(b) \/ \E m \in Products : RequestPayment(b, m)
      PROVE  Fit'
  BY <1>2, RequestFit, RequestPaymentFit
<1>3. ASSUME NEW h \in Hooks, NEW t \in Txns,
             ConfirmPayment(h, t) \/ CancelPaymentByProvider(h, t)
      PROVE  Fit'
  <2>1. CASE ConfirmPayment(h, t)
    BY <2>1, LookupFit DEF ConfirmPayment, SaysConfirmed, Started
  <2> QED BY <1>3, <2>1, CancelFit
<1>4. ASSUME NEW o \in Orders, ReconcilePendingOrder(o) PROVE Fit'
  BY <1>4, ReconcileOrderFit
<1>5. CASE Reconcile
  <2>1. CASE ReconcileConfirmed
    <3>1. call[Worker].txn \in Txns /\ Started(call[Worker].txn)
      BY <2>1 DEF Fit, CallFits, ReconcileConfirmed, At, Started
    <3> QED BY <2>1, <3>1, LookupFit DEF ReconcileConfirmed
  <2> QED BY <1>5, <2>1, ExpirePendingFit DEF Reconcile
<1>6. ASSUME NEW c \in Hooks \cup {Worker}, Handle(c) PROVE Fit'
  BY <1>6, PayloadFit, AttachFit, CheckFit, ConfirmOrderPaidFit DEF Handle
<1>7. ASSUME NEW c \in Goroutines, Fail(c) PROVE Fit'
  BY <1>7, ReturnFit DEF Fail, Fit, TypeOK
<1>8. ASSUME NEW t \in Txns, Pay(t) \/ Close(t) \/ TakeBack(t) PROVE Fit'
  BY <1>8, ProviderFit
<1>9. CASE ExpireSubscription \/ Revoke
  <2>1. sub' \in [plan : Plans, active : BOOLEAN, expires : Time]
    <3>1. sub \in [plan : Plans, active : BOOLEAN, expires : Time]
      BY DEF Fit, TypeOK
    <3>2. CASE ExpireSubscription
      BY <3>1, <3>2, PlansAssumption DEF ExpireSubscription, Downgraded, Time
    <3>3. CASE Revoke
      BY <3>1, <3>3 DEF Revoke
    <3> QED BY <1>9, <3>2, <3>3
  <2>2. UNCHANGED <<now, orders, txns, call, alerts>>
    BY <1>9 DEF ExpireSubscription, Revoke
  <2> QED BY <2>1, <2>2, SubOrClockFit DEF Fit, TypeOK
<1>10. CASE Tick
  BY <1>10, SubOrClockFit DEF Tick, Fit, TypeOK
<1> QED
  BY <1>1, <1>2, <1>3, <1>4, <1>5, <1>6, <1>7, <1>8, <1>9, <1>10 DEF Next

LEMMA FitInit == ASSUME Init PROVE Fit
<1>1. TypeOK
  BY CallTypes, FreshRows, PlansAssumption DEF Init, TypeOK, Time
<1>2. /\ \A c \in Goroutines : call[c] = Idle
      /\ \A o \in Orders : orders[o] = NoRow
      /\ \A t \in Txns : txns[t].state = "none"
  BY DEF Init
<1>3. \A c \in Goroutines : CallFits(call[c])
  BY <1>1, <1>2 DEF CallFits, Idle, Holds, TypeOK
<1>4. \A t \in Txns : TxnFits(t)
  BY <1>2 DEF TxnFits, Started
<1>5. \A o \in Orders : RowFits(o)
  <2>1. NoRow.expires = NoTime /\ NoRow.txn = NoTxn
    BY DEF NoRow, Row
  <2> QED BY <1>2, <2>1 DEF RowFits
<1> QED BY <1>1, <1>3, <1>4, <1>5 DEF Fit

THEOREM FitHolds == Spec => []Fit
<1>1. Init => Fit
  BY FitInit
<1>2. Fit /\ [Next]_vars => Fit'
  BY FitStep
<1> QED BY <1>1, <1>2, PTL DEF Spec

(* Every variable has its type, whatever the numbers of orders, callbacks  *)
(* and dates.                                                              *)
THEOREM TypeCorrect == Spec => []TypeOK
<1>1. Fit => TypeOK
  BY DEF Fit
<1> QED BY <1>1, FitHolds, PTL

--------------------------------------------------------------------------------
(* Every step is a step of OrderLedger, or none.                           *)
SameRow(o) == /\ orders'[o].status = orders[o].status
              /\ orders'[o].expires = orders[o].expires

SameEnd == now' = now /\ sub'.plan = sub.plan /\ sub'.expires = sub.expires

LEMMA SetFields ==
  ASSUME NEW r, NEW x
  PROVE  /\ SetStatus(r, x).status = x /\ SetStatus(r, x).expires = r.expires
         /\ SetStatus(r, x).product = r.product
         /\ SetUncertain(r, x).status = r.status /\ SetUncertain(r, x).expires = r.expires
         /\ SetUncertain(r, x).product = r.product
         /\ SetTxn(r, x).status = r.status /\ SetTxn(r, x).expires = r.expires
         /\ SetTxn(r, x).product = r.product
         /\ NewRow(x).status = "pending" /\ NewRow(x).expires = NoTime
         /\ NewRow(x).product = x
         /\ NoRow.status = "none" /\ NoRow.expires = NoTime
BY DEF SetStatus, SetUncertain, SetTxn, NewRow, NoRow, Row

LEMMA Stutter ==
  ASSUME \A o \in Orders : SameRow(o), SameEnd PROVE UNCHANGED Ledger!vars
BY DEF SameRow, SameEnd, Ledger!vars

LEMMA LapseStep ==
  ASSUME Fit, NEW o \in Orders, orders' = Expired(o), UNCHANGED <<now, sub>>
  PROVE  [Ledger!Next]_(Ledger!vars)
<1>1. CASE orders[o].status = "pending"
  <2>1. /\ \A p \in Orders \ {o} : SameRow(p)
        /\ orders'[o].status = "expired" /\ orders'[o].expires = orders[o].expires
    BY <1>1, SetFields DEF Expired, Fit, TypeOK, SameRow
  <2>2. Ledger!Lapse(o)
    BY <1>1, <2>1 DEF Ledger!Lapse, SameRow
  <2> QED BY <2>2 DEF Ledger!Next
<1>2. CASE orders[o].status # "pending"
  BY <1>2, Stutter DEF Expired, SameRow, SameEnd
<1> QED BY <1>1, <1>2

LEMMA CreateStep ==
  ASSUME Fit, NEW b \in Buyers, FindOrCreatePendingPaymentOrder(b)
  PROVE  [Ledger!Next]_(Ledger!vars)
<1> DEFINE m == call[b].product
           stale == {o \in PendingFor(m) :
                      ~orders[o].uncertain /\ HasPassed(orders[o].deadline, call[b].at)}
<1>1. CASE UNCHANGED orders
  BY <1>1, Stutter DEF FindOrCreatePendingPaymentOrder, SameRow, SameEnd
<1>2. ASSUME NEW n \in Orders, IsNext(n),
             orders' = [o \in Orders |->
                                IF o = n THEN NewRow(m)
                                ELSE IF o \in stale THEN SetStatus(orders[o], "expired")
                                ELSE orders[o]]
      PROVE  Ledger!Next
  <2>1. orders[n].status = "none" /\ orders[n].expires = NoTime
    BY <1>2, OrdersAssumption, SetFields DEF IsNext, Fit, RowFits
  <2>2. \A o \in stale : orders[o].status = "pending" /\ o \in Orders
    BY DEF PendingFor
  <2>3. /\ orders'[n].status = "pending" /\ orders'[n].expires = NoTime
        /\ \A o \in stale : orders'[o].status = "expired"
        /\ \A o \in Orders \ ({n} \cup stale) : SameRow(o)
        /\ \A o \in Orders : orders'[o].expires = orders[o].expires
    <3> HIDE DEF stale
    <3> QED BY <1>2, <2>1, <2>2, SetFields DEF SameRow
  <2>4. UNCHANGED <<now, sub>>
    BY DEF FindOrCreatePendingPaymentOrder
  <2> HIDE DEF stale
  <2>5. PICK old \in SUBSET Orders : old = stale
    BY <2>2
  <2>6. Ledger!Create(n, old)
    BY <2>1, <2>2, <2>3, <2>4, <2>5 DEF Ledger!Create, SameRow
  <2> QED BY <2>6 DEF Ledger!Next
<1> QED BY <1>1, <1>2 DEF FindOrCreatePendingPaymentOrder

LEMMA PayStep ==
  ASSUME Fit, NEW c \in Goroutines, ConfirmOrderPaidCAS(c)
  PROVE  [Ledger!Next]_(Ledger!vars)
<1>1. PICK o \in Orders : o = call[c].order
  BY DEF Fit, CallFits, ConfirmOrderPaidCAS, At, Known
<1>2. CASE orders[o].status \in {"pending", "expired"}
  <2>1. PICK m \in Products : m = orders[o].product
    BY <1>2, RowFields DEF Fit, TypeOK
  <2>2. PICK e \in Nat : e = CalculatePaymentExpiry(m)
    BY ExpiryIsLater DEF Fit
  <2>3. /\ orders' = [orders EXCEPT ![o] = Row("paid", m, orders[o].uncertain, orders[o].txn,
                                               orders[o].deadline, e)]
        /\ sub' = [plan |-> PlanOf[m], active |-> TRUE, expires |-> e]
        /\ now' = now
    BY <1>1, <1>2, <2>1, <2>2 DEF ConfirmOrderPaidCAS
  <2>4. /\ \A p \in Orders \ {o} : SameRow(p)
        /\ orders'[o].status = "paid" /\ orders'[o].expires = e
        /\ sub'.plan = PlanOf[m] /\ sub'.expires = e
    BY <2>3 DEF Fit, TypeOK, SameRow, Row
  <2>5. sub.plan = PlanOf[m] /\ sub.expires # NoTime => e > sub.expires
    BY <2>2, ExpiryIsLater DEF Fit
  <2>6. Ledger!Pay(o)
    BY <1>2, <2>3, <2>4, <2>5 DEF Ledger!Pay, SameRow
  <2> QED BY <2>6 DEF Ledger!Next
<1>3. CASE orders[o].status \notin {"pending", "expired"}
  BY <1>1, <1>3, Stutter DEF ConfirmOrderPaidCAS, SameRow, SameEnd
<1> QED BY <1>2, <1>3

LEMMA CancelStep ==
  ASSUME Fit, NEW c \in Goroutines, NEW t \in Txns, CancelPaymentByProvider(c, t)
  PROVE  [Ledger!Next]_(Ledger!vars)
<1>1. PICK o \in Orders : CancelOrderCAS(o) \/ CancelPaidOrderAndDowngradeCAS(o)
  BY DEF CancelPaymentByProvider
<1>2. now' = now
  BY DEF CancelPaymentByProvider
<1>3. CASE orders' = orders /\ sub' = sub
  BY <1>2, <1>3, Stutter DEF SameRow, SameEnd
<1>4. ASSUME orders' = [orders EXCEPT ![o] = SetStatus(orders[o], "canceled")]
      PROVE  /\ \A p \in Orders \ {o} : SameRow(p)
             /\ orders'[o].status = "canceled" /\ orders'[o].expires = orders[o].expires
  BY <1>4, SetFields DEF Fit, TypeOK, SameRow
<1>5. CASE /\ orders' = [orders EXCEPT ![o] = SetStatus(orders[o], "canceled")]
           /\ orders[o].status = "pending" /\ sub' = sub
  <2>1. Ledger!Drop(o)
    BY <1>2, <1>4, <1>5 DEF Ledger!Drop, SameRow
  <2> QED BY <2>1 DEF Ledger!Next
<1>6. CASE /\ orders' = [orders EXCEPT ![o] = SetStatus(orders[o], "canceled")]
           /\ orders[o].status = "paid"
           /\ sub' = sub \/ (sub' = Downgraded /\ \A p \in Orders : ~Covers(p, o))
  <2>1. CASE sub' = sub
    <3>1. Ledger!Reverse(o)
      BY <1>2, <1>4, <1>6, <2>1 DEF Ledger!Reverse, SameRow
    <3> QED BY <3>1 DEF Ledger!Next
  <2>2. CASE sub' = Downgraded /\ \A p \in Orders : ~Covers(p, o)
    <3>1. \A p \in Orders \ {o} : ~Ledger!Valid(p)
      BY <2>2 DEF Covers, Ledger!Valid
    <3>2. sub'.plan = FreePlan /\ sub'.expires = NoTime
      BY <2>2 DEF Downgraded
    <3>3. Ledger!Reverse(o)
      BY <1>2, <1>4, <1>6, <3>1, <3>2 DEF Ledger!Reverse, SameRow
    <3> QED BY <3>3 DEF Ledger!Next
  <2> QED BY <1>6, <2>1, <2>2
<1> QED BY <1>1, <1>3, <1>5, <1>6 DEF CancelOrderCAS, CancelPaidOrderAndDowngradeCAS

(* A step that changes at most other columns of a row.                     *)
LEMMA ColumnStep ==
  ASSUME Fit, NEW c \in Goroutines,
         \/ ClaimCreation(c) \/ ClearUncertain(c) \/ SavePaymentDetails(c)
         \/ AttachProviderPaymentID(c)
  PROVE  UNCHANGED Ledger!vars
<1> USE SetFields DEF Fit, TypeOK, SameRow, SameEnd
<1>1. CASE ClaimCreation(c)
  <2>1. \A o \in Orders : SameRow(o)
    BY <1>1 DEF ClaimCreation, SetUncertain, Row
  <2> QED BY <1>1, <2>1, Stutter DEF ClaimCreation
<1>2. CASE ClearUncertain(c)
  <2>1. \A o \in Orders : SameRow(o)
    BY <1>2 DEF ClearUncertain, SetUncertain, Row
  <2> QED BY <1>2, <2>1, Stutter DEF ClearUncertain
<1>3. CASE SavePaymentDetails(c)
  <2>1. \A o \in Orders : SameRow(o)
    <3>1. CASE orders[call[c].order].status = "pending"
      <4>1. PICK d : orders' = [orders EXCEPT ![call[c].order] =
                       Row("pending", orders[call[c].order].product, FALSE, call[c].txn,
                           d, orders[call[c].order].expires)]
        BY <1>3, <3>1 DEF SavePaymentDetails
      <4> QED BY <3>1, <4>1 DEF Row
    <3>2. CASE orders[call[c].order].status # "pending"
      BY <1>3, <3>2 DEF SavePaymentDetails
    <3> QED BY <3>1, <3>2
  <2> QED BY <1>3, <2>1, Stutter DEF SavePaymentDetails
<1>4. CASE AttachProviderPaymentID(c)
  BY <1>4, Stutter DEF AttachProviderPaymentID
<1> QED BY <1>1, <1>2, <1>3, <1>4

LEMMA QuietStep ==
  ASSUME UNCHANGED <<now, orders, sub>> PROVE UNCHANGED Ledger!vars
BY Stutter DEF SameRow, SameEnd

LEMMA LedgerStep == ASSUME Fit, [Next]_vars PROVE [Ledger!Next]_(Ledger!vars)
<1>1. CASE UNCHANGED <<now, orders, sub>>
  BY <1>1, QuietStep
<1>2. ASSUME NEW b \in Buyers, Request(b) PROVE [Ledger!Next]_(Ledger!vars)
  <2>1. CASE FindPendingPaymentOrder(b)
    <3>1. call[b].order \in Orders
      BY <2>1 DEF Fit, CallFits, FindPendingPaymentOrder, At, Known
    <3> QED BY <2>1, <3>1, LapseStep DEF FindPendingPaymentOrder
  <2>2. CASE ClaimCreation(b) \/ ClearUncertain(b) \/ SavePaymentDetails(b)
    BY <2>2, ColumnStep
  <2>3. CASE Decline(b) \/ CreateTransaction(b) \/ RefuseTransaction(b)
    BY <2>3, <1>1 DEF Decline, CreateTransaction, RefuseTransaction
  <2> QED BY <1>2, <2>1, <2>2, <2>3, CreateStep DEF Request
<1>3. ASSUME NEW c \in Hooks \cup {Worker}, Handle(c) PROVE [Ledger!Next]_(Ledger!vars)
  <2>1. CASE OrderByCallbackPayload(c) \/ CheckConfirmation(c)
    BY <2>1, <1>1 DEF OrderByCallbackPayload, CheckConfirmation
  <2> QED BY <1>3, <2>1, ColumnStep, PayStep DEF Handle
<1>4. ASSUME NEW h \in Hooks, NEW t \in Txns,
             ConfirmPayment(h, t) \/ CancelPaymentByProvider(h, t)
      PROVE  [Ledger!Next]_(Ledger!vars)
  BY <1>1, <1>4, CancelStep DEF ConfirmPayment, Lookup
<1>5. CASE Reconcile
  <2>1. CASE ExpirePendingOrder
    <3>1. call[Worker].order \in Orders
      BY <2>1 DEF Fit, CallFits, ExpirePendingOrder, At, Known
    <3> QED BY <2>1, <3>1, LapseStep DEF ExpirePendingOrder
  <2> QED BY <1>1, <1>5, <2>1 DEF Reconcile, ReconcileConfirmed, Lookup
<1>6. CASE ExpireSubscription
  <2>1. Ledger!RunOut
    BY <1>6 DEF ExpireSubscription, Downgraded, Ledger!RunOut
  <2> QED BY <2>1 DEF Ledger!Next
<1>7. CASE Revoke
  BY <1>7, Stutter DEF Revoke, SameRow, SameEnd
<1>8. CASE Tick
  <2>1. Ledger!Pass
    BY <1>8 DEF Tick, Ledger!Pass
  <2> QED BY <2>1 DEF Ledger!Next
<1>9. ASSUME NEW b \in Buyers, NEW m \in Products, RequestPayment(b, m)
      PROVE  UNCHANGED <<now, orders, sub>>
  BY <1>9 DEF RequestPayment
<1>10. ASSUME NEW o \in Orders, ReconcilePendingOrder(o) PROVE UNCHANGED <<now, orders, sub>>
  BY <1>10 DEF ReconcilePendingOrder
<1>11. ASSUME NEW c \in Goroutines, Fail(c) PROVE UNCHANGED <<now, orders, sub>>
  BY <1>11 DEF Fail
<1>12. ASSUME NEW t \in Txns, Pay(t) \/ Close(t) \/ TakeBack(t)
       PROVE  UNCHANGED <<now, orders, sub>>
  BY <1>12 DEF Pay, Close, TakeBack
<1>13. CASE UNCHANGED vars
  BY <1>1, <1>13 DEF vars
<1> QED
  BY <1>1, <1>2, <1>3, <1>4, <1>5, <1>6, <1>7, <1>8, <1>9, <1>10, <1>11, <1>12, <1>13 DEF Next

(* The order service implements the ledger: each order is paid at most     *)
(* once and only while it is pending or expired, a payment for the current *)
(* plan never shortens it, and a chargeback or an expiry pass ends the     *)
(* plan only when nothing else pays for it.                                *)
THEOREM LedgerImplemented == Spec => ImplementsLedger
<1>1. Init => Ledger!Init
  BY SetFields DEF Init, Ledger!Init
<1>2. Fit /\ [Next]_vars => [Ledger!Next]_(Ledger!vars)
  BY LedgerStep
<1>3. Spec => Ledger!Spec
  BY <1>1, <1>2, FitHolds, PTL DEF Spec, Ledger!Spec
<1> QED BY <1>3 DEF ImplementsLedger

--------------------------------------------------------------------------------
(* Who has paid is served, and no day is sold twice.                       *)
SameDeal(o) == /\ orders'[o].expires = orders[o].expires
               /\ orders[o].expires # NoTime => orders'[o].product = orders[o].product
               /\ orders'[o].status = "paid" => orders[o].status = "paid"

Entitled == PaidIsServed /\ NoDaySoldTwice

LEMMA DealsKept ==
  ASSUME Fit, Entitled, \A o \in Orders : SameDeal(o), now' \in Nat, now' >= now,
         sub'.plan = sub.plan, sub'.expires = sub.expires
  PROVE  Entitled'
<1>1. \A o \in Orders : Paid(o)' => /\ Paid(o) /\ orders[o].expires \in Nat
                                    /\ orders'[o].expires = orders[o].expires
                                    /\ orders'[o].product = orders[o].product
  BY RowFields DEF Paid, SameDeal, Fit, TypeOK, Time
<1>2. OnePlan' => OnePlan
  BY DEF OnePlan, SameDeal
<1>3. PaidIsServed'
  <2>1. now \in Nat /\ now' \in Nat
    BY DEF Fit, TypeOK
  <2>2. ASSUME OnePlan, NEW o \in Orders, Paid(o)', orders'[o].expires > now'
        PROVE  /\ sub'.plan = PlanOf[orders'[o].product]
               /\ sub'.expires # NoTime /\ sub'.expires >= orders'[o].expires
    <3>1. Paid(o) /\ orders[o].expires > now
      BY <1>1, <2>1, <2>2
    <3> QED BY <1>1, <2>2, <3>1 DEF Entitled, PaidIsServed
  <2> QED BY <1>2, <2>2 DEF PaidIsServed
<1>4. NoDaySoldTwice'
  BY <1>1, <1>2 DEF Entitled, NoDaySoldTwice, Starts
<1> QED BY <1>3, <1>4 DEF Entitled

LEMMA SameDeals ==
  ASSUME Fit, NEW o \in Orders,
         orders' = orders \/ orders' = [orders EXCEPT ![o] = SetStatus(orders[o], "canceled")]
                          \/ orders' = Expired(o)
  PROVE  \A p \in Orders : SameDeal(p)
BY SetFields DEF Fit, TypeOK, SameDeal, Expired

(* A payment starts where the running period ends, or now.                 *)
LEMMA PaymentEntitles ==
  ASSUME Fit, Entitled, NEW c \in Goroutines, ConfirmOrderPaidCAS(c) PROVE Entitled'
<1>1. PICK o \in Orders : o = call[c].order
  BY DEF Fit, CallFits, ConfirmOrderPaidCAS, At, Known
<1>2. CASE orders[o].status \notin {"pending", "expired"}
  BY <1>1, <1>2, DealsKept DEF ConfirmOrderPaidCAS, SameDeal, Fit, TypeOK
<1>3. CASE orders[o].status \in {"pending", "expired"}
  <2>1. PICK m \in Products : m = orders[o].product
    BY <1>3, RowFields DEF Fit, TypeOK
  <2>2. PICK e \in Nat : e = CalculatePaymentExpiry(m)
    BY ExpiryIsLater DEF Fit
  <2>3. /\ orders' = [orders EXCEPT ![o] = Row("paid", m, orders[o].uncertain, orders[o].txn,
                                               orders[o].deadline, e)]
        /\ sub' = [plan |-> PlanOf[m], active |-> TRUE, expires |-> e]
        /\ now' = now
    BY <1>1, <1>3, <2>1, <2>2 DEF ConfirmOrderPaidCAS
  <2>4. /\ \A p \in Orders \ {o} : orders'[p] = orders[p]
        /\ orders'[o].status = "paid" /\ orders'[o].expires = e /\ orders'[o].product = m
        /\ sub'.plan = PlanOf[m] /\ sub'.expires = e
    BY <2>3 DEF Fit, TypeOK, Row
  <2>5. orders[o].expires = NoTime
    BY <1>3 DEF Fit, RowFits
  <2>6. OnePlan' => OnePlan
    BY <2>4, <2>5 DEF OnePlan
  <2>7. \A p \in Orders : Paid(p) => orders[p].expires \in Nat
    BY RowFields DEF Paid, Fit, TypeOK, Time
  <2>8. now \in Nat /\ sub.expires \in Nat \cup {NoTime} /\ e > now /\ e # NoTime
    BY <2>2, ExpiryIsLater, NullAssumption DEF Fit, TypeOK, Time
  <2>9. ASSUME OnePlan', NEW p \in Orders \ {o}, Paid(p), orders[p].expires > now
        PROVE  /\ sub.plan = PlanOf[m] /\ PlanOf[orders[p].product] = PlanOf[m]
               /\ sub.expires \in Nat /\ sub.expires >= orders[p].expires
    <3>1. PlanOf[orders[p].product] = PlanOf[m]
      <4>1. orders[p].expires # NoTime
        BY <2>7, <2>9, NullAssumption
      <4> QED BY <2>4, <2>8, <2>9, <4>1 DEF OnePlan
    <3> QED BY <2>6, <2>8, <2>9, <3>1 DEF Entitled, PaidIsServed
  <2>10. Duration[m] \in Nat /\ Duration[m] > 0
    BY DurationAssumption
  <2>11. ASSUME OnePlan', NEW p \in Orders \ {o}, Paid(p)
         PROVE  orders[p].expires <= e - Duration[m]
    <3>1. CASE orders[p].expires > now
      <4>1. /\ sub.plan = PlanOf[m] /\ sub.expires \in Nat
            /\ sub.expires >= orders[p].expires
        BY <2>9, <2>11, <3>1
      <4>2. sub.expires > now /\ sub.expires # NoTime
        BY <2>7, <2>8, <2>11, <3>1, <4>1, NullAssumption
      <4>3. e = sub.expires + Duration[m]
        BY <2>2, <4>1, <4>2 DEF CalculatePaymentExpiry
      <4> QED BY <2>7, <2>10, <2>11, <4>1, <4>3
    <3>2. CASE orders[p].expires <= now
      <4>1. e >= now + Duration[m]
        BY <2>2, <2>8, <2>10 DEF CalculatePaymentExpiry
      <4> QED BY <2>7, <2>8, <2>10, <2>11, <3>2, <4>1
    <3> QED BY <2>7, <2>8, <2>11, <3>1, <3>2
  <2>12. PaidIsServed'
    <3>1. ASSUME OnePlan', NEW p \in Orders, Paid(p)', orders'[p].expires > now'
          PROVE  /\ sub'.plan = PlanOf[orders'[p].product]
                 /\ sub'.expires # NoTime /\ sub'.expires >= orders'[p].expires
      <4>1. CASE p = o
        BY <2>4, <2>8, <4>1
      <4>2. CASE p # o
        <5>1. Paid(p) /\ orders[p].expires > now
          BY <2>3, <2>4, <3>1, <4>2 DEF Paid
        <5>2. PlanOf[orders[p].product] = PlanOf[m]
          BY <2>9, <3>1, <4>2, <5>1
        <5>3. e >= orders[p].expires
          BY <2>7, <2>10, <2>11, <3>1, <4>2, <5>1
        <5> QED BY <2>4, <2>8, <4>2, <5>2, <5>3
      <4> QED BY <4>1, <4>2
    <3> QED BY <3>1 DEF PaidIsServed
  <2>13. NoDaySoldTwice'
    <3>1. ASSUME OnePlan', NEW p \in Orders, NEW q \in Orders, Paid(p)', Paid(q)', p # q
          PROVE  orders'[p].expires <= Starts(q)' \/ orders'[q].expires <= Starts(p)'
      <4>1. CASE p # o /\ q # o
        BY <2>4, <2>6, <3>1, <4>1 DEF Entitled, NoDaySoldTwice, Starts, Paid
      <4>2. CASE p = o
        BY <2>4, <2>11, <3>1, <4>2 DEF Starts, Paid
      <4>3. CASE q = o
        BY <2>4, <2>11, <3>1, <4>3 DEF Starts, Paid
      <4> QED BY <4>1, <4>2, <4>3
    <3> QED BY <3>1 DEF NoDaySoldTwice
  <2> QED BY <2>12, <2>13 DEF Entitled
<1> QED BY <1>2, <1>3

(* The subscription falls to the free plan only when nothing paid runs.    *)
LEMMA DowngradeEntitles ==
  ASSUME Fit, Entitled, now' = now, \A o \in Orders : SameDeal(o),
         OnePlan => \A o \in Orders : ~(Paid(o)' /\ orders[o].expires > now)
  PROVE  Entitled'
<1>1. OnePlan' => OnePlan
  BY DEF OnePlan, SameDeal
<1>2. PaidIsServed'
  BY <1>1 DEF PaidIsServed, SameDeal
<1>3. \A o \in Orders : Paid(o)' => /\ Paid(o) /\ orders[o].expires # NoTime
                                    /\ orders'[o].expires = orders[o].expires
                                    /\ orders'[o].product = orders[o].product
  BY RowFields DEF Paid, SameDeal, Fit, TypeOK
<1>4. NoDaySoldTwice'
  BY <1>1, <1>3 DEF Entitled, NoDaySoldTwice, Starts
<1> QED BY <1>2, <1>4 DEF Entitled

LEMMA CancelEntitles ==
  ASSUME Fit, Entitled, NEW c \in Goroutines, NEW t \in Txns, CancelPaymentByProvider(c, t)
  PROVE  Entitled'
<1>1. PICK o \in Orders : CancelOrderCAS(o) \/ CancelPaidOrderAndDowngradeCAS(o)
  BY DEF CancelPaymentByProvider
<1>2. \A p \in Orders : SameDeal(p)
  BY <1>1, SameDeals DEF CancelOrderCAS, CancelPaidOrderAndDowngradeCAS
<1>3. now' = now
  BY DEF CancelPaymentByProvider
<1>4. CASE sub' = sub
  BY <1>2, <1>3, <1>4, DealsKept DEF Fit, TypeOK
<1>5. CASE sub' # sub
  <2>1. /\ orders' = [orders EXCEPT ![o] = SetStatus(orders[o], "canceled")]
        /\ \A p \in Orders : ~Covers(p, o)
    BY <1>1, <1>5 DEF CancelOrderCAS, CancelPaidOrderAndDowngradeCAS
  <2>2. \A p \in Orders : ~(Paid(p)' /\ orders[p].expires > now)
    BY <2>1, SetFields DEF Covers, Paid, Fit, TypeOK
  <2> QED BY <1>2, <1>3, <2>2, DowngradeEntitles
<1> QED BY <1>4, <1>5

LEMMA ExpiryEntitles ==
  ASSUME Fit, Entitled, ExpireSubscription PROVE Entitled'
<1>1. (\A o \in Orders : SameDeal(o)) /\ now' = now /\ orders' = orders
  BY DEF ExpireSubscription, SameDeal
<1>2. ASSUME OnePlan, NEW o \in Orders, Paid(o)', orders[o].expires > now PROVE FALSE
  <2>1. Paid(o) /\ orders[o].expires \in Nat /\ now \in Nat /\ sub.expires \in Nat
    BY <1>1, <1>2, RowFields DEF Paid, Fit, TypeOK, Time, ExpireSubscription
  <2>2. sub.expires >= orders[o].expires /\ sub.expires <= now
    BY <1>2, <2>1 DEF Entitled, PaidIsServed, ExpireSubscription
  <2> QED BY <1>2, <2>1, <2>2
<1> QED BY <1>1, <1>2, DowngradeEntitles

LEMMA DealStep ==
  ASSUME Fit, NEW c \in Goroutines,
         \/ Request(c)
         \/ AttachProviderPaymentID(c) \/ OrderByCallbackPayload(c) \/ CheckConfirmation(c)
  PROVE  (\A o \in Orders : SameDeal(o)) /\ UNCHANGED <<now, sub>>
<1> USE DEF Fit, TypeOK
<1>1. CASE FindPendingPaymentOrder(c)
  <2>1. call[c].order \in Orders
    BY <1>1 DEF CallFits, FindPendingPaymentOrder, At, Known
  <2> QED BY <1>1, <2>1, SameDeals DEF FindPendingPaymentOrder
<1>2. CASE FindOrCreatePendingPaymentOrder(c)
  <2> DEFINE m == call[c].product
             stale == {o \in PendingFor(m) :
                        ~orders[o].uncertain /\ HasPassed(orders[o].deadline, call[c].at)}
  <2>1. CASE UNCHANGED orders
    BY <1>2, <2>1 DEF FindOrCreatePendingPaymentOrder, SameDeal
  <2>2. ASSUME NEW n \in Orders, IsNext(n),
               orders' = [o \in Orders |->
                                  IF o = n THEN NewRow(m)
                                  ELSE IF o \in stale THEN SetStatus(orders[o], "expired")
                                  ELSE orders[o]]
        PROVE  \A o \in Orders : SameDeal(o)
    <3>1. orders[n].expires = NoTime
      BY <2>2, OrdersAssumption, SetFields DEF IsNext, RowFits
    <3> HIDE DEF m, stale
    <3> SUFFICES ASSUME NEW o \in Orders PROVE SameDeal(o)
      OBVIOUS
    <3>2. CASE o = n
      BY <2>2, <3>1, <3>2, SetFields DEF SameDeal
    <3>3. CASE o # n
      BY <2>2, <3>3, SetFields DEF SameDeal
    <3> QED BY <3>2, <3>3
  <2> QED BY <1>2, <2>1, <2>2 DEF FindOrCreatePendingPaymentOrder
<1>3. CASE ClaimCreation(c)
  BY <1>3 DEF ClaimCreation, SetUncertain, Row, SameDeal
<1>4. CASE ClearUncertain(c)
  BY <1>4 DEF ClearUncertain, SetUncertain, Row, SameDeal
<1>5. CASE SavePaymentDetails(c)
  <2>1. CASE orders[call[c].order].status = "pending"
    <3>1. PICK d : orders' = [orders EXCEPT ![call[c].order] =
                     Row("pending", orders[call[c].order].product, FALSE, call[c].txn,
                         d, orders[call[c].order].expires)]
      BY <1>5, <2>1 DEF SavePaymentDetails
    <3> QED BY <1>5, <2>1, <3>1 DEF Row, SameDeal, SavePaymentDetails
  <2>2. CASE orders[call[c].order].status # "pending"
    BY <1>5, <2>2 DEF SavePaymentDetails, SameDeal
  <2> QED BY <2>1, <2>2
<1>6. CASE AttachProviderPaymentID(c)
  BY <1>6 DEF AttachProviderPaymentID, SetTxn, Row, SameDeal
<1>7. CASE UNCHANGED <<now, orders, sub>>
  BY <1>7 DEF SameDeal
<1> QED BY <1>1, <1>2, <1>3, <1>4, <1>5, <1>6, <1>7
        DEF Request, Decline, CreateTransaction, RefuseTransaction,
            OrderByCallbackPayload, CheckConfirmation

LEMMA EntitledStep == ASSUME Fit, Entitled, [Next]_vars PROVE Entitled'
<1>1. CASE UNCHANGED <<orders, sub>> /\ now' \in Nat /\ now' >= now
  BY <1>1, DealsKept DEF SameDeal
<1>2. CASE UNCHANGED <<now, orders, sub>>
  BY <1>1, <1>2 DEF Fit, TypeOK
<1>3. ASSUME NEW b \in Buyers, Request(b) PROVE Entitled'
  BY <1>3, DealStep, DealsKept DEF Fit, TypeOK
<1>4. ASSUME NEW c \in Hooks \cup {Worker}, Handle(c) PROVE Entitled'
  BY <1>4, DealStep, DealsKept, PaymentEntitles DEF Handle, Fit, TypeOK
<1>5. ASSUME NEW h \in Hooks, NEW t \in Txns,
             ConfirmPayment(h, t) \/ CancelPaymentByProvider(h, t)
      PROVE  Entitled'
  BY <1>2, <1>5, CancelEntitles DEF ConfirmPayment, Lookup
<1>6. CASE Reconcile
  <2>1. CASE ExpirePendingOrder
    <3>1. call[Worker].order \in Orders
      BY <2>1 DEF Fit, CallFits, ExpirePendingOrder, At, Known
    <3>2. \A o \in Orders : SameDeal(o)
      BY <2>1, <3>1, SameDeals DEF ExpirePendingOrder
    <3> QED BY <2>1, <3>2, DealsKept DEF ExpirePendingOrder, Fit, TypeOK
  <2> QED BY <1>2, <1>6, <2>1 DEF Reconcile, ReconcileConfirmed, Lookup
<1>7. CASE Revoke
  BY <1>7, DealsKept DEF Revoke, SameDeal, Fit, TypeOK
<1>8. CASE Tick
  BY <1>1, <1>8 DEF Tick, Fit, TypeOK
<1>9. ASSUME NEW b \in Buyers, NEW m \in Products, RequestPayment(b, m)
      PROVE  UNCHANGED <<now, orders, sub>>
  BY <1>9 DEF RequestPayment
<1>10. ASSUME NEW o \in Orders, ReconcilePendingOrder(o) PROVE UNCHANGED <<now, orders, sub>>
  BY <1>10 DEF ReconcilePendingOrder
<1>11. ASSUME NEW c \in Goroutines, Fail(c) PROVE UNCHANGED <<now, orders, sub>>
  BY <1>11 DEF Fail
<1>12. ASSUME NEW t \in Txns, Pay(t) \/ Close(t) \/ TakeBack(t)
       PROVE  UNCHANGED <<now, orders, sub>>
  BY <1>12 DEF Pay, Close, TakeBack
<1>13. CASE UNCHANGED vars
  BY <1>2, <1>13 DEF vars
<1> QED
  BY <1>2, <1>3, <1>4, <1>5, <1>6, <1>7, <1>8, <1>9, <1>10, <1>11, <1>12, <1>13,
     ExpiryEntitles DEF Next

LEMMA EntitledHolds == Spec => []Entitled
<1>1. Init => Entitled
  BY SetFields DEF Init, Entitled, PaidIsServed, NoDaySoldTwice, Paid
<1>2. Fit /\ Entitled /\ [Next]_vars => Entitled'
  BY EntitledStep
<1> QED BY <1>1, <1>2, FitHolds, PTL DEF Spec

(* Who has paid for the plan is on it for as long as the payment bought,   *)
(* whatever ran at the same time.                                          *)
THEOREM PaidServed == Spec => []PaidIsServed
<1>1. Entitled => PaidIsServed
  BY DEF Entitled
<1> QED BY <1>1, EntitledHolds, PTL

(* The periods of two paid orders never overlap.                           *)
THEOREM DaysSoldOnce == Spec => []NoDaySoldTwice
<1>1. Entitled => NoDaySoldTwice
  BY DEF Entitled
<1> QED BY <1>1, EntitledHolds, PTL

--------------------------------------------------------------------------------
(* The second layer: one transaction per order.                            *)
SameMark(o) == /\ orders'[o].uncertain <=> orders[o].uncertain
               /\ orders'[o].txn = orders[o].txn

SameTxn(t) == /\ txns'[t].order = txns[t].order
              /\ Started(t)' <=> Started(t)
              /\ SaysConfirmed(t) => SaysConfirmed(t)'

OffTheWay(c) == call'[c] = call[c] \/ (~Asking(c)' /\ HandlingFits(c)')

LEMMA MarksKept ==
  ASSUME Fit, Single, \A o \in Orders : SameMark(o), \A t \in Txns : SameTxn(t),
         \A c \in Goroutines : OffTheWay(c)
  PROVE  Single'
<1>1. OneTxn'
  BY DEF Single, OneTxn, SameTxn
<1>2. ASSUME NEW c \in Goroutines PROVE HandlingFits(c)'
  <2>1. CASE call'[c] = call[c]
    <3>1. HandlingFits(c) /\ CallFits(call[c])
      BY DEF Single, Fit
    <3> QED BY <2>1, <3>1 DEF HandlingFits, CallFits, SameMark, SameTxn, Known, Started
  <2> QED BY <2>1 DEF OffTheWay
<1>3. ASSUME NEW c \in Goroutines PROVE AskingFits(c)'
  <2>1. CASE Asking(c)'
    <3>1. call'[c] = call[c] /\ Asking(c)
      BY <2>1 DEF Asking, OffTheWay
    <3>2. \A d \in Goroutines : Asking(d)' => Asking(d) /\ call'[d] = call[d]
      BY DEF Asking, OffTheWay
    <3>3. AskingFits(c) /\ Known(call[c].order) /\ (At(c, "save") => Started(call[c].txn))
      BY <3>1 DEF Single, Fit, CallFits, Asking, At
    <3> QED BY <3>1, <3>2, <3>3 DEF AskingFits, SameMark, SameTxn, Known, At, Started
  <2> QED BY <2>1 DEF AskingFits
<1>4. \A t \in Txns : TxnKnown(t)'
  BY DEF Single, TxnKnown, SameTxn, SameMark, Fit, TxnFits, Known
<1>5. \A o \in Orders : TxnOwned(o)'
  BY DEF Single, TxnOwned, SameTxn, SameMark, Fit, RowFits, Started
<1> QED BY <1>1, <1>2, <1>3, <1>4, <1>5 DEF Single

(* A goroutine that is not on its way to the provider goes on.             *)
LEMMA GoSingle ==
  ASSUME Fit, Single, NEW c \in Goroutines, NEW k, Go(c, k),
         k.step \notin {"ask", "clear", "save"}, HandlingFits(c)',
         \A o \in Orders : SameMark(o), UNCHANGED txns
  PROVE  Single'
<1>1. \A t \in Txns : SameTxn(t)
  BY DEF SameTxn, Started, SaysConfirmed
<1>2. \A d \in Goroutines : OffTheWay(d)
  BY DEF Go, Asking, OffTheWay, Fit, TypeOK
<1> QED BY <1>1, <1>2, MarksKept

LEMMA ReturnSingle ==
  ASSUME Fit, Single, NEW c \in Goroutines, Return(c),
         \A o \in Orders : SameMark(o), UNCHANGED txns
  PROVE  Single'
<1>1. Idle.step = "idle"
  BY DEF Idle, Holds
<1>2. HandlingFits(c)'
  BY <1>1 DEF HandlingFits, Return, Go, Fit, TypeOK
<1> QED BY <1>1, <1>2, GoSingle DEF Return

LEMMA SetMarks ==
  ASSUME NEW r, NEW x
  PROVE  /\ (SetStatus(r, x).uncertain <=> r.uncertain) /\ SetStatus(r, x).txn = r.txn
         /\ ~NewRow(x).uncertain /\ NewRow(x).txn = NoTxn
         /\ ~NoRow.uncertain /\ NoRow.txn = NoTxn
BY DEF SetStatus, NewRow, NoRow, Row

LEMMA MarksOfStatus ==
  ASSUME Fit, NEW o \in Orders,
         orders' = orders \/ orders' = [orders EXCEPT ![o] = SetStatus(orders[o], "canceled")]
                          \/ orders' = Expired(o)
  PROVE  \A p \in Orders : SameMark(p)
BY SetMarks DEF Fit, TypeOK, SameMark, Expired

LEMMA GoOnSingle ==
  ASSUME Fit, Single, NEW c \in Goroutines, NEW o, NEW r, GoOn(c, o, r),
         \A p \in Orders : SameMark(p), UNCHANGED txns
  PROVE  Single'
<1>1. PICK k : Go(c, k) /\ k.step \in {"idle", "claim"}
  BY DEF GoOn, Idle, Holds
<1>2. HandlingFits(c)'
  BY <1>1 DEF HandlingFits, Go, Fit, TypeOK
<1> QED BY <1>1, <1>2, GoSingle

LEMMA CreateOrderSingle ==
  ASSUME Fit, Single, NEW b \in Buyers, FindOrCreatePendingPaymentOrder(b) PROVE Single'
<1> DEFINE m == call[b].product
           stale == {o \in PendingFor(m) :
                      ~orders[o].uncertain /\ HasPassed(orders[o].deadline, call[b].at)}
<1>1. \E o, r : GoOn(b, o, r)
  BY DEF FindOrCreatePendingPaymentOrder
<1>2. txns' = txns
  BY DEF FindOrCreatePendingPaymentOrder
<1>3. CASE UNCHANGED orders
  BY <1>1, <1>2, <1>3, GoOnSingle DEF SameMark
<1>4. ASSUME NEW n \in Orders, IsNext(n),
             orders' = [o \in Orders |->
                                IF o = n THEN NewRow(m)
                                ELSE IF o \in stale THEN SetStatus(orders[o], "expired")
                                ELSE orders[o]]
      PROVE  \A o \in Orders : SameMark(o)
  <2>1. ~orders[n].uncertain /\ orders[n].txn = NoTxn
    BY <1>4, OrdersAssumption, SetMarks DEF IsNext, Fit, RowFits
  <2> HIDE DEF m, stale
  <2> SUFFICES ASSUME NEW o \in Orders PROVE SameMark(o)
    OBVIOUS
  <2>2. CASE o = n
    BY <1>4, <2>1, <2>2, SetMarks DEF SameMark
  <2>3. CASE o # n
    BY <1>4, <2>3, SetMarks DEF SameMark
  <2> QED BY <2>2, <2>3
<1> QED BY <1>1, <1>2, <1>3, <1>4, GoOnSingle DEF FindOrCreatePendingPaymentOrder

(* The claim: nobody else is on the way, and there is no transaction yet.  *)
LEMMA ClaimSingle ==
  ASSUME Fit, Single, NEW b \in Buyers, ClaimCreation(b) PROVE Single'
<1>1. PICK o \in Orders : o = call[b].order /\ Known(o)
  BY DEF Fit, CallFits, ClaimCreation, At, Known
<1>2. CASE ~Claimable(orders[o])
  BY <1>1, <1>2, ReturnSingle DEF ClaimCreation, SameMark
<1>3. CASE Claimable(orders[o])
  <2>1. /\ orders' = [orders EXCEPT ![o] = SetUncertain(orders[o], TRUE)]
        /\ call' = [call EXCEPT ![b] = Holds("ask", o, call[b].txn, call[b].row, 0)]
        /\ txns' = txns
    BY <1>1, <1>3 DEF ClaimCreation, Goto, Go
  <2>2. /\ orders'[o].uncertain
        /\ \A p \in Orders : orders'[p].txn = orders[p].txn
        /\ \A p \in Orders \ {o} : orders'[p] = orders[p]
    BY <2>1 DEF SetUncertain, Row, Fit, TypeOK
  <2>3. /\ call'[b].step = "ask" /\ call'[b].order = o
        /\ \A d \in Goroutines \ {b} : call'[d] = call[d]
    BY <2>1 DEF Holds, Fit, TypeOK
  <2>4. /\ \A t \in Txns : Started(t) => txns[t].order # o
        /\ \A d \in Goroutines : Asking(d) => call[d].order # o
    <3>1. \A t \in Txns : Started(t) => txns[t].order # o
      BY <1>3, NullAssumption DEF Claimable, Single, TxnKnown
    <3>2. \A d \in Goroutines : Asking(d) => call[d].order # o
      BY <1>3 DEF Claimable, Single, AskingFits
    <3> QED BY <3>1, <3>2
  <2>5. \A t \in Txns : Started(t)' <=> Started(t)
    BY <2>1 DEF Started
  <2>6. OneTxn'
    BY <2>1, <2>5 DEF Single, OneTxn
  <2>7. ASSUME NEW c \in Goroutines PROVE HandlingFits(c)'
    <3>1. HandlingFits(c) /\ CallFits(call[c])
      BY DEF Single, Fit
    <3>2. CASE c = b
      BY <2>3, <3>2 DEF HandlingFits
    <3>3. CASE c # b
      <4>1. call'[c] = call[c] /\ txns' = txns
        BY <2>1, <2>3, <3>3
      <4>2. call[c].step \in {"check", "confirm"} => call[c].order \in Orders
        BY <3>1 DEF CallFits, Known
      <4> QED BY <2>2, <3>1, <4>1, <4>2 DEF HandlingFits, SaysConfirmed
    <3> QED BY <3>2, <3>3
  <2>8. ASSUME NEW c \in Goroutines PROVE AskingFits(c)'
    <3>1. CASE c = b
      <4>1. call'[c].order = o /\ call'[c].step = "ask"
        BY <2>3, <3>1
      <4>2. \A d \in Goroutines : Asking(d)' /\ call'[d].order = o => d = c
        <5> SUFFICES ASSUME NEW d \in Goroutines, Asking(d)', call'[d].order = o, d # b
                     PROVE  FALSE
          BY <3>1
        <5>1. call'[d] = call[d]
          BY <2>3
        <5> QED BY <2>4, <5>1 DEF Asking
      <4>3. \A t \in Txns : ~(Started(t)' /\ txns'[t].order = o)
        BY <2>1, <2>4, <2>5
      <4>4. ~At(c, "save")'
        BY <4>1 DEF At
      <4>5. orders'[o].uncertain
        BY <2>2
      <4> QED BY <4>1, <4>2, <4>3, <4>4, <4>5 DEF AskingFits
    <3>2. CASE c # b
      <4>1. Asking(c)' => Asking(c) /\ call[c].order # o /\ Known(call[c].order)
        BY <2>3, <2>4, <3>2 DEF Asking, Fit, CallFits
      <4>2. SUFFICES ASSUME Asking(c)' PROVE AskingFits(c)'
        BY DEF AskingFits
      <4>3. call'[c] = call[c] /\ call[c].order \in Orders \ {o}
        BY <2>3, <3>2, <4>1, <4>2 DEF Known
      <4>4. AskingFits(c)
        BY DEF Single
      <4>5. orders'[call[c].order].uncertain
        BY <2>2, <4>1, <4>2, <4>3, <4>4 DEF AskingFits
      <4>6. \A d \in Goroutines : Asking(d)' /\ call'[d].order = call[c].order => d = c
        BY <2>3, <4>1, <4>2, <4>3, <4>4 DEF AskingFits, Asking
      <4>7. \A t \in Txns : Started(t)' /\ txns'[t].order = call[c].order
                               => At(c, "save") /\ call[c].txn = t
        BY <2>1, <2>5, <4>1, <4>2, <4>4 DEF AskingFits
      <4>8. At(c, "save") => txns'[call[c].txn].order = call[c].order
        BY <2>1, <4>1, <4>2, <4>4 DEF AskingFits
      <4> QED BY <4>3, <4>5, <4>6, <4>7, <4>8 DEF AskingFits, At
    <3> QED BY <3>1, <3>2
  <2>9. ASSUME NEW t \in Txns PROVE TxnKnown(t)'
    <3>1. CASE Started(t)
      <4>1. txns[t].order \in Orders \ {o} /\ TxnKnown(t)
        BY <2>4, <3>1 DEF Single, Fit, TxnFits, Known
      <4> QED BY <2>1, <2>2, <3>1, <4>1 DEF TxnKnown
    <3> QED BY <2>5, <3>1 DEF TxnKnown
  <2>10. \A p \in Orders : TxnOwned(p)'
    BY <2>1, <2>2 DEF Single, TxnOwned
  <2> QED BY <2>6, <2>7, <2>8, <2>9, <2>10 DEF Single
<1> QED BY <1>2, <1>3

(* Other goroutines keep what they hold when b alone moves on its way and  *)
(* no order loses its transaction.                                         *)
LEMMA HandlersKept ==
  ASSUME Fit, Single, NEW b \in Goroutines,
         \A d \in Goroutines \ {b} : call'[d] = call[d],
         call'[b].step \notin {"payload", "attach", "check", "confirm", "lookup"},
         \A o \in Orders : orders[o].txn # NoTxn => orders'[o].txn = orders[o].txn,
         \A t \in Txns : Started(t) => txns'[t].order = txns[t].order,
         \A t \in Txns : SaysConfirmed(t) => SaysConfirmed(t)'
  PROVE  \A c \in Goroutines : HandlingFits(c)'
<1> SUFFICES ASSUME NEW c \in Goroutines PROVE HandlingFits(c)'
  OBVIOUS
<1>1. HandlingFits(c) /\ CallFits(call[c])
  BY DEF Single, Fit
<1>2. CASE c = b
  BY <1>2 DEF HandlingFits
<1>3. CASE c # b
  BY <1>1, <1>3, NullAssumption DEF HandlingFits, CallFits, Known, Started
<1> QED BY <1>2, <1>3

LEMMA CreateTransactionSingle ==
  ASSUME Fit, Single, NEW b \in Buyers, CreateTransaction(b) PROVE Single'
<1>1. PICK o \in Orders : o = call[b].order /\ Known(o)
  BY DEF Fit, CallFits, CreateTransaction, At, Known
<1>2. PICK t \in Txns :
        /\ Unused(t)
        /\ txns' = [txns EXCEPT ![t] = [order |-> o, state |-> "open", deadline |-> now + LinkTTL]]
        /\ call' = [call EXCEPT ![b] = Holds("save", o, t, NoRow, now)]
        /\ orders' = orders
  BY <1>1 DEF CreateTransaction, Go
<1>3. /\ txns'[t].order = o /\ Started(t)' /\ ~Started(t) /\ ~SaysConfirmed(t)
      /\ \A u \in Txns \ {t} : txns'[u] = txns[u] /\ (Started(u)' <=> Started(u))
  BY <1>2 DEF Fit, TypeOK, Started, Unused, SaysConfirmed
<1>4. /\ call'[b].step = "save" /\ call'[b].order = o /\ call'[b].txn = t
      /\ \A d \in Goroutines \ {b} : call'[d] = call[d]
  BY <1>2 DEF Holds, Fit, TypeOK
<1>5. /\ At(b, "ask") /\ Asking(b) /\ AskingFits(b)
      /\ \A u \in Txns : Started(u) => txns[u].order # o
  BY <1>1 DEF Single, AskingFits, Asking, At, CreateTransaction
<1>6. orders[o].uncertain /\ \A d \in Goroutines \ {b} : Asking(d) => call[d].order # o
  BY <1>1, <1>5 DEF AskingFits
<1>7. OneTxn'
  BY <1>3, <1>5 DEF Single, OneTxn
<1>8. \A c \in Goroutines : HandlingFits(c)'
  BY <1>2, <1>3, <1>4, HandlersKept DEF SaysConfirmed
<1>9. ASSUME NEW c \in Goroutines PROVE AskingFits(c)'
  <2>1. CASE c = b
    BY <1>2, <1>3, <1>4, <1>5, <1>6, <2>1 DEF AskingFits, Asking, At
  <2>2. CASE c # b
    <3>1. SUFFICES ASSUME Asking(c)' PROVE AskingFits(c)'
      BY DEF AskingFits
    <3>2. call'[c] = call[c] /\ Asking(c) /\ call[c].order # o /\ AskingFits(c)
      BY <1>4, <1>6, <2>2, <3>1 DEF Asking, Single
    <3>3. At(c, "save") => Started(call[c].txn) /\ call[c].txn # t
      BY <1>3, <3>2 DEF Fit, CallFits, At
    <3>4. \A d \in Goroutines : Asking(d)' /\ call'[d].order = call[c].order => d = c
      BY <1>4, <3>2 DEF AskingFits, Asking
    <3>5. \A u \in Txns : Started(u)' /\ txns'[u].order = call[c].order
                             => At(c, "save") /\ call[c].txn = u
      BY <1>3, <3>2 DEF AskingFits
    <3>6. At(c, "save") => txns'[call[c].txn].order = call[c].order
      BY <1>3, <3>2, <3>3 DEF AskingFits, Started
    <3> QED BY <1>2, <3>2, <3>4, <3>5, <3>6 DEF AskingFits, At
  <2> QED BY <2>1, <2>2
<1>10. \A u \in Txns : TxnKnown(u)'
  BY <1>2, <1>3, <1>6 DEF Single, TxnKnown
<1>11. \A p \in Orders : TxnOwned(p)'
  BY <1>2, <1>3 DEF Single, TxnOwned, Fit, RowFits, Started
<1> QED BY <1>7, <1>8, <1>9, <1>10, <1>11 DEF Single

LEMMA RefuseSingle ==
  ASSUME Fit, Single, NEW b \in Buyers, RefuseTransaction(b) PROVE Single'
<1>1. /\ orders' = orders /\ txns' = txns /\ At(b, "ask")
      /\ call' = [call EXCEPT ![b] = Holds("clear", call[b].order, call[b].txn, call[b].row, 0)]
  BY DEF RefuseTransaction, Goto, Go
<1>2. /\ call'[b].step = "clear" /\ call'[b].order = call[b].order
      /\ \A d \in Goroutines \ {b} : call'[d] = call[d]
  BY <1>1 DEF Holds, Fit, TypeOK
<1>3. \A t \in Txns : Started(t)' <=> Started(t)
  BY <1>1 DEF Started
<1>4. \A c \in Goroutines : HandlingFits(c)'
  BY <1>1, <1>2, HandlersKept DEF SaysConfirmed
<1>5. ASSUME NEW c \in Goroutines PROVE AskingFits(c)'
  <2>1. \A d \in Goroutines : (Asking(d)' => Asking(d)) /\ call'[d].order = call[d].order
    BY <1>1, <1>2 DEF Asking, At
  <2>2. AskingFits(c)
    BY DEF Single
  <2>3. CASE c = b
    BY <1>1, <1>2, <1>3, <2>1, <2>2, <2>3 DEF AskingFits, Asking, At
  <2>4. CASE c # b
    BY <1>1, <1>2, <1>3, <2>1, <2>2, <2>4 DEF AskingFits, At
  <2> QED BY <2>3, <2>4
<1>6. OneTxn' /\ (\A t \in Txns : TxnKnown(t)') /\ \A o \in Orders : TxnOwned(o)'
  BY <1>1, <1>3 DEF Single, OneTxn, TxnKnown, TxnOwned
<1> QED BY <1>4, <1>5, <1>6 DEF Single

(* Whoever is on the way arrives and writes its order's row: either there  *)
(* is no transaction for it, or the row now names it.                      *)
LEMMA ArrivalSingle ==
  ASSUME Fit, Single, NEW b \in Goroutines, Asking(b), Return(b), UNCHANGED txns,
         NEW o \in Orders, o = call[b].order,
         \A p \in Orders \ {o} : orders'[p] = orders[p],
         orders[o].txn # NoTxn => orders'[o].txn = orders[o].txn,
         orders'[o].txn # NoTxn => Started(orders'[o].txn) /\ txns[orders'[o].txn].order = o,
         \A t \in Txns : Started(t) /\ txns[t].order = o => orders'[o].txn = t
  PROVE  Single'
<1>1. /\ ~Asking(b)'
      /\ call'[b].step = "idle" /\ \A d \in Goroutines \ {b} : call'[d] = call[d]
  BY DEF Return, Go, Idle, Holds, Asking, Fit, TypeOK
<1>2. \A t \in Txns : Started(t)' <=> Started(t)
  BY DEF Started
<1>3. \A d \in Goroutines \ {b} : Asking(d) => call[d].order # o
  BY DEF Single, AskingFits
<1>4. \A c \in Goroutines : HandlingFits(c)'
  <2>1. \A p \in Orders : orders[p].txn # NoTxn => orders'[p].txn = orders[p].txn
    OBVIOUS
  <2> QED BY <1>1, <2>1, HandlersKept DEF SaysConfirmed
<1>5. ASSUME NEW c \in Goroutines PROVE AskingFits(c)'
  <2>1. SUFFICES ASSUME Asking(c)' PROVE AskingFits(c)'
    BY DEF AskingFits
  <2>2. c # b /\ call'[c] = call[c] /\ Asking(c) /\ AskingFits(c)
    BY <1>1, <2>1 DEF Asking, Single
  <2>3. call[c].order \in Orders \ {o}
    BY <1>3, <2>2 DEF Fit, CallFits, Asking, Known
  <2>4. \A d \in Goroutines : Asking(d)' => Asking(d) /\ call'[d] = call[d]
    BY <1>1 DEF Asking
  <2> QED BY <1>2, <2>2, <2>3, <2>4 DEF AskingFits, At
<1>6. OneTxn'
  BY <1>2 DEF Single, OneTxn
<1>7. ASSUME NEW t \in Txns PROVE TxnKnown(t)'
  <2>1. CASE Started(t)
    <3>1. txns[t].order \in Orders /\ TxnKnown(t)
      BY <2>1 DEF Fit, TxnFits, Known, Single
    <3> QED BY <1>2, <2>1, <3>1 DEF TxnKnown
  <2> QED BY <1>2, <2>1 DEF TxnKnown
<1>8. \A p \in Orders : TxnOwned(p)'
  BY DEF Single, TxnOwned
<1> QED BY <1>4, <1>5, <1>6, <1>7, <1>8 DEF Single

LEMMA ClearSingle ==
  ASSUME Fit, Single, NEW b \in Buyers, ClearUncertain(b) PROVE Single'
<1>1. PICK o \in Orders : o = call[b].order
  BY DEF Fit, CallFits, ClearUncertain, At, Known
<1>2. At(b, "clear") /\ Asking(b) /\ Return(b) /\ txns' = txns
  BY DEF ClearUncertain, Asking, At
<1>3. \A t \in Txns : ~(Started(t) /\ txns[t].order = o)
  BY <1>1, <1>2 DEF Single, AskingFits, At
<1>4. /\ \A p \in Orders \ {o} : orders'[p] = orders[p]
      /\ orders'[o].txn = orders[o].txn
  BY <1>1 DEF ClearUncertain, SetUncertain, Row, Fit, TypeOK
<1>5. orders'[o].txn # NoTxn => Started(orders'[o].txn) /\ txns[orders'[o].txn].order = o
  BY <1>4 DEF Fit, RowFits, Single, TxnOwned
<1> QED BY <1>1, <1>2, <1>3, <1>4, <1>5, ArrivalSingle

LEMMA SaveSingle ==
  ASSUME Fit, Single, NEW b \in Buyers, SavePaymentDetails(b) PROVE Single'
<1>1. PICK o \in Orders : o = call[b].order
  BY DEF Fit, CallFits, SavePaymentDetails, At, Known
<1>2. PICK t \in Txns : t = call[b].txn /\ Started(t)
  BY DEF Fit, CallFits, SavePaymentDetails, At, Started
<1>3. At(b, "save") /\ Asking(b) /\ Return(b) /\ txns' = txns
  BY DEF SavePaymentDetails, Asking, At
<1>4. /\ txns[t].order = o
      /\ \A u \in Txns : Started(u) /\ txns[u].order = o => u = t
  BY <1>1, <1>2, <1>3 DEF Single, AskingFits
<1>5. CASE orders[o].status = "pending"
  <2>1. PICK d : orders' = [orders EXCEPT ![o] =
                   Row("pending", orders[o].product, FALSE, t, d, orders[o].expires)]
    BY <1>1, <1>2, <1>5 DEF SavePaymentDetails
  <2>2. orders'[o].txn = t /\ \A p \in Orders \ {o} : orders'[p] = orders[p]
    BY <2>1 DEF Row, Fit, TypeOK
  <2>3. orders[o].txn # NoTxn => orders[o].txn = t
    BY <1>4 DEF Single, TxnOwned, Fit, RowFits, Started
  <2> QED BY <1>1, <1>2, <1>3, <1>4, <2>2, <2>3, ArrivalSingle
<1>6. CASE orders[o].status # "pending"
  BY <1>1, <1>3, <1>6, ReturnSingle DEF SavePaymentDetails, SameMark
<1> QED BY <1>5, <1>6

(* A callback writes the transaction into its order's row.                 *)
LEMMA AttachSingle ==
  ASSUME Fit, Single, NEW c \in Goroutines, AttachProviderPaymentID(c) PROVE Single'
<1>1. PICK t \in Txns : t = call[c].txn /\ Started(t)
  BY DEF Fit, CallFits, AttachProviderPaymentID, At, Started
<1>2. PICK o \in Orders : o = call[c].order /\ Known(o)
  BY DEF Fit, CallFits, AttachProviderPaymentID, At, Known
<1>3. txns[t].order = o /\ SaysConfirmed(t)
  BY <1>1, <1>2 DEF Single, HandlingFits, AttachProviderPaymentID, At
<1>4. CASE orders[o].txn # NoTxn
  BY <1>1, <1>2, <1>4, ReturnSingle DEF AttachProviderPaymentID, SameMark
<1>5. CASE orders[o].txn = NoTxn
  <2>1. /\ orders' = [orders EXCEPT ![o] = SetTxn(orders[o], t)] /\ txns' = txns
        /\ call' = [call EXCEPT ![c] = Holds("check", o, t, call[c].row, 0)]
    BY <1>1, <1>2, <1>5 DEF AttachProviderPaymentID, Goto, Go
  <2>2. /\ orders'[o].txn = t /\ (orders'[o].uncertain <=> orders[o].uncertain)
        /\ \A p \in Orders \ {o} : orders'[p] = orders[p]
    BY <2>1 DEF SetTxn, Row, Fit, TypeOK
  <2>3. /\ call'[c].step = "check" /\ call'[c].order = o /\ call'[c].txn = t
        /\ \A d \in Goroutines \ {c} : call'[d] = call[d]
    BY <2>1 DEF Holds, Fit, TypeOK
  <2>4. \A u \in Txns : Started(u)' <=> Started(u)
    BY <2>1 DEF Started
  <2>5. \A d \in Goroutines : Asking(d)' => Asking(d) /\ call'[d] = call[d]
    BY <2>3 DEF Asking
  <2>6. ASSUME NEW d \in Goroutines PROVE HandlingFits(d)'
    <3>1. CASE d = c
      BY <1>3, <2>1, <2>2, <2>3, <3>1 DEF HandlingFits, SaysConfirmed
    <3>2. CASE d # c
      <4>1. HandlingFits(d) /\ CallFits(call[d])
        BY DEF Single, Fit
      <4> QED BY <1>5, <2>1, <2>2, <2>3, <3>2, <4>1, NullAssumption
              DEF HandlingFits, CallFits, SaysConfirmed, Known, Started
    <3> QED BY <3>1, <3>2
  <2>7. ASSUME NEW d \in Goroutines PROVE AskingFits(d)'
    <3>1. SUFFICES ASSUME Asking(d)' PROVE AskingFits(d)'
      BY DEF AskingFits
    <3>2. Asking(d) /\ call'[d] = call[d] /\ AskingFits(d) /\ call[d].order \in Orders
      BY <2>5, <3>1 DEF Single, Fit, CallFits, Asking, Known
    <3> QED BY <2>1, <2>2, <2>4, <2>5, <3>2 DEF AskingFits, At
  <2>8. OneTxn'
    BY <2>1, <2>4 DEF Single, OneTxn
  <2>9. ASSUME NEW u \in Txns PROVE TxnKnown(u)'
    <3>1. CASE Started(u)
      <4>1. txns[u].order \in Orders /\ TxnKnown(u) /\ (txns[u].order = o => u = t)
        BY <1>1, <1>3, <3>1 DEF Fit, TxnFits, Known, Single, OneTxn
      <4> QED BY <2>1, <2>2, <3>1, <4>1 DEF TxnKnown
    <3> QED BY <2>4, <3>1 DEF TxnKnown
  <2>10. \A p \in Orders : TxnOwned(p)'
    BY <1>3, <2>1, <2>2 DEF Single, TxnOwned
  <2> QED BY <2>6, <2>7, <2>8, <2>9, <2>10 DEF Single
<1> QED BY <1>4, <1>5

LEMMA FindPendingSingle ==
  ASSUME Fit, Single, NEW b \in Buyers, FindPendingPaymentOrder(b) PROVE Single'
<1>1. call[b].order \in Orders
  BY DEF Fit, CallFits, FindPendingPaymentOrder, At, Known
<1>2. (\A p \in Orders : SameMark(p)) /\ txns' = txns
  BY <1>1, MarksOfStatus DEF FindPendingPaymentOrder
<1>3. CASE Return(b)
  BY <1>2, <1>3, ReturnSingle
<1>4. CASE Go(b, Wants("create", call[b].product, NoOrder, call[b].at))
  <2>1. PICK k : Go(b, k) /\ k.step = "create"
    BY <1>4 DEF Wants
  <2>2. HandlingFits(b)'
    BY <2>1 DEF HandlingFits, Go, Fit, TypeOK
  <2> QED BY <1>2, <2>1, <2>2, GoSingle
<1> QED BY <1>3, <1>4 DEF FindPendingPaymentOrder

LEMMA RequestSingle ==
  ASSUME Fit, Single, NEW b \in Buyers, Request(b) PROVE Single'
<1>1. CASE Decline(b)
  BY <1>1, ReturnSingle DEF Decline, SameMark
<1> QED BY <1>1, FindPendingSingle, CreateOrderSingle, ClaimSingle, CreateTransactionSingle,
           RefuseSingle, ClearSingle, SaveSingle DEF Request

LEMMA RequestPaymentSingle ==
  ASSUME Fit, Single, NEW b \in Buyers, NEW m \in Products, RequestPayment(b, m) PROVE Single'
<1>1. PICK k : Go(b, k) /\ k.step \in {"create", "expire", "claim", "idle"}
  <2>1. /\ \A o : Wants("create", m, o, now).step = "create"
        /\ \A o : Wants("expire", m, o, now).step = "expire"
        /\ \A o : Holds("claim", o, NoTxn, NoRow, 0).step = "claim"
        /\ Idle.step = "idle"
    BY DEF Wants, Holds, Idle
  <2>2. CASE Go(b, Wants("create", m, NoOrder, now))
    BY <2>1, <2>2
  <2>3. ASSUME NEW o, Go(b, Wants("expire", m, o, now))
        PROVE  \E k : Go(b, k) /\ k.step \in {"create", "expire", "claim", "idle"}
    BY <2>1, <2>3
  <2>4. ASSUME NEW o, GoOn(b, o, orders[o])
        PROVE  \E k : Go(b, k) /\ k.step \in {"create", "expire", "claim", "idle"}
    BY <2>1, <2>4 DEF GoOn
  <2> QED BY <2>2, <2>3, <2>4 DEF RequestPayment
<1>2. HandlingFits(b)'
  BY <1>1 DEF HandlingFits, Go, Fit, TypeOK
<1> QED BY <1>1, <1>2, GoSingle DEF RequestPayment, SameMark

LEMMA LookupSingle ==
  ASSUME Fit, Single, NEW c \in Goroutines, NEW t \in Txns, SaysConfirmed(t), Lookup(c, t)
  PROVE  Single'
<1>1. /\ orders' = orders /\ txns' = txns
      /\ \/ Go(c, Holds("payload", NoOrder, t, NoRow, 0))
         \/ \E o \in Orders : orders[o].txn = t /\ Go(c, Holds("check", o, t, orders[o], 0))
  BY DEF Lookup
<1>2. HandlingFits(c)' /\ call'[c].step \in {"payload", "check"}
  BY <1>1 DEF HandlingFits, Go, Holds, SaysConfirmed, Fit, TypeOK
<1>3. PICK k : Go(c, k)
  BY <1>1
<1>4. k = call'[c]
  BY <1>3 DEF Go, Fit, TypeOK
<1> QED BY <1>1, <1>2, <1>3, <1>4, GoSingle DEF SameMark

LEMMA HandleSingle ==
  ASSUME Fit, Single, NEW c \in Goroutines, Handle(c) PROVE Single'
<1>1. CASE OrderByCallbackPayload(c)
  <2>1. HandlingFits(c) /\ orders' = orders /\ txns' = txns /\ At(c, "payload")
    BY <1>1 DEF Single, OrderByCallbackPayload
  <2>2. CASE Return(c)
    BY <2>1, <2>2, ReturnSingle DEF SameMark
  <2>3. CASE Go(c, Holds("attach", txns[call[c].txn].order, call[c].txn,
                         orders[txns[call[c].txn].order], 0))
    <3>1. PICK k : /\ Go(c, k) /\ k.step = "attach" /\ k.txn = call[c].txn
                   /\ k.order = txns[call[c].txn].order
      BY <2>3 DEF Holds
    <3>2. call'[c] = k
      BY <3>1 DEF Go, Fit, TypeOK
    <3>3. HandlingFits(c)'
      BY <2>1, <3>1, <3>2 DEF HandlingFits, At, SaysConfirmed
    <3> QED BY <2>1, <3>1, <3>3, GoSingle DEF SameMark
  <2> QED BY <1>1, <2>2, <2>3 DEF OrderByCallbackPayload
<1>2. CASE CheckConfirmation(c)
  <2>1. HandlingFits(c) /\ orders' = orders /\ txns' = txns /\ At(c, "check")
    BY <1>2 DEF Single, CheckConfirmation
  <2>2. CASE Return(c)
    BY <2>1, <2>2, ReturnSingle DEF SameMark
  <2>3. CASE Go(c, Holds("confirm", call[c].order, call[c].txn, NoRow, 0))
    <3>1. PICK k : /\ Go(c, k) /\ k.step = "confirm" /\ k.txn = call[c].txn
                   /\ k.order = call[c].order
      BY <2>3 DEF Holds
    <3>2. call'[c] = k
      BY <3>1 DEF Go, Fit, TypeOK
    <3>3. HandlingFits(c)'
      BY <2>1, <3>1, <3>2 DEF HandlingFits, At, SaysConfirmed
    <3> QED BY <2>1, <3>1, <3>3, GoSingle DEF SameMark
  <2> QED BY <1>2, <2>2, <2>3 DEF CheckConfirmation
<1>3. CASE ConfirmOrderPaidCAS(c)
  <2>1. \A o \in Orders : SameMark(o)
    BY <1>3 DEF ConfirmOrderPaidCAS, Row, SameMark, Fit, TypeOK
  <2> QED BY <1>3, <2>1, ReturnSingle DEF ConfirmOrderPaidCAS
<1> QED BY <1>1, <1>2, <1>3, AttachSingle DEF Handle

LEMMA StaySingle ==
  ASSUME Fit, Single, call' = call, \A o \in Orders : SameMark(o), \A t \in Txns : SameTxn(t)
  PROVE  Single'
<1>1. \A c \in Goroutines : OffTheWay(c)
  BY DEF OffTheWay
<1> QED BY <1>1, MarksKept

LEMMA SingleStep == ASSUME Fit, Single, [Next]_vars PROVE Single'
<1>1. CASE UNCHANGED <<orders, txns, call>>
  BY <1>1, StaySingle DEF SameMark, SameTxn, Started, SaysConfirmed
<1>2. ASSUME NEW b \in Buyers, Request(b) \/ \E m \in Products : RequestPayment(b, m)
      PROVE  Single'
  BY <1>2, RequestSingle, RequestPaymentSingle
<1>3. ASSUME NEW h \in Hooks, NEW t \in Txns, ConfirmPayment(h, t) PROVE Single'
  BY <1>3, LookupSingle DEF ConfirmPayment
<1>4. ASSUME NEW h \in Hooks, NEW t \in Txns, CancelPaymentByProvider(h, t) PROVE Single'
  <2>1. PICK o \in Orders : CancelOrderCAS(o) \/ CancelPaidOrderAndDowngradeCAS(o)
    BY <1>4 DEF CancelPaymentByProvider
  <2>2. \A p \in Orders : SameMark(p)
    BY <2>1, MarksOfStatus DEF CancelOrderCAS, CancelPaidOrderAndDowngradeCAS
  <2> QED BY <1>4, <2>2, StaySingle DEF CancelPaymentByProvider, SameTxn, Started, SaysConfirmed
<1>5. ASSUME NEW o \in Orders, ReconcilePendingOrder(o) PROVE Single'
  <2>1. PICK k : /\ Go(Worker, k)
                 /\ \/ k.step = "lapse"
                    \/ k.step = "lookup" /\ txns[k.txn].state = "confirmed"
    BY <1>5 DEF ReconcilePendingOrder, Holds
  <2>2. HandlingFits(Worker)'
    BY <1>5, <2>1 DEF HandlingFits, Go, SaysConfirmed, Fit, TypeOK, ReconcilePendingOrder
  <2> QED BY <1>5, <2>1, <2>2, GoSingle DEF ReconcilePendingOrder, SameMark
<1>6. CASE ReconcileConfirmed
  <2>1. call[Worker].txn \in Txns /\ SaysConfirmed(call[Worker].txn)
    BY <1>6 DEF Fit, CallFits, Started, Single, HandlingFits, ReconcileConfirmed, At
  <2> QED BY <1>6, <2>1, LookupSingle DEF ReconcileConfirmed
<1>7. CASE ExpirePendingOrder
  <2>1. call[Worker].order \in Orders
    BY <1>7 DEF Fit, CallFits, ExpirePendingOrder, At, Known
  <2>2. \A p \in Orders : SameMark(p)
    BY <1>7, <2>1, MarksOfStatus DEF ExpirePendingOrder
  <2> QED BY <1>7, <2>2, ReturnSingle DEF ExpirePendingOrder
<1>8. ASSUME NEW c \in Hooks \cup {Worker}, Handle(c) PROVE Single'
  BY <1>8, HandleSingle
<1>9. ASSUME NEW c \in Goroutines, Fail(c) PROVE Single'
  BY <1>9, ReturnSingle DEF Fail, SameMark
<1>10. ASSUME NEW t \in Txns, Pay(t) \/ Close(t) \/ TakeBack(t) PROVE Single'
  <2>1. \A u \in Txns : SameTxn(u)
    BY <1>10 DEF Pay, Close, TakeBack, Payable, SetState, SameTxn, Started, SaysConfirmed,
                 Fit, TypeOK
  <2> QED BY <1>10, <2>1, StaySingle DEF Pay, Close, TakeBack, SameMark
<1> QED
  BY <1>1, <1>2, <1>3, <1>4, <1>5, <1>6, <1>7, <1>8, <1>9, <1>10
     DEF Next, Reconcile, ExpireSubscription, Revoke, Tick, vars

LEMMA SingleHolds == Spec => []Single
<1>1. Init => Single
  <2>1. Idle.step = "idle"
    BY DEF Idle, Holds
  <2> QED BY <2>1, SetMarks DEF Init, Single, OneTxn, Started, AskingFits, Asking, HandlingFits,
                                TxnKnown, TxnOwned
<1>2. Fit /\ Single /\ [Next]_vars => Single'
  BY SingleStep
<1> QED BY <1>1, <1>2, FitHolds, PTL DEF Spec

--------------------------------------------------------------------------------
(* A paid order names the transaction that paid for it.                    *)
Charge == \A o \in Orders :
            orders[o].status = "paid" => /\ orders[o].txn # NoTxn
                                         /\ SaysConfirmed(orders[o].txn)

PaidKeeps(o) ==
  orders'[o].status = "paid" => /\ orders'[o].txn = orders[o].txn
                                /\ \/ orders[o].status = "paid"
                                   \/ orders[o].txn \in Txns /\ SaysConfirmed(orders[o].txn)

LEMMA PaidBefore ==
  ASSUME Fit, Single, Charge, [Next]_vars PROVE \A o \in Orders : PaidKeeps(o)
<1> USE DEF Fit, TypeOK
<1>1. CASE UNCHANGED orders
  BY <1>1 DEF PaidKeeps
<1>2. ASSUME NEW o \in Orders,
             orders' = orders \/ orders' = [orders EXCEPT ![o] = SetStatus(orders[o], "canceled")]
                              \/ orders' = Expired(o)
      PROVE  \A p \in Orders : PaidKeeps(p)
  BY <1>2, SetFields DEF Expired, PaidKeeps
<1>3. ASSUME NEW b \in Buyers, Request(b) PROVE \A o \in Orders : PaidKeeps(o)
  <2>1. CASE FindPendingPaymentOrder(b)
    <3>1. call[b].order \in Orders
      BY <2>1 DEF CallFits, FindPendingPaymentOrder, At, Known
    <3> QED BY <1>2, <2>1, <3>1 DEF FindPendingPaymentOrder
  <2>2. CASE FindOrCreatePendingPaymentOrder(b)
    <3> DEFINE m == call[b].product
               stale == {o \in PendingFor(m) :
                          ~orders[o].uncertain /\ HasPassed(orders[o].deadline, call[b].at)}
    <3>1. ASSUME NEW n \in Orders,
                 orders' = [o \in Orders |->
                                    IF o = n THEN NewRow(m)
                                    ELSE IF o \in stale THEN SetStatus(orders[o], "expired")
                                    ELSE orders[o]],
                 NEW p \in Orders
          PROVE  PaidKeeps(p)
      <4> HIDE DEF m, stale
      <4>1. CASE p = n
        BY <3>1, <4>1 DEF NewRow, Row, PaidKeeps
      <4>2. CASE p # n /\ p \in stale
        BY <3>1, <4>2 DEF SetStatus, Row, PaidKeeps
      <4>3. CASE p # n /\ p \notin stale
        BY <3>1, <4>3 DEF PaidKeeps
      <4> QED BY <4>1, <4>2, <4>3
    <3> QED BY <1>1, <2>2, <3>1 DEF FindOrCreatePendingPaymentOrder
  <2>3. CASE ClaimCreation(b)
    BY <2>3 DEF ClaimCreation, SetUncertain, Row, PaidKeeps
  <2>4. CASE ClearUncertain(b)
    BY <2>4 DEF ClearUncertain, SetUncertain, Row, PaidKeeps
  <2>5. CASE SavePaymentDetails(b)
    <3>1. CASE orders[call[b].order].status = "pending"
      <4>1. PICK d : orders' = [orders EXCEPT ![call[b].order] =
                       Row("pending", orders[call[b].order].product, FALSE, call[b].txn,
                           d, orders[call[b].order].expires)]
        BY <2>5, <3>1 DEF SavePaymentDetails
      <4> QED BY <4>1 DEF Row, PaidKeeps
    <3>2. CASE orders[call[b].order].status # "pending"
      BY <1>1, <2>5, <3>2 DEF SavePaymentDetails
    <3> QED BY <3>1, <3>2
  <2> QED BY <1>1, <1>3, <2>1, <2>2, <2>3, <2>4, <2>5
          DEF Request, Decline, CreateTransaction, RefuseTransaction
<1>4. ASSUME NEW c \in Hooks \cup {Worker}, Handle(c) PROVE \A o \in Orders : PaidKeeps(o)
  <2>1. CASE AttachProviderPaymentID(c)
    BY <2>1 DEF AttachProviderPaymentID, SetTxn, Row, PaidKeeps, Charge
  <2>2. CASE ConfirmOrderPaidCAS(c)
    <3>1. /\ orders[call[c].order].txn \in Txns
          /\ SaysConfirmed(orders[call[c].order].txn)
      BY <2>2 DEF Single, HandlingFits, CallFits, Started, ConfirmOrderPaidCAS, At, Goroutines
    <3> QED BY <2>2, <3>1 DEF ConfirmOrderPaidCAS, Row, PaidKeeps
  <2> QED BY <1>1, <1>4, <2>1, <2>2 DEF Handle, OrderByCallbackPayload, CheckConfirmation
<1>5. ASSUME NEW h \in Hooks, NEW t \in Txns, CancelPaymentByProvider(h, t)
      PROVE  \A o \in Orders : PaidKeeps(o)
  BY <1>2, <1>5 DEF CancelPaymentByProvider, CancelOrderCAS, CancelPaidOrderAndDowngradeCAS
<1>6. CASE ExpirePendingOrder
  <2>1. call[Worker].order \in Orders
    BY <1>6 DEF CallFits, ExpirePendingOrder, At, Known
  <2> QED BY <1>2, <1>6, <2>1 DEF ExpirePendingOrder
<1> QED
  BY <1>1, <1>3, <1>4, <1>5, <1>6
     DEF Next, Reconcile, ReconcileConfirmed, Lookup, RequestPayment, ConfirmPayment,
         ReconcilePendingOrder, Fail, Pay, Close, TakeBack, ExpireSubscription, Revoke, Tick, vars

LEMMA ConfirmedStays ==
  ASSUME Fit, [Next]_vars PROVE \A t \in Txns : SaysConfirmed(t) => SaysConfirmed(t)'
<1>1. CASE UNCHANGED txns
  BY <1>1 DEF SaysConfirmed
<1>2. ASSUME NEW b \in Buyers, CreateTransaction(b)
      PROVE  \A t \in Txns : SaysConfirmed(t) => SaysConfirmed(t)'
  BY <1>2 DEF CreateTransaction, Unused, SaysConfirmed, Fit, TypeOK
<1>3. ASSUME NEW t \in Txns, Pay(t) \/ Close(t) \/ TakeBack(t)
      PROVE  \A u \in Txns : SaysConfirmed(u) => SaysConfirmed(u)'
  BY <1>3 DEF Pay, Close, TakeBack, Payable, SetState, SaysConfirmed, Fit, TypeOK
<1>4. ASSUME NEW b \in Buyers, Request(b), ~CreateTransaction(b) PROVE UNCHANGED txns
  BY <1>4 DEF Request, FindPendingPaymentOrder, FindOrCreatePendingPaymentOrder, Decline,
              ClaimCreation, RefuseTransaction, ClearUncertain, SavePaymentDetails
<1>5. ASSUME NEW c \in Goroutines, Handle(c) \/ Fail(c) PROVE UNCHANGED txns
  BY <1>5 DEF Handle, OrderByCallbackPayload, AttachProviderPaymentID, CheckConfirmation,
              ConfirmOrderPaidCAS, Fail
<1> QED
  BY <1>1, <1>2, <1>3, <1>4, <1>5
     DEF Next, Reconcile, ReconcileConfirmed, ExpirePendingOrder, Lookup, RequestPayment,
         ConfirmPayment, CancelPaymentByProvider, ReconcilePendingOrder,
         ExpireSubscription, Revoke, Tick, vars

LEMMA ChargeHolds == Spec => []Charge
<1>1. Init => Charge
  BY SetFields DEF Init, Charge
<1>2. Fit /\ Single /\ Charge /\ [Next]_vars => Charge'
  <2> SUFFICES ASSUME Fit, Single, Charge, [Next]_vars,
                      NEW o \in Orders, orders'[o].status = "paid"
               PROVE  orders'[o].txn # NoTxn /\ SaysConfirmed(orders[o].txn)'
    BY DEF Charge
  <2>1. PICK t : t = orders[o].txn
    OBVIOUS
  <2>2. PaidKeeps(o)
    BY PaidBefore
  <2>3. orders'[o].txn = t /\ SaysConfirmed(t) /\ t \in Txns
    <3>1. CASE orders[o].status = "paid"
      <4>1. t # NoTxn /\ SaysConfirmed(t)
        BY <2>1, <3>1 DEF Charge
      <4>2. t \in Txns
        BY <2>1, <4>1 DEF Fit, RowFits, Started
      <4> QED BY <2>1, <2>2, <4>1, <4>2 DEF PaidKeeps
    <3>2. CASE orders[o].status # "paid"
      BY <2>1, <2>2, <3>2 DEF PaidKeeps
    <3> QED BY <3>1, <3>2
  <2> QED BY <2>3, ConfirmedStays, NullAssumption DEF SaysConfirmed
<1> QED BY <1>1, <1>2, FitHolds, SingleHolds, PTL DEF Spec

(* An order is paid only with the customer's money, and with that of its   *)
(* own transaction.                                                        *)
THEOREM PaidCharged == Spec => []PaidIsCharged
<1>1. Fit /\ Single /\ Charge => PaidIsCharged
  BY DEF Fit, RowFits, Started, Single, TxnOwned, Charge, PaidIsCharged, SaysConfirmed
<1> QED BY <1>1, FitHolds, SingleHolds, ChargeHolds, PTL
--------------------------------------------------------------------------------
(* The third layer: while a link can be paid its order is the pending one. *)
LeavesWell(o) ==
  orders'[o].status # orders[o].status =>
    /\ \A c \in Goroutines : At(c, "ask") => call[c].order # o
    /\ \A t \in Txns : txns[t].state = "open" /\ txns[t].order = o
                         => orders'[o].status = "expired" /\ txns[t].deadline <= now

StaysPending(o) ==
  orders'[o].status = "pending" => /\ orders[o].status = "pending"
                                   /\ orders'[o].product = orders[o].product

KeepsDeadline(o) ==
  orders'[o].deadline # NoTime =>
    \/ orders'[o].deadline = orders[o].deadline /\ orders'[o].txn = orders[o].txn
    \/ /\ Started(orders'[o].txn)
       /\ orders'[o].deadline >= txns[orders'[o].txn].deadline

KeepsTxn(t) ==
  \/ /\ Started(t) /\ Started(t)'
     /\ txns'[t].order = txns[t].order /\ txns'[t].deadline = txns[t].deadline
     /\ txns'[t].state = "open" => txns[t].state = "open"
     /\ txns[t].state = "canceled" => txns'[t].state = "canceled"
  \/ ~Started(t) /\ txns'[t].state # "open"
  \/ /\ ~Started(t) /\ orders[txns'[t].order].status = "pending"
     /\ orders' = orders

KeepsLink(c) == call'[c] = call[c] \/ LinkFits(c)'

LEMMA LiveKept ==
  ASSUME Fit, Single, Live, now' \in Nat, now' >= now, OnePending',
         \A o \in Orders : LeavesWell(o) /\ KeepsDeadline(o),
         \A t \in Txns : KeepsTxn(t), \A c \in Goroutines : KeepsLink(c)
  PROVE  Live'
<1> USE DEF Fit, TypeOK
<1>1. ASSUME NEW o \in Orders PROVE DeadlineFits(o)'
  <2>1. CASE orders'[o].deadline = NoTime
    BY <2>1 DEF DeadlineFits
  <2>2. CASE orders'[o].deadline # NoTime /\ orders'[o].deadline = orders[o].deadline
                                          /\ orders'[o].txn = orders[o].txn
    <3>1. orders[o].txn # NoTxn /\ DeadlineFits(o)
      BY <2>2, RowFields DEF Live
    <3>2. PICK t \in Txns : t = orders[o].txn /\ Started(t) /\ KeepsTxn(t)
      BY <3>1 DEF RowFits, Started
    <3> QED BY <2>2, <3>1, <3>2 DEF DeadlineFits, KeepsTxn
  <2>3. CASE Started(orders'[o].txn) /\ orders'[o].deadline >= txns[orders'[o].txn].deadline
    <3>1. PICK t \in Txns : t = orders'[o].txn /\ Started(t) /\ KeepsTxn(t)
      BY <2>3 DEF Started
    <3> QED BY <2>3, <3>1 DEF DeadlineFits, KeepsTxn
  <2> QED BY <2>1, <2>2, <2>3 DEF KeepsDeadline
<1>2. ASSUME NEW t \in Txns PROVE OpenFits(t)'
  <2>1. CASE Started(t)
    <3>1. PICK o \in Orders : o = txns[t].order
      BY <2>1 DEF TxnFits, Known
    <3>2. /\ OpenFits(t) /\ LeavesWell(o) /\ KeepsTxn(t)
          /\ txns[t].deadline \in Nat /\ now \in Nat
      BY <3>1 DEF Live
    <3> QED BY <2>1, <3>1, <3>2 DEF OpenFits, LeavesWell, KeepsTxn
  <2>2. CASE ~Started(t)
    BY <2>2 DEF KeepsTxn, OpenFits
  <2> QED BY <2>1, <2>2
<1>3. ASSUME NEW c \in Goroutines PROVE LinkFits(c)'
  <2>1. CASE call'[c] = call[c]
    <3>1. LinkFits(c) /\ CallFits(call[c])
      BY DEF Live
    <3>2. At(c, "ask") => orders'[call[c].order].status = "pending"
      BY <3>1 DEF LinkFits, CallFits, Known, At, LeavesWell
    <3>3. At(c, "save") => txns'[call[c].txn].deadline = call[c].at + LinkTTL
      BY <3>1 DEF LinkFits, CallFits, Started, At, KeepsTxn
    <3>4. At(c, "expire") => \E t \in Txns : /\ Started(t)' /\ txns'[t].order = call[c].order
                                             /\ txns'[t].deadline <= now'
      <4>1. SUFFICES ASSUME At(c, "expire") PROVE \E t \in Txns :
                        /\ Started(t)' /\ txns'[t].order = call[c].order
                        /\ txns'[t].deadline <= now'
        OBVIOUS
      <4>2. PICK t \in Txns : /\ Started(t) /\ txns[t].order = call[c].order
                              /\ txns[t].deadline <= now
        BY <3>1, <4>1 DEF LinkFits
      <4>3. KeepsTxn(t) /\ Started(t)'
        BY <4>2 DEF KeepsTxn
      <4> QED BY <4>2, <4>3 DEF KeepsTxn
    <3>5. At(c, "lapse") => \E t \in Txns : /\ txns'[t].order = call[c].order
                                            /\ txns'[t].state = "canceled"
      BY <3>1 DEF LinkFits, KeepsTxn, Started
    <3> QED BY <2>1, <3>2, <3>3, <3>4, <3>5 DEF LinkFits, At
  <2> QED BY <2>1 DEF KeepsLink
<1> QED BY <1>1, <1>2, <1>3 DEF Live

LEMMA SaleSame ==
  ASSUME NEW o \in Orders,
         orders'[o].status = orders[o].status, orders'[o].product = orders[o].product,
         orders'[o].deadline = orders[o].deadline, orders'[o].txn = orders[o].txn
  PROVE  LeavesWell(o) /\ StaysPending(o) /\ KeepsDeadline(o)
BY DEF LeavesWell, StaysPending, KeepsDeadline

LEMMA SaleFields ==
  ASSUME NEW r, NEW x
  PROVE  /\ SetStatus(r, x).deadline = r.deadline /\ SetStatus(r, x).txn = r.txn
         /\ SetUncertain(r, x).deadline = r.deadline /\ SetUncertain(r, x).txn = r.txn
         /\ SetTxn(r, x).deadline = r.deadline
         /\ NewRow(x).deadline = NoTime
BY DEF SetStatus, SetUncertain, SetTxn, NewRow, Row

(* One goroutine goes on, the provider does nothing.                       *)
LEMMA GoLive ==
  ASSUME Fit, Single, Live, NEW c \in Goroutines, NEW k, Go(c, k), LinkFits(c)',
         UNCHANGED <<now, txns>>, OnePending',
         \A o \in Orders : LeavesWell(o) /\ KeepsDeadline(o)
  PROVE  Live'
<1>1. \A t \in Txns : KeepsTxn(t)
  BY DEF KeepsTxn, Started
<1>2. \A d \in Goroutines : KeepsLink(d)
  BY DEF KeepsLink, Go, Fit, TypeOK
<1> QED BY <1>1, <1>2, LiveKept DEF Fit, TypeOK

(* ... and no order becomes pending.                                       *)
LEMMA GoOnLive ==
  ASSUME Fit, Single, Live, NEW c \in Goroutines, NEW k, Go(c, k), LinkFits(c)',
         UNCHANGED <<now, txns>>,
         \A o \in Orders : LeavesWell(o) /\ StaysPending(o) /\ KeepsDeadline(o)
  PROVE  Live'
BY GoLive DEF Live, OnePending, StaysPending

LEMMA FreeLive ==
  ASSUME Fit, Single, Live, NEW c \in Goroutines, NEW k, Go(c, k),
         k.step \notin {"ask", "save", "expire", "lapse"},
         UNCHANGED <<now, txns>>,
         \A o \in Orders : LeavesWell(o) /\ StaysPending(o) /\ KeepsDeadline(o)
  PROVE  Live'
<1>1. LinkFits(c)'
  BY DEF LinkFits, At, Go, Fit, TypeOK
<1> QED BY <1>1, GoOnLive

LEMMA ReturnLive ==
  ASSUME Fit, Single, Live, NEW c \in Goroutines, Return(c), UNCHANGED <<now, txns>>,
         \A o \in Orders : LeavesWell(o) /\ StaysPending(o) /\ KeepsDeadline(o)
  PROVE  Live'
<1>1. Idle.step = "idle"
  BY DEF Idle, Holds
<1> QED BY <1>1, FreeLive DEF Return

(* An order with a transaction is asked for by nobody and has no other.    *)
LEMMA LeavesByTxn ==
  ASSUME Fit, Single, NEW o \in Orders, NEW t \in Txns, Started(t), txns[t].order = o,
         txns[t].state = "open" => orders'[o].status = "expired" /\ txns[t].deadline <= now
  PROVE  LeavesWell(o)
<1>1. \A c \in Goroutines : At(c, "ask") => call[c].order # o
  BY DEF Single, AskingFits, Asking, At
<1>2. \A u \in Txns : txns[u].state = "open" /\ txns[u].order = o => u = t
  BY DEF Single, OneTxn, Started
<1> QED BY <1>1, <1>2 DEF LeavesWell

LEMMA StatusEnds ==
  ASSUME Fit, NEW o \in Orders, NEW s, s # "pending", LeavesWell(o),
         orders' = [orders EXCEPT ![o] = SetStatus(orders[o], s)]
  PROVE  \A p \in Orders : LeavesWell(p) /\ StaysPending(p) /\ KeepsDeadline(p)
<1>1. \A p \in Orders \ {o} : orders'[p] = orders[p]
  BY DEF Fit, TypeOK
<1>2. orders'[o] = SetStatus(orders[o], s)
  BY DEF Fit, TypeOK
<1>3. StaysPending(o) /\ KeepsDeadline(o)
  BY <1>2, SetFields, SaleFields DEF StaysPending, KeepsDeadline
<1> QED BY <1>1, <1>3, SaleSame

LEMMA ExpiryEnds ==
  ASSUME Fit, Single, NEW o \in Orders, NEW t \in Txns, Started(t), txns[t].order = o,
         txns[t].state # "open" \/ txns[t].deadline <= now, orders' = Expired(o)
  PROVE  \A p \in Orders : LeavesWell(p) /\ StaysPending(p) /\ KeepsDeadline(p)
<1>1. CASE orders[o].status = "pending"
  <2>1. orders' = [orders EXCEPT ![o] = SetStatus(orders[o], "expired")]
    BY <1>1 DEF Expired
  <2>2. orders'[o].status = "expired"
    BY <2>1, SetFields DEF Fit, TypeOK
  <2> QED BY <2>1, <2>2, LeavesByTxn, StatusEnds
<1>2. CASE orders[o].status # "pending"
  BY <1>2, SaleSame DEF Expired
<1> QED BY <1>1, <1>2

LEMMA RequestPaymentLive ==
  ASSUME Fit, Single, Live, NEW b \in Buyers, NEW m \in Products, RequestPayment(b, m)
  PROVE  Live'
<1>1. UNCHANGED <<now, orders, txns>>
  BY DEF RequestPayment
<1>2. b \in Goroutines /\ Idle.step = "idle"
  BY DEF Goroutines, Idle, Holds
<1>3. \A o \in Orders : LeavesWell(o) /\ StaysPending(o) /\ KeepsDeadline(o)
  BY <1>1, SaleSame
<1>4. CASE Go(b, Wants("create", m, NoOrder, now))
  <2>1. PICK k : Go(b, k) /\ k.step = "create"
    BY <1>4 DEF Wants
  <2> QED BY <1>1, <1>2, <1>3, <2>1, FreeLive
<1>5. ASSUME NEW o \in Orders, GoOn(b, o, orders[o]) PROVE Live'
  <2>1. PICK k : Go(b, k) /\ k.step \in {"idle", "claim"}
    BY <1>5 DEF GoOn, Idle, Holds
  <2> QED BY <1>1, <1>2, <1>3, <2>1, FreeLive
<1>6. ASSUME NEW o \in Orders, HasPassed(orders[o].deadline, now),
             Go(b, Wants("expire", m, o, now))
      PROVE  Live'
  <2>1. PICK t \in Txns : t = orders[o].txn /\ Started(t)
    BY <1>6, RowFields DEF HasPassed, Fit, TypeOK, RowFits, Started
  <2>2. txns[t].order = o /\ txns[t].deadline <= now
    <3>1. orders[o].txn # NoTxn /\ TxnOwned(o) /\ DeadlineFits(o)
      BY <1>6, RowFields DEF HasPassed, Fit, TypeOK, Single, Live
    <3>2. orders[o].deadline \in Nat /\ txns[t].deadline \in Nat /\ now \in Nat
      BY <1>6, RowFields DEF HasPassed, Fit, TypeOK, Time
    <3> QED BY <1>6, <2>1, <3>1, <3>2 DEF TxnOwned, DeadlineFits, HasPassed
  <2>3. PICK k : Go(b, k) /\ k.step = "expire" /\ k.order = o
    BY <1>6 DEF Wants
  <2>4. call'[b] = k
    BY <1>2, <2>3 DEF Go, Fit, TypeOK
  <2>5. LinkFits(b)'
    BY <1>1, <2>1, <2>2, <2>3, <2>4 DEF LinkFits, At, Started
  <2> QED BY <1>1, <1>2, <1>3, <2>3, <2>5, GoOnLive
<1> QED BY <1>4, <1>5, <1>6 DEF RequestPayment, PendingFor

LEMMA MarkLive ==
  ASSUME Fit, NEW o \in Orders, NEW u,
         orders' = [orders EXCEPT ![o] = SetUncertain(orders[o], u)]
  PROVE  /\ orders'[o].status = orders[o].status
         /\ \A p \in Orders : LeavesWell(p) /\ StaysPending(p) /\ KeepsDeadline(p)
<1>1. orders'[o] = SetUncertain(orders[o], u) /\ \A p \in Orders \ {o} : orders'[p] = orders[p]
  BY DEF Fit, TypeOK
<1>2. /\ orders'[o].status = orders[o].status /\ orders'[o].product = orders[o].product
      /\ orders'[o].deadline = orders[o].deadline /\ orders'[o].txn = orders[o].txn
  BY <1>1, SetFields, SaleFields
<1> QED BY <1>1, <1>2, SaleSame

LEMMA FindPendingLive ==
  ASSUME Fit, Single, Live, NEW b \in Buyers, FindPendingPaymentOrder(b) PROVE Live'
<1>1. b \in Goroutines /\ Idle.step = "idle"
  BY DEF Goroutines, Idle, Holds
<1>2. PICK o \in Orders : o = call[b].order /\ orders' = Expired(o)
  BY <1>1 DEF Fit, CallFits, Known, FindPendingPaymentOrder, At
<1>3. PICK t \in Txns : Started(t) /\ txns[t].order = o /\ txns[t].deadline <= now
  BY <1>1, <1>2 DEF Live, LinkFits, FindPendingPaymentOrder
<1>4. \A p \in Orders : LeavesWell(p) /\ StaysPending(p) /\ KeepsDeadline(p)
  BY <1>2, <1>3, ExpiryEnds
<1>5. PICK k : Go(b, k) /\ k.step \in {"idle", "create"}
  BY <1>1 DEF FindPendingPaymentOrder, Wants, Return
<1> QED BY <1>1, <1>4, <1>5, FreeLive DEF FindPendingPaymentOrder

LEMMA CreateOrderLive ==
  ASSUME Fit, Single, Live, NEW b \in Buyers, FindOrCreatePendingPaymentOrder(b) PROVE Live'
<1> DEFINE m == call[b].product
           stale == {o \in PendingFor(m) :
                      ~orders[o].uncertain /\ HasPassed(orders[o].deadline, call[b].at)}
<1>1. b \in Goroutines /\ Idle.step = "idle"
  BY DEF Goroutines, Idle, Holds
<1>2. PICK k : Go(b, k) /\ k.step \in {"idle", "claim"}
  <2>1. \E o, r : GoOn(b, o, r)
    BY DEF FindOrCreatePendingPaymentOrder
  <2> QED BY <1>1, <2>1 DEF GoOn, Holds
<1>3. UNCHANGED <<now, txns>>
  BY DEF FindOrCreatePendingPaymentOrder
<1>4. CASE UNCHANGED orders
  BY <1>1, <1>2, <1>3, <1>4, SaleSame, FreeLive
<1>5. ASSUME NEW n \in Orders, IsNext(n), PendingFor(m) \subseteq stale,
             orders' = [o \in Orders |->
                                IF o = n THEN NewRow(m)
                                ELSE IF o \in stale THEN SetStatus(orders[o], "expired")
                                ELSE orders[o]]
      PROVE  Live'
  <2>1. orders[n].status = "none"
    BY <1>5, OrdersAssumption DEF IsNext
  <2>2. PICK old \in SUBSET Orders : old = stale
    BY DEF PendingFor
  <2>3. \A o \in old : /\ orders[o].status = "pending" /\ ~orders[o].uncertain
                       /\ HasPassed(orders[o].deadline, call[b].at)
    BY <2>2 DEF PendingFor
  <2>4. \A o \in Orders : orders[o].status = "pending" /\ orders[o].product = m => o \in old
    BY <1>5, <2>2 DEF PendingFor
  <2>5. /\ orders'[n] = NewRow(m)
        /\ \A o \in old : orders'[o] = SetStatus(orders[o], "expired")
        /\ \A o \in Orders \ (old \cup {n}) : orders'[o] = orders[o]
    <3> HIDE DEF m, stale
    <3>1. n \notin old
      BY <2>1, <2>3
    <3> QED BY <1>5, <2>2, <3>1
  <2> HIDE DEF m, stale
  <2>6. OnePending'
    <3>1. /\ orders'[n].status = "pending" /\ orders'[n].product = m
          /\ \A o \in old : orders'[o].status = "expired"
      BY <2>5, SetFields
    <3> QED BY <2>4, <2>5, <3>1 DEF Live, OnePending
  <2>7. LeavesWell(n)
    BY <1>1, <2>1 DEF LeavesWell, Fit, TypeOK, CallFits, TxnFits, Known, Started, At
  <2>8. KeepsDeadline(n)
    BY <2>5, SaleFields DEF KeepsDeadline
  <2>9. ASSUME NEW o \in old PROVE LeavesWell(o) /\ KeepsDeadline(o)
    <3>1. orders'[o].status = "expired" /\ KeepsDeadline(o)
      BY <2>5, SetFields, SaleFields DEF KeepsDeadline
    <3>2. PICK t \in Txns : t = orders[o].txn /\ Started(t)
      BY <2>3, RowFields DEF HasPassed, Fit, TypeOK, RowFits, Started
    <3>3. orders[o].txn # NoTxn /\ TxnOwned(o) /\ DeadlineFits(o) /\ CallFits(call[b])
      BY <1>1, <2>3, RowFields DEF HasPassed, Fit, TypeOK, Single, Live
    <3>4. /\ orders[o].deadline \in Nat /\ txns[t].deadline \in Nat /\ now \in Nat
          /\ call[b].at \in Nat
      BY <1>1, <2>3, RowFields DEF HasPassed, Fit, TypeOK, Time, Calls
    <3>5. txns[t].order = o /\ txns[t].deadline <= now
      BY <2>3, <3>2, <3>3, <3>4 DEF TxnOwned, DeadlineFits, HasPassed, CallFits
    <3> QED BY <3>1, <3>2, <3>5, LeavesByTxn
  <2>10. \A o \in Orders : LeavesWell(o) /\ KeepsDeadline(o)
    BY <2>5, <2>7, <2>8, <2>9, SaleSame
  <2>11. LinkFits(b)'
    BY <1>1, <1>2 DEF LinkFits, At, Go, Fit, TypeOK
  <2> QED BY <1>1, <1>2, <1>3, <2>6, <2>10, <2>11, GoLive
<1> QED BY <1>4, <1>5 DEF FindOrCreatePendingPaymentOrder

LEMMA ClaimLive ==
  ASSUME Fit, Single, Live, NEW b \in Buyers, ClaimCreation(b) PROVE Live'
<1>1. b \in Goroutines
  BY DEF Goroutines
<1>2. PICK o \in Orders : o = call[b].order
  BY <1>1 DEF Fit, CallFits, Known, ClaimCreation, At
<1>3. CASE Claimable(orders[o])
  <2>1. /\ orders' = [orders EXCEPT ![o] = SetUncertain(orders[o], TRUE)]
        /\ UNCHANGED <<now, txns>>
    BY <1>2, <1>3 DEF ClaimCreation
  <2>2. \A p \in Orders : LeavesWell(p) /\ StaysPending(p) /\ KeepsDeadline(p)
    BY <2>1, MarkLive
  <2>3. PICK k : Go(b, k) /\ k.step = "ask" /\ k.order = o
    BY <1>2, <1>3 DEF ClaimCreation, Goto, Holds
  <2>4. orders'[o].status = "pending"
    BY <1>3, <2>1, MarkLive DEF Claimable
  <2>5. call'[b] = k
    BY <1>1, <2>3 DEF Go, Fit, TypeOK
  <2>6. LinkFits(b)'
    BY <2>3, <2>4, <2>5 DEF LinkFits, At
  <2> QED BY <1>1, <2>1, <2>2, <2>3, <2>6, GoOnLive
<1>4. CASE ~Claimable(orders[o])
  BY <1>1, <1>2, <1>4, SaleSame, ReturnLive DEF ClaimCreation
<1> QED BY <1>3, <1>4

LEMMA CreateTransactionLive ==
  ASSUME Fit, Single, Live, NEW b \in Buyers, CreateTransaction(b) PROVE Live'
<1>1. b \in Goroutines
  BY DEF Goroutines
<1>2. PICK o \in Orders : o = call[b].order
  BY <1>1 DEF Fit, CallFits, Known, CreateTransaction, At
<1>3. PICK t \in Txns :
        /\ Unused(t)
        /\ txns' = [txns EXCEPT ![t] = [order |-> o, state |-> "open", deadline |-> now + LinkTTL]]
        /\ call' = [call EXCEPT ![b] = Holds("save", o, t, NoRow, now)]
        /\ UNCHANGED <<now, orders>>
  BY <1>2 DEF CreateTransaction, Go
<1>4. orders[o].status = "pending"
  BY <1>1, <1>2 DEF Live, LinkFits, CreateTransaction
<1>5. \A p \in Orders : LeavesWell(p) /\ StaysPending(p) /\ KeepsDeadline(p)
  BY <1>3, SaleSame
<1>6. \A u \in Txns : KeepsTxn(u)
  <2>1. txns'[t].order = o /\ \A u \in Txns \ {t} : txns'[u] = txns[u]
    BY <1>3 DEF Fit, TypeOK
  <2>2. KeepsTxn(t)
    BY <1>3, <1>4, <2>1 DEF KeepsTxn, Started, Unused
  <2> QED BY <2>1, <2>2 DEF KeepsTxn, Started
<1>7. LinkFits(b)'
  <2>1. call'[b].step = "save" /\ call'[b].txn = t /\ call'[b].at = now
    BY <1>1, <1>3 DEF Holds, Fit, TypeOK
  <2>2. txns'[t].deadline = now + LinkTTL
    BY <1>3 DEF Fit, TypeOK
  <2> QED BY <2>1, <2>2 DEF LinkFits, At
<1>8. \A c \in Goroutines : KeepsLink(c)
  BY <1>3, <1>7 DEF KeepsLink, Fit, TypeOK
<1>9. OnePending'
  BY <1>3 DEF Live, OnePending
<1> QED BY <1>3, <1>5, <1>6, <1>8, <1>9, LiveKept DEF Fit, TypeOK

LEMMA ClearLive ==
  ASSUME Fit, Single, Live, NEW b \in Buyers, ClearUncertain(b) PROVE Live'
<1>1. b \in Goroutines
  BY DEF Goroutines
<1>2. PICK o \in Orders : o = call[b].order
  BY <1>1 DEF Fit, CallFits, Known, ClearUncertain, At
<1>3. orders' = orders \/ orders' = [orders EXCEPT ![o] = SetUncertain(orders[o], FALSE)]
  BY <1>2 DEF ClearUncertain
<1>4. \A p \in Orders : LeavesWell(p) /\ StaysPending(p) /\ KeepsDeadline(p)
  BY <1>3, SaleSame, MarkLive
<1> QED BY <1>1, <1>4, ReturnLive DEF ClearUncertain

LEMMA SaveLive ==
  ASSUME Fit, Single, Live, NEW b \in Buyers, SavePaymentDetails(b) PROVE Live'
<1>1. b \in Goroutines
  BY DEF Goroutines
<1>2. PICK o \in Orders : o = call[b].order
  BY <1>1 DEF Fit, CallFits, Known, SavePaymentDetails, At
<1>3. PICK t \in Txns : t = call[b].txn /\ Started(t)
  BY <1>1 DEF Fit, CallFits, Started, SavePaymentDetails, At
<1>4. CASE orders[o].status = "pending"
  <2>1. PICK received \in call[b].at .. now :
          orders' = [orders EXCEPT ![o] =
            Row("pending", orders[o].product, FALSE, t, received + LinkTTL, orders[o].expires)]
    BY <1>2, <1>3, <1>4 DEF SavePaymentDetails
  <2>2. /\ orders'[o].status = "pending" /\ orders'[o].product = orders[o].product
        /\ orders'[o].txn = t /\ orders'[o].deadline = received + LinkTTL
        /\ \A p \in Orders \ {o} : orders'[p] = orders[p]
    BY <2>1 DEF Row, Fit, TypeOK
  <2>3. txns[t].deadline = call[b].at + LinkTTL
    BY <1>1, <1>3 DEF Live, LinkFits, SavePaymentDetails
  <2>4. received + LinkTTL >= txns[t].deadline
    BY <1>1, <2>1, <2>3, TimesAssumption DEF Fit, TypeOK, Calls
  <2>5. LeavesWell(o) /\ StaysPending(o) /\ KeepsDeadline(o)
    BY <1>3, <1>4, <2>2, <2>4 DEF LeavesWell, StaysPending, KeepsDeadline
  <2> QED BY <1>1, <2>2, <2>5, SaleSame, ReturnLive DEF SavePaymentDetails
<1>5. CASE orders[o].status # "pending"
  BY <1>1, <1>2, <1>5, SaleSame, ReturnLive DEF SavePaymentDetails
<1> QED BY <1>4, <1>5

LEMMA RequestLive ==
  ASSUME Fit, Single, Live, NEW b \in Buyers, Request(b) PROVE Live'
<1>1. b \in Goroutines
  BY DEF Goroutines
<1>2. CASE Decline(b)
  BY <1>1, <1>2, SaleSame, ReturnLive DEF Decline
<1>3. CASE RefuseTransaction(b)
  <2>1. PICK k : Go(b, k) /\ k.step = "clear"
    BY <1>3 DEF RefuseTransaction, Goto, Holds
  <2> QED BY <1>1, <1>3, <2>1, SaleSame, FreeLive DEF RefuseTransaction
<1> QED BY <1>2, <1>3, FindPendingLive, CreateOrderLive, ClaimLive, CreateTransactionLive,
           ClearLive, SaveLive DEF Request

LEMMA ProviderLive ==
  ASSUME Fit, Single, Live, NEW t \in Txns, Pay(t) \/ Close(t) \/ TakeBack(t) PROVE Live'
<1>1. UNCHANGED <<now, orders, call>>
  BY DEF Pay, Close, TakeBack
<1>2. \A u \in Txns : KeepsTxn(u)
  BY DEF Pay, Close, TakeBack, Payable, SetState, KeepsTxn, Started, Fit, TypeOK
<1>3. \A o \in Orders : LeavesWell(o) /\ KeepsDeadline(o)
  BY <1>1, SaleSame
<1>4. \A c \in Goroutines : KeepsLink(c)
  BY <1>1 DEF KeepsLink
<1> QED BY <1>1, <1>2, <1>3, <1>4, LiveKept DEF Fit, TypeOK, Live, OnePending

LEMMA LookupLive ==
  ASSUME Fit, Single, Live, NEW c \in Goroutines, NEW t \in Txns, Lookup(c, t) PROVE Live'
<1>1. PICK k : Go(c, k) /\ k.step \in {"payload", "check"}
  <2>1. \/ Go(c, Holds("payload", NoOrder, t, NoRow, 0))
        \/ \E o \in Orders : Go(c, Holds("check", o, t, orders[o], 0))
    BY DEF Lookup
  <2>2. /\ Holds("payload", NoOrder, t, NoRow, 0).step = "payload"
        /\ \A o \in Orders : Holds("check", o, t, orders[o], 0).step = "check"
    BY DEF Holds
  <2> QED BY <2>1, <2>2
<1> QED BY <1>1, SaleSame, FreeLive DEF Lookup

LEMMA AttachLive ==
  ASSUME Fit, Single, Live, NEW c \in Goroutines, AttachProviderPaymentID(c) PROVE Live'
<1>1. PICK o \in Orders : o = call[c].order
  BY DEF Fit, CallFits, AttachProviderPaymentID, At, Known
<1>2. PICK k : Go(c, k) /\ k.step \in {"check", "idle"}
  BY DEF AttachProviderPaymentID, Goto, Return, Idle, Holds
<1>3. CASE orders[o].txn # NoTxn
  BY <1>1, <1>2, <1>3, SaleSame, FreeLive DEF AttachProviderPaymentID
<1>4. CASE orders[o].txn = NoTxn
  <2>1. orders' = [orders EXCEPT ![o] = SetTxn(orders[o], call[c].txn)]
    BY <1>1, <1>4 DEF AttachProviderPaymentID
  <2>2. /\ orders'[o] = SetTxn(orders[o], call[c].txn)
        /\ \A p \in Orders \ {o} : orders'[p] = orders[p]
    BY <2>1 DEF Fit, TypeOK
  <2>3. orders'[o].deadline = NoTime
    BY <1>4, <2>2, RowFields, SaleFields DEF Fit, TypeOK
  <2>4. LeavesWell(o) /\ StaysPending(o) /\ KeepsDeadline(o)
    BY <2>2, <2>3, SetFields DEF LeavesWell, StaysPending, KeepsDeadline
  <2> QED BY <1>2, <2>2, <2>4, SaleSame, FreeLive DEF AttachProviderPaymentID
<1> QED BY <1>3, <1>4

LEMMA ConfirmOrderPaidLive ==
  ASSUME Fit, Single, Live, NEW c \in Goroutines, ConfirmOrderPaidCAS(c) PROVE Live'
<1>1. PICK o \in Orders : o = call[c].order
  BY DEF Fit, CallFits, ConfirmOrderPaidCAS, At, Known
<1>2. PICK t \in Txns : t = call[c].txn /\ Started(t)
  BY DEF Fit, CallFits, ConfirmOrderPaidCAS, At, Started
<1>3. SaysConfirmed(t) /\ orders[o].txn = t /\ txns[t].order = o
  BY <1>1, <1>2, NullAssumption DEF Single, HandlingFits, TxnOwned, ConfirmOrderPaidCAS, At
<1>4. CASE orders[o].status \in {"pending", "expired"}
  <2>1. PICK e : orders' = [orders EXCEPT ![o] =
                   Row("paid", orders[o].product, orders[o].uncertain, orders[o].txn,
                       orders[o].deadline, e)]
    BY <1>1, <1>4 DEF ConfirmOrderPaidCAS
  <2>2. /\ orders'[o].status = "paid" /\ orders'[o].deadline = orders[o].deadline
        /\ orders'[o].txn = orders[o].txn
        /\ \A p \in Orders \ {o} : orders'[p] = orders[p]
    BY <2>1 DEF Row, Fit, TypeOK
  <2>3. LeavesWell(o)
    BY <1>2, <1>3, LeavesByTxn DEF SaysConfirmed
  <2>4. StaysPending(o) /\ KeepsDeadline(o)
    BY <2>2 DEF StaysPending, KeepsDeadline
  <2> QED BY <2>2, <2>3, <2>4, SaleSame, ReturnLive DEF ConfirmOrderPaidCAS
<1>5. CASE orders[o].status \notin {"pending", "expired"}
  BY <1>1, <1>5, SaleSame, ReturnLive DEF ConfirmOrderPaidCAS
<1> QED BY <1>4, <1>5

LEMMA HandleLive ==
  ASSUME Fit, Single, Live, NEW c \in Goroutines, Handle(c) PROVE Live'
<1>1. CASE OrderByCallbackPayload(c)
  <2>1. PICK k : Go(c, k) /\ k.step \in {"attach", "idle"}
    BY <1>1 DEF OrderByCallbackPayload, Return, Idle, Holds
  <2> QED BY <1>1, <2>1, SaleSame, FreeLive DEF OrderByCallbackPayload
<1>2. CASE CheckConfirmation(c)
  <2>1. PICK k : Go(c, k) /\ k.step \in {"confirm", "idle"}
    BY <1>2 DEF CheckConfirmation, Return, Idle, Holds
  <2> QED BY <1>2, <2>1, SaleSame, FreeLive DEF CheckConfirmation
<1> QED BY <1>1, <1>2, AttachLive, ConfirmOrderPaidLive DEF Handle

LEMMA CancelLive ==
  ASSUME Fit, Single, Live, NEW h \in Hooks, NEW t \in Txns, CancelPaymentByProvider(h, t)
  PROVE  Live'
<1>1. PICK o \in Orders :
        /\ orders[o].txn = t
        /\ \/ SaysCanceled(t) /\ CancelOrderCAS(o)
           \/ SaysChargedBack(t) /\ CancelPaidOrderAndDowngradeCAS(o)
  BY DEF CancelPaymentByProvider
<1>2. UNCHANGED <<now, txns, call>>
  BY DEF CancelPaymentByProvider
<1>3. Started(t) /\ txns[t].order = o /\ txns[t].state # "open"
  BY <1>1, NullAssumption DEF Started, SaysCanceled, SaysChargedBack, Single, TxnOwned
<1>4. orders' = orders \/ orders' = [orders EXCEPT ![o] = SetStatus(orders[o], "canceled")]
  BY <1>1 DEF CancelOrderCAS, CancelPaidOrderAndDowngradeCAS
<1>5. LeavesWell(o)
  BY <1>3, LeavesByTxn
<1>6. \A p \in Orders : LeavesWell(p) /\ StaysPending(p) /\ KeepsDeadline(p)
  BY <1>4, <1>5, SaleSame, StatusEnds
<1>7. (\A u \in Txns : KeepsTxn(u)) /\ \A c \in Goroutines : KeepsLink(c)
  BY <1>2 DEF KeepsTxn, Started, KeepsLink
<1>8. OnePending'
  BY <1>6 DEF StaysPending, Live, OnePending
<1> QED BY <1>2, <1>6, <1>7, <1>8, LiveKept DEF Fit, TypeOK

LEMMA ReconcileOrderLive ==
  ASSUME Fit, Single, Live, NEW o \in Orders, ReconcilePendingOrder(o) PROVE Live'
<1>1. PICK t : t = orders[o].txn
  OBVIOUS
<1>2. Worker \in Goroutines /\ UNCHANGED <<now, orders, txns>>
  BY DEF Goroutines, ReconcilePendingOrder
<1>3. CASE Go(Worker, Holds("lookup", o, t, NoRow, 0))
  <2>1. PICK k : Go(Worker, k) /\ k.step = "lookup"
    BY <1>3 DEF Holds
  <2> QED BY <1>2, <2>1, SaleSame, FreeLive
<1>4. CASE txns[t].state = "canceled" /\ Go(Worker, Holds("lapse", o, t, NoRow, 0))
  <2>1. t \in Txns /\ txns[t].order = o
    BY <1>1, RowFields DEF ReconcilePendingOrder, Stale, Single, TxnOwned, Fit, TypeOK,
                           RowFits, Started
  <2>2. PICK k : Go(Worker, k) /\ k.step = "lapse" /\ k.order = o
    BY <1>4 DEF Holds
  <2>3. call'[Worker] = k
    BY <1>2, <2>2 DEF Go, Fit, TypeOK
  <2>4. LinkFits(Worker)'
    BY <1>2, <1>4, <2>1, <2>2, <2>3 DEF LinkFits, At
  <2> QED BY <1>2, <2>2, <2>4, SaleSame, GoOnLive
<1> QED BY <1>1, <1>3, <1>4 DEF ReconcilePendingOrder

LEMMA ExpirePendingLive == ASSUME Fit, Single, Live, ExpirePendingOrder PROVE Live'
<1>1. Worker \in Goroutines
  BY DEF Goroutines
<1>2. PICK o \in Orders : o = call[Worker].order /\ orders' = Expired(o)
  BY <1>1 DEF Fit, CallFits, Known, ExpirePendingOrder, At
<1>3. PICK t \in Txns : txns[t].order = o /\ txns[t].state = "canceled"
  BY <1>1, <1>2 DEF Live, LinkFits, ExpirePendingOrder
<1>4. \A p \in Orders : LeavesWell(p) /\ StaysPending(p) /\ KeepsDeadline(p)
  BY <1>2, <1>3, ExpiryEnds DEF Started
<1> QED BY <1>1, <1>4, ReturnLive DEF ExpirePendingOrder

LEMMA LiveStep == ASSUME Fit, Single, Live, [Next]_vars PROVE Live'
<1>1. CASE UNCHANGED <<orders, txns, call>> /\ now' \in {now, now + 1}
  <2>1. \A o \in Orders : LeavesWell(o) /\ KeepsDeadline(o)
    BY <1>1, SaleSame
  <2>2. (\A u \in Txns : KeepsTxn(u)) /\ \A c \in Goroutines : KeepsLink(c)
    BY <1>1 DEF KeepsTxn, Started, KeepsLink
  <2>3. OnePending' /\ now' \in Nat /\ now' >= now
    BY <1>1 DEF Live, OnePending, Fit, TypeOK
  <2> QED BY <2>1, <2>2, <2>3, LiveKept
<1>2. ASSUME NEW b \in Buyers, Request(b) \/ \E m \in Products : RequestPayment(b, m)
      PROVE  Live'
  BY <1>2, RequestLive, RequestPaymentLive
<1>3. ASSUME NEW h \in Hooks, NEW t \in Txns, ConfirmPayment(h, t) PROVE Live'
  BY <1>3, LookupLive DEF ConfirmPayment, Goroutines
<1>4. ASSUME NEW h \in Hooks, NEW t \in Txns, CancelPaymentByProvider(h, t) PROVE Live'
  BY <1>4, CancelLive
<1>5. ASSUME NEW o \in Orders, ReconcilePendingOrder(o) PROVE Live'
  BY <1>5, ReconcileOrderLive
<1>6. CASE ReconcileConfirmed
  <2>1. call[Worker].txn \in Txns /\ Worker \in Goroutines
    BY <1>6 DEF Fit, CallFits, Started, ReconcileConfirmed, At, Goroutines
  <2> QED BY <1>6, <2>1, LookupLive DEF ReconcileConfirmed
<1>7. CASE ExpirePendingOrder
  BY <1>7, ExpirePendingLive
<1>8. ASSUME NEW c \in Hooks \cup {Worker}, Handle(c) PROVE Live'
  BY <1>8, HandleLive DEF Goroutines
<1>9. ASSUME NEW c \in Goroutines, Fail(c) PROVE Live'
  BY <1>9, SaleSame, ReturnLive DEF Fail
<1>10. ASSUME NEW t \in Txns, Pay(t) \/ Close(t) \/ TakeBack(t) PROVE Live'
  BY <1>10, ProviderLive
<1> QED
  BY <1>1, <1>2, <1>3, <1>4, <1>5, <1>6, <1>7, <1>8, <1>9, <1>10
     DEF Next, Reconcile, ExpireSubscription, Revoke, Tick, vars

LEMMA LiveHolds == Spec => []Live
<1>1. Init => Live
  <2>1. Idle.step = "idle" /\ NoRow.status = "none" /\ NoRow.deadline = NoTime
    BY DEF Idle, Holds, NoRow, Row
  <2> QED BY <2>1 DEF Init, Live, OnePending, LinkFits, At, DeadlineFits, OpenFits
<1>2. Fit /\ Single /\ Live /\ [Next]_vars => Live'
  BY LiveStep
<1> QED BY <1>1, <1>2, FitHolds, SingleHolds, PTL DEF Spec

(* A customer never has two links for one product that can both be paid.   *)
THEOREM OneLink == Spec => []OneLivePayment
<1>1. Fit /\ Single /\ Live => OneLivePayment
  <2> SUFFICES ASSUME Fit, Single, Live, NEW t \in Txns, NEW u \in Txns,
                      Payable(t), Payable(u),
                      orders[txns[t].order].product = orders[txns[u].order].product
               PROVE  t = u
    BY DEF OneLivePayment
  <2>1. ASSUME NEW v \in Txns, Payable(v)
        PROVE  /\ Started(v) /\ txns[v].order \in Orders
               /\ orders[txns[v].order].status = "pending"
    <3>1. Started(v) /\ OpenFits(v) /\ TxnFits(v) /\ txns[v].state = "open"
      BY <2>1 DEF Live, Fit, Payable, Started
    <3>2. now < txns[v].deadline /\ now \in Nat /\ txns[v].deadline \in Nat
      BY <2>1 DEF Fit, TypeOK, Payable
    <3> QED BY <3>1, <3>2 DEF OpenFits, TxnFits, Known
  <2>2. txns[t].order = txns[u].order
    BY <2>1 DEF Live, OnePending
  <2> QED BY <2>1, <2>2 DEF Single, OneTxn
<1> QED BY <1>1, FitHolds, SingleHolds, LiveHolds, PTL

--------------------------------------------------------------------------------
(* lockPayment: who looks at, checks or confirms a transaction holds it.    *)
Inside == {"payload", "attach", "check", "confirm"}
Holding(t) == {c \in Goroutines : call[c].txn = t /\ call[c].step \in Inside}

Exclusive == \A c, d \in Goroutines :
               /\ call[c].step \in Inside /\ call[d].step \in Inside
               /\ call[c].txn = call[d].txn
               => c = d

(* Goroutine c moved to k: it entered no lock but a free one, and did not   *)
(* change locks inside.                                                     *)
Turn(c, k) == /\ Go(c, k)
              /\ k.step \in Inside => IF call[c].step \in Inside THEN k.txn = call[c].txn
                                      ELSE k.txn \in Txns /\ ~Locked(k.txn)

LEMMA HoldsFields ==
  /\ \A s, o, t, r, n : Holds(s, o, t, r, n).step = s /\ Holds(s, o, t, r, n).txn = t
                        /\ Holds(s, o, t, r, n).row = r /\ Holds(s, o, t, r, n).order = o
  /\ \A s, m, o, n : Wants(s, m, o, n).step = s
  /\ Idle.step = "idle"
BY DEF Holds, Wants, Idle

LEMMA RequestTurns ==
  ASSUME NEW c \in Goroutines, Request(c) \/ \E m \in Products : RequestPayment(c, m)
  PROVE  \E k : Go(c, k) /\ k.step \notin Inside
<1>1. ASSUME NEW o, NEW row, GoOn(c, o, row) PROVE \E k : Go(c, k) /\ k.step \notin Inside
  BY <1>1, HoldsFields DEF GoOn, Inside
<1>2. CASE FindOrCreatePendingPaymentOrder(c) \/ \E m \in Products : RequestPayment(c, m)
  BY <1>1, <1>2, HoldsFields DEF FindOrCreatePendingPaymentOrder, RequestPayment, Inside
<1>3. CASE CreateTransaction(c) \/ FindPendingPaymentOrder(c) \/ Decline(c)
  BY <1>3, HoldsFields DEF CreateTransaction, FindPendingPaymentOrder, Decline, Return, Inside
<1>4. CASE ClaimCreation(c) \/ RefuseTransaction(c) \/ ClearUncertain(c) \/ SavePaymentDetails(c)
  <2>1. Goto(c, "ask") \/ Goto(c, "clear") \/ Return(c)
    BY <1>4 DEF ClaimCreation, RefuseTransaction, ClearUncertain, SavePaymentDetails
  <2> QED BY <2>1, HoldsFields DEF Return, Goto, Inside
<1> QED BY <1>2, <1>3, <1>4 DEF Request

LEMMA HandleTurns ==
  ASSUME NEW c \in Goroutines, Handle(c)
  PROVE  \E k : Turn(c, k)
<1>1. \A k : k.step = "idle" /\ Go(c, k) => Turn(c, k)
  BY DEF Turn, Inside
<1>2. CASE OrderByCallbackPayload(c)
  BY <1>1, <1>2, HoldsFields DEF OrderByCallbackPayload, Return, At, Turn, Inside
<1>3. CASE AttachProviderPaymentID(c)
  BY <1>1, <1>3, HoldsFields DEF AttachProviderPaymentID, Return, Goto, At, Turn, Inside
<1>4. CASE CheckConfirmation(c)
  BY <1>1, <1>4, HoldsFields DEF CheckConfirmation, Return, At, Turn, Inside
<1>5. CASE ConfirmOrderPaidCAS(c)
  BY <1>1, <1>5, HoldsFields DEF ConfirmOrderPaidCAS, Return
<1> QED BY <1>2, <1>3, <1>4, <1>5 DEF Handle

LEMMA LookupTurns ==
  ASSUME NEW c \in Goroutines, NEW t \in Txns, call[c].step \notin Inside, Lookup(c, t)
  PROVE  \E k : Turn(c, k)
BY HoldsFields DEF Lookup, Turn

LEMMA StepTurns ==
  ASSUME Fit, [Next]_vars
  PROVE  call' = call \/ \E c \in Goroutines : \E k : Turn(c, k)
<1>1. \A c, k : Go(c, k) /\ k.step \notin Inside => Turn(c, k)
  BY DEF Turn
<1>2. ASSUME NEW b \in Buyers, Request(b) \/ \E m \in Products : RequestPayment(b, m)
      PROVE  \E k : Turn(b, k)
  BY <1>1, <1>2, RequestTurns DEF Goroutines
<1>3. ASSUME NEW h \in Hooks, NEW t \in Txns, ConfirmPayment(h, t)
      PROVE  \E k : Turn(h, k)
  BY <1>3, LookupTurns DEF ConfirmPayment, At, Inside, Goroutines
<1>4. Worker \in Goroutines
  BY DEF Goroutines
<1>5. CASE ReconcileConfirmed
  BY <1>4, <1>5, LookupTurns DEF ReconcileConfirmed, At, Inside, Fit, CallFits, Started
<1>6. CASE ExpirePendingOrder \/ \E o \in Orders : ReconcilePendingOrder(o)
  BY <1>1, <1>4, <1>6, HoldsFields DEF ExpirePendingOrder, ReconcilePendingOrder, Return, Inside
<1>7. ASSUME NEW c \in Hooks \cup {Worker}, Handle(c) PROVE \E k : Turn(c, k)
  BY <1>7, HandleTurns DEF Goroutines
<1>8. ASSUME NEW c \in Goroutines, Fail(c) PROVE \E k : Turn(c, k)
  BY <1>1, <1>8, HoldsFields DEF Fail, Return, Inside
<1>9. CASE \/ \E h \in Hooks, t \in Txns : CancelPaymentByProvider(h, t)
           \/ \E t \in Txns : Pay(t) \/ Close(t) \/ TakeBack(t)
           \/ ExpireSubscription \/ Revoke \/ Tick \/ UNCHANGED vars
  BY <1>9 DEF CancelPaymentByProvider, Pay, Close, TakeBack, ExpireSubscription, Revoke, Tick,
              vars
<1> QED BY <1>2, <1>3, <1>4, <1>5, <1>6, <1>7, <1>8, <1>9 DEF Next, Reconcile, Goroutines

Holders == [t \in Txns |-> Holding(t)]
Mutex == INSTANCE KeyedMutex WITH Procs <- Goroutines, Keys <- Txns, holders <- Holders

LEMMA TurnKeepsOut ==
  ASSUME Fit, Exclusive, NEW c \in Goroutines, NEW k, Turn(c, k)
  PROVE  Exclusive'
<1>1. call'[c] = k /\ \A d \in Goroutines \ {c} : call'[d] = call[d]
  BY DEF Turn, Go, Fit, TypeOK
<1>2. ASSUME NEW d \in Goroutines \ {c}, call[d].step \in Inside, k.step \in Inside
      PROVE  k.txn # call[d].txn
  BY <1>2 DEF Turn, Exclusive, Locked, Inside
<1> QED BY <1>1, <1>2 DEF Exclusive

LEMMA TurnIsMutex ==
  ASSUME Fit, Exclusive, NEW c \in Goroutines, NEW k, Turn(c, k)
  PROVE  [Mutex!Next]_Holders
<1>1. call'[c] = k /\ \A d \in Goroutines \ {c} : call'[d] = call[d]
  BY DEF Turn, Go, Fit, TypeOK
<1>2. \A t : Holding(t) \ {c} = Holding(t)' \ {c}
  BY <1>1 DEF Holding
<1>3. CASE \A t \in Txns : c \in Holding(t) <=> c \in Holding(t)'
  <2>1. \A t \in Txns : Holding(t)' = Holding(t)
    BY <1>2, <1>3
  <2> QED BY <2>1 DEF Holders
<1>4. ASSUME NEW t \in Txns, c \in Holding(t), c \notin Holding(t)'
      PROVE  Mutex!GiveBack(c, t)
  <2>1. Holding(t)' = Holding(t) \ {c}
    BY <1>2, <1>4
  <2>2. \A u \in Txns \ {t} : c \notin Holding(u) /\ c \notin Holding(u)'
    BY <1>1, <1>4 DEF Holding, Turn
  <2>3. \A u \in Txns \ {t} : Holding(u)' = Holding(u)
    BY <1>2, <2>2
  <2> QED BY <1>4, <2>1, <2>3 DEF Mutex!GiveBack, Holders
<1>5. ASSUME NEW t \in Txns, c \notin Holding(t), c \in Holding(t)'
      PROVE  Mutex!Take(c, t)
  <2>1. k.txn = t /\ k.step \in Inside /\ call[c].step \notin Inside
    BY <1>1, <1>5 DEF Holding, Turn
  <2>2. Holding(t) = {} /\ Holding(t)' = {c}
    BY <1>2, <1>5, <2>1 DEF Turn, Locked, Holding, Inside
  <2>3. \A u \in Txns \ {t} : c \notin Holding(u) /\ c \notin Holding(u)'
    BY <1>1, <2>1 DEF Holding
  <2>4. \A u \in Txns \ {t} : Holding(u)' = Holding(u)
    BY <1>2, <2>3
  <2> QED BY <2>2, <2>4 DEF Mutex!Take, Holders
<1> QED BY <1>3, <1>4, <1>5 DEF Mutex!Next

LEMMA ExclusiveHolds == Spec => []Exclusive
<1>1. Init => Exclusive
  BY HoldsFields DEF Init, Exclusive, Inside
<1>2. Fit /\ Exclusive /\ [Next]_vars => Exclusive'
  BY StepTurns, TurnKeepsOut DEF Exclusive
<1> QED BY <1>1, <1>2, FitHolds, PTL DEF Spec

(* Callbacks and the reconciling worker use the payment's lock as           *)
(* KeyedMutex describes it, whichever of them fails on the way: two of them *)
(* never look at, check or confirm the same transaction side by side.       *)
THEOREM PaymentLockImplemented == Spec => Mutex!Spec
<1>1. Init => Mutex!Init
  BY HoldsFields DEF Init, Mutex!Init, Inside, Holding, Holders
<1>2. Fit /\ Exclusive /\ [Next]_vars => [Mutex!Next]_Holders
  BY StepTurns, TurnIsMutex DEF Holders, Holding
<1> QED BY <1>1, <1>2, FitHolds, ExclusiveHolds, PTL DEF Spec, Mutex!Spec

--------------------------------------------------------------------------------
(* What the lock is for.  An order leaves pending and expired by a          *)
(* confirmation or a cancellation, and both hold the lock of its            *)
(* transaction; an order without a transaction is in either state.          *)
Unsettled == {"pending", "expired"}

Unattached(o) == orders[o].txn = NoTxn => orders[o].status \in Unsettled \cup {"none"}

CheckStands(c) ==
  LET k == call[c] IN
  /\ k.step = "check" /\ k.row.status \in Unsettled => orders[k.order].status \in Unsettled
  /\ k.step = "confirm" => orders[k.order].status \in Unsettled

Settling == /\ \A o \in Orders : Unattached(o)
            /\ \A c \in Goroutines : CheckStands(c)

SettledBy(o) == \/ \E c \in Goroutines : ConfirmOrderPaidCAS(c) /\ call[c].order = o
                \/ \E h \in Hooks, t \in Txns :
                     CancelPaymentByProvider(h, t) /\ orders[o].txn = t

RowMoves(o) == /\ orders'[o].txn = NoTxn => orders[o].txn = NoTxn
               /\ \/ orders'[o].status = orders[o].status
                  \/ orders'[o].status \in Unsettled
                  \/ SettledBy(o)

LEMMA RowsStay ==
  ASSUME UNCHANGED orders, NEW o \in Orders PROVE RowMoves(o)
BY DEF RowMoves

LEMMA LapseMoves ==
  ASSUME Fit, NEW p \in Orders, orders' = Expired(p), NEW o \in Orders
  PROVE  RowMoves(o)
BY SetMarks, SetFields DEF Fit, TypeOK, Expired, RowMoves, Unsettled

LEMMA CreateMoves ==
  ASSUME Fit, NEW b \in Buyers, FindOrCreatePendingPaymentOrder(b), NEW o \in Orders
  PROVE  RowMoves(o)
<1> DEFINE m == call[b].product
           stale == {p \in PendingFor(m) :
                      ~orders[p].uncertain /\ HasPassed(orders[p].deadline, call[b].at)}
<1>1. ASSUME NEW n \in Orders, IsNext(n),
             orders' = [p \in Orders |->
                                IF p = n THEN NewRow(m)
                                ELSE IF p \in stale THEN SetStatus(orders[p], "expired")
                                ELSE orders[p]]
      PROVE  RowMoves(o)
  <2>1. orders[n].txn = NoTxn
    BY <1>1, OrdersAssumption, SetMarks DEF IsNext, Fit, RowFits
  <2> HIDE DEF m, stale
  <2>2. CASE o = n
    BY <1>1, <2>1, <2>2, SetFields DEF RowMoves, Unsettled
  <2>3. CASE o # n
    BY <1>1, <2>3, SetMarks, SetFields DEF RowMoves, Unsettled
  <2> QED BY <2>2, <2>3
<1> QED BY <1>1, RowsStay DEF FindOrCreatePendingPaymentOrder

LEMMA OneRowMoves ==
  ASSUME Fit, NEW p, NEW row, orders' = [orders EXCEPT ![p] = row],
         row.status = orders[p].status \/ row.status \in Unsettled,
         row.txn = NoTxn => orders[p].txn = NoTxn, NEW o \in Orders
  PROVE  RowMoves(o)
<1>1. orders'[o] = IF o = p THEN row ELSE orders[o]
  BY DEF Fit, TypeOK
<1> QED BY <1>1 DEF RowMoves

LEMMA ColumnMoves ==
  ASSUME Fit, NEW c \in Goroutines,
         \/ ClaimCreation(c) \/ ClearUncertain(c) \/ SavePaymentDetails(c)
         \/ AttachProviderPaymentID(c),
         NEW o \in Orders
  PROVE  RowMoves(o)
<1> DEFINE p == call[c].order
<1>1. \A r, x : SetUncertain(r, x).status = r.status /\ SetUncertain(r, x).txn = r.txn
                /\ SetTxn(r, x).status = r.status /\ SetTxn(r, x).txn = x
  BY DEF SetUncertain, SetTxn, Row
<1>2. call[c].step \in {"save", "attach"} => call[c].txn # NoTxn
  BY NullAssumption DEF Fit, CallFits, Started
<1>3. \/ UNCHANGED orders
      \/ \E row : /\ orders' = [orders EXCEPT ![p] = row]
                  /\ row.status = orders[p].status \/ row.status \in Unsettled
                  /\ row.txn = NoTxn => orders[p].txn = NoTxn
  <2>1. CASE ClaimCreation(c) \/ ClearUncertain(c)
    <3>1. \/ UNCHANGED orders
          \/ \E u : orders' = [orders EXCEPT ![p] = SetUncertain(orders[p], u)]
      BY <2>1 DEF ClaimCreation, ClearUncertain
    <3> QED BY <1>1, <3>1
  <2>2. CASE SavePaymentDetails(c)
    <3>1. \/ UNCHANGED orders
          \/ \E m, d, e : orders' = [orders EXCEPT ![p] =
                                        Row("pending", m, FALSE, call[c].txn, d, e)]
      BY <2>2 DEF SavePaymentDetails
    <3>2. \A m, d, e : LET row == Row("pending", m, FALSE, call[c].txn, d, e)
                       IN row.status \in Unsettled /\ row.txn # NoTxn
      BY <1>2, <2>2 DEF Row, Unsettled, SavePaymentDetails, At
    <3>3. CASE ~UNCHANGED orders
      <4>1. PICK m, d, e : orders' = [orders EXCEPT ![p] =
                                       Row("pending", m, FALSE, call[c].txn, d, e)]
        BY <3>1, <3>3
      <4> QED BY <3>2, <4>1
    <3> QED BY <3>3
  <2>3. CASE AttachProviderPaymentID(c)
    <3>1. \/ UNCHANGED orders
          \/ orders' = [orders EXCEPT ![p] = SetTxn(orders[p], call[c].txn)]
      BY <2>3 DEF AttachProviderPaymentID
    <3>2. call[c].txn # NoTxn
      BY <1>2, <2>3 DEF AttachProviderPaymentID, At
    <3> QED BY <1>1, <3>1, <3>2
  <2> QED BY <2>1, <2>2, <2>3
<1> QED BY <1>3, OneRowMoves, RowsStay

LEMMA ConfirmMoves ==
  ASSUME Fit, NEW c \in Goroutines, ConfirmOrderPaidCAS(c), NEW o \in Orders
  PROVE  RowMoves(o)
<1>1. CASE o = call[c].order
  <2>1. \/ orders' = orders
        \/ \E d, e : orders' = [orders EXCEPT ![o] =
                        Row("paid", orders[o].product, orders[o].uncertain, orders[o].txn, d, e)]
    BY <1>1 DEF ConfirmOrderPaidCAS
  <2>2. orders'[o].txn = orders[o].txn
    BY <2>1 DEF Row, Fit, TypeOK
  <2> QED BY <1>1, <2>2 DEF RowMoves, SettledBy
<1>2. CASE o # call[c].order
  <2>1. \/ orders' = orders
        \/ \E row : orders' = [orders EXCEPT ![call[c].order] = row]
    BY DEF ConfirmOrderPaidCAS
  <2>2. orders'[o] = orders[o]
    BY <1>2, <2>1 DEF Fit, TypeOK
  <2> QED BY <2>2 DEF RowMoves
<1> QED BY <1>1, <1>2

LEMMA CancelMoves ==
  ASSUME Fit, NEW h \in Hooks, NEW t \in Txns, CancelPaymentByProvider(h, t), NEW o \in Orders
  PROVE  RowMoves(o)
<1>1. PICK p \in Orders : /\ orders[p].txn = t
                          /\ CancelOrderCAS(p) \/ CancelPaidOrderAndDowngradeCAS(p)
  BY DEF CancelPaymentByProvider
<1>2. orders' = orders \/ orders' = [orders EXCEPT ![p] = SetStatus(orders[p], "canceled")]
  BY <1>1 DEF CancelOrderCAS, CancelPaidOrderAndDowngradeCAS
<1>3. orders'[o].txn = orders[o].txn
  BY <1>2, SetMarks DEF Fit, TypeOK
<1>4. CASE o = p
  BY <1>1, <1>3, <1>4 DEF RowMoves, SettledBy
<1>5. CASE o # p
  BY <1>2, <1>3, <1>5 DEF Fit, TypeOK, RowMoves
<1> QED BY <1>4, <1>5

LEMMA StepMoves ==
  ASSUME Fit, [Next]_vars, NEW o \in Orders PROVE RowMoves(o)
<1>1. CASE UNCHANGED orders
  BY <1>1, RowsStay
<1>2. ASSUME NEW b \in Buyers, Request(b) PROVE RowMoves(o)
  <2>1. CASE FindPendingPaymentOrder(b)
    <3>1. call[b].order \in Orders
      BY <2>1 DEF Fit, CallFits, FindPendingPaymentOrder, At, Known, Goroutines
    <3> QED BY <2>1, <3>1, LapseMoves DEF FindPendingPaymentOrder
  <2>2. CASE ClaimCreation(b) \/ ClearUncertain(b) \/ SavePaymentDetails(b)
    BY <2>2, ColumnMoves DEF Goroutines
  <2>3. CASE Decline(b) \/ CreateTransaction(b) \/ RefuseTransaction(b)
    BY <2>3, <1>1 DEF Decline, CreateTransaction, RefuseTransaction
  <2> QED BY <1>2, <2>1, <2>2, <2>3, CreateMoves DEF Request
<1>3. ASSUME NEW c \in Hooks \cup {Worker}, Handle(c) PROVE RowMoves(o)
  <2>1. CASE OrderByCallbackPayload(c) \/ CheckConfirmation(c)
    BY <2>1, <1>1 DEF OrderByCallbackPayload, CheckConfirmation
  <2> QED BY <1>3, <2>1, ColumnMoves, ConfirmMoves DEF Handle, Goroutines
<1>4. ASSUME NEW h \in Hooks, NEW t \in Txns,
             ConfirmPayment(h, t) \/ CancelPaymentByProvider(h, t)
      PROVE  RowMoves(o)
  BY <1>1, <1>4, CancelMoves DEF ConfirmPayment, Lookup
<1>5. CASE Reconcile
  <2>1. CASE ExpirePendingOrder
    <3>1. call[Worker].order \in Orders
      BY <2>1 DEF Fit, CallFits, ExpirePendingOrder, At, Known, Goroutines
    <3> QED BY <2>1, <3>1, LapseMoves DEF ExpirePendingOrder
  <2> QED BY <1>1, <1>5, <2>1 DEF Reconcile, ReconcileConfirmed, Lookup
<1>6. CASE \/ \E b \in Buyers, m \in Products : RequestPayment(b, m)
           \/ \E p \in Orders : ReconcilePendingOrder(p)
           \/ \E c \in Goroutines : Fail(c)
           \/ \E t \in Txns : Pay(t) \/ Close(t) \/ TakeBack(t)
           \/ ExpireSubscription \/ Revoke \/ Tick \/ UNCHANGED vars
  BY <1>1, <1>6 DEF RequestPayment, ReconcilePendingOrder, Fail, Pay, Close, TakeBack,
                    ExpireSubscription, Revoke, Tick, vars
<1> QED BY <1>2, <1>3, <1>4, <1>5, <1>6 DEF Next

LEMMA OnlyHolderSettles ==
  ASSUME Fit, Single, Exclusive, [Next]_vars, NEW c \in Goroutines,
         call[c].step \in {"check", "confirm"}, call'[c] = call[c],
         orders[call[c].order].status \in Unsettled
  PROVE  orders'[call[c].order].status \in Unsettled
<1> DEFINE o == call[c].order
           t == call[c].txn
<1>1. o \in Orders /\ t \in Txns /\ orders[o].txn = t
  BY DEF Fit, CallFits, Known, Started, Single, HandlingFits
<1>2. ASSUME NEW d \in Goroutines, ConfirmOrderPaidCAS(d), call[d].order = o PROVE FALSE
  <2>1. call[d].step = "confirm" /\ call[d].txn = t
    BY <1>1, <1>2 DEF ConfirmOrderPaidCAS, At, Single, HandlingFits
  <2>2. d = c
    BY <2>1 DEF Exclusive, Inside
  <2>3. call'[d].step = "idle"
    BY <1>2, HoldsFields DEF ConfirmOrderPaidCAS, Return, Go, Fit, TypeOK
  <2> QED BY <2>1, <2>2, <2>3
<1>3. ASSUME NEW h \in Hooks, NEW u \in Txns, CancelPaymentByProvider(h, u), orders[o].txn = u
      PROVE  FALSE
  BY <1>1, <1>3 DEF CancelPaymentByProvider, Locked
<1>4. RowMoves(o)
  BY <1>1, StepMoves
<1> QED BY <1>2, <1>3, <1>4 DEF RowMoves, SettledBy

LEMMA ArrivalStands ==
  ASSUME Fit, Single, Settling, NEW c \in Goroutines, NEW t \in Txns, Lookup(c, t)
  PROVE  CheckStands(c)'
<1>1. \/ call'[c].step = "payload"
      \/ \E o \in Orders : /\ call'[c].step = "check" /\ call'[c].order = o
                           /\ call'[c].row = orders[o]
  BY HoldsFields DEF Lookup, Go, Fit, TypeOK
<1>2. orders' = orders
  BY DEF Lookup
<1> QED BY <1>1, <1>2 DEF CheckStands

LEMMA HandlerStands ==
  ASSUME Fit, Single, Settling, NEW c \in Goroutines, Handle(c)
  PROVE  CheckStands(c)'
<1>1. call'[c].step = "idle" => CheckStands(c)'
  BY DEF CheckStands
<1>2. Return(c) => call'[c].step = "idle"
  BY HoldsFields DEF Return, Go, Fit, TypeOK
<1>3. CASE OrderByCallbackPayload(c)
  BY <1>3, HoldsFields DEF OrderByCallbackPayload, Return, Go, Fit, TypeOK, CheckStands
<1>4. CASE AttachProviderPaymentID(c)
  <2> DEFINE o == call[c].order
  <2>1. Known(o)
    BY <1>4 DEF AttachProviderPaymentID, At, Fit, CallFits
  <2>2. CASE orders[o].txn = NoTxn
    <3>1. call'[c].step = "check" /\ call'[c].order = o
      BY <1>4, <2>2, HoldsFields DEF AttachProviderPaymentID, Goto, Go, Fit, TypeOK
    <3>2. orders'[o].status = orders[o].status
      BY <1>4, <2>1, <2>2, SetFields DEF AttachProviderPaymentID, Known, Fit, TypeOK
    <3> QED BY <2>1, <2>2, <3>1, <3>2 DEF Known, CheckStands, Settling, Unattached
  <2>3. CASE orders[o].txn # NoTxn
    BY <1>1, <1>2, <1>4, <2>3 DEF AttachProviderPaymentID
  <2> QED BY <2>2, <2>3
<1>5. CASE CheckConfirmation(c)
  <2>1. CASE Return(c)
    BY <1>1, <1>2, <2>1
  <2>2. CASE ~Return(c)
    <3>1. /\ call[c].step = "check" /\ call[c].row.status \in Unsettled /\ orders' = orders
          /\ call'[c].step = "confirm" /\ call'[c].order = call[c].order
      BY <1>5, <2>2, HoldsFields
         DEF CheckConfirmation, At, WithinSettlementGrace, Unsettled, Go, Fit, TypeOK
    <3> QED BY <3>1 DEF CheckStands, Settling
  <2> QED BY <2>1, <2>2
<1>6. CASE ConfirmOrderPaidCAS(c)
  BY <1>1, <1>2, <1>6 DEF ConfirmOrderPaidCAS
<1> QED BY <1>3, <1>4, <1>5, <1>6 DEF Handle

(* A goroutine that moves without handling a callback is not inside.        *)
LEMMA OutsideStands ==
  ASSUME Fit, NEW c \in Goroutines, NEW k, Go(c, k), k.step \notin Inside
  PROVE  CheckStands(c)'
BY DEF Go, Fit, TypeOK, Inside, CheckStands

LEMMA MoverStands ==
  ASSUME Fit, Single, Settling, [Next]_vars, NEW c \in Goroutines, call'[c] # call[c]
  PROVE  CheckStands(c)'
<1>1. \A d \in Goroutines : \A k : Go(d, k) => d = c
  BY DEF Go, Fit, TypeOK
<1>2. ASSUME NEW b \in Buyers, Request(b) \/ \E m \in Products : RequestPayment(b, m)
      PROVE  CheckStands(c)'
  BY <1>1, <1>2, RequestTurns, OutsideStands DEF Goroutines
<1>3. ASSUME NEW d \in Goroutines, NEW t \in Txns, Lookup(d, t) PROVE CheckStands(c)'
  <2>1. d = c
    BY <1>1, <1>3 DEF Lookup
  <2> QED BY <1>3, <2>1, ArrivalStands
<1>4. CASE Reconcile
  <2>1. CASE ReconcileConfirmed
    <3>1. call[Worker].txn \in Txns /\ Worker \in Goroutines
      BY <2>1 DEF ReconcileConfirmed, At, Fit, CallFits, Started, Goroutines
    <3> QED BY <1>3, <2>1, <3>1 DEF ReconcileConfirmed
  <2>2. CASE ExpirePendingOrder
    BY <1>1, <2>2, OutsideStands, HoldsFields DEF ExpirePendingOrder, Return, Inside, Goroutines
  <2> QED BY <1>4, <2>1, <2>2 DEF Reconcile
<1>5. ASSUME NEW o \in Orders, ReconcilePendingOrder(o) PROVE CheckStands(c)'
  BY <1>1, <1>5, OutsideStands, HoldsFields DEF ReconcilePendingOrder, Inside, Goroutines
<1>6. ASSUME NEW d \in Hooks \cup {Worker}, Handle(d) PROVE CheckStands(c)'
  <2>1. \E k : Go(d, k)
    BY <1>6, HandleTurns DEF Turn, Goroutines
  <2>2. d = c
    BY <1>1, <2>1 DEF Goroutines
  <2> QED BY <1>6, <2>2, HandlerStands
<1>7. ASSUME NEW d \in Goroutines, Fail(d) PROVE CheckStands(c)'
  BY <1>1, <1>7, OutsideStands, HoldsFields DEF Fail, Return, Inside
<1>8. CASE \/ \E h \in Hooks, t \in Txns : CancelPaymentByProvider(h, t)
           \/ \E t \in Txns : Pay(t) \/ Close(t) \/ TakeBack(t)
           \/ ExpireSubscription \/ Revoke \/ Tick \/ UNCHANGED vars
  BY <1>8 DEF CancelPaymentByProvider, Pay, Close, TakeBack, ExpireSubscription, Revoke, Tick,
              vars
<1>9. \A h \in Hooks, t \in Txns : ConfirmPayment(h, t) => CheckStands(c)'
  BY <1>3 DEF ConfirmPayment, Goroutines
<1> QED BY <1>2, <1>4, <1>5, <1>6, <1>7, <1>8, <1>9 DEF Next

LEMMA UnattachedStep ==
  ASSUME Fit, Single, Settling, [Next]_vars, NEW o \in Orders PROVE Unattached(o)'
<1> SUFFICES ASSUME orders'[o].txn = NoTxn
             PROVE  orders'[o].status \in Unsettled \cup {"none"}
  BY DEF Unattached
<1>1. RowMoves(o) /\ orders[o].txn = NoTxn /\ orders[o].status \in Unsettled \cup {"none"}
  BY StepMoves DEF RowMoves, Settling, Unattached
<1>2. ~SettledBy(o)
  <2>1. ASSUME NEW c \in Goroutines, ConfirmOrderPaidCAS(c), call[c].order = o PROVE FALSE
    BY <1>1, <2>1, NullAssumption
       DEF ConfirmOrderPaidCAS, At, Single, HandlingFits, Fit, CallFits, Started
  <2> QED BY <1>1, <2>1, NullAssumption DEF SettledBy
<1> QED BY <1>1, <1>2 DEF RowMoves

LEMMA SettlingStep ==
  ASSUME Fit, Single, Exclusive, Settling, [Next]_vars PROVE Settling'
<1>1. ASSUME NEW c \in Goroutines, call'[c] = call[c] PROVE CheckStands(c)'
  BY <1>1, OnlyHolderSettles DEF CheckStands, Settling
<1> QED BY <1>1, MoverStands, UnattachedStep DEF Settling

(* What a confirmation has checked still holds when it commits: nobody      *)
(* else confirms or cancels the order meanwhile, so that the conditional    *)
(* update of ConfirmOrderPaidCAS always finds the row it was written for    *)
(* and no confirmation is given up without a word.                          *)
CheckedStillHolds == \A c \in Goroutines :
                       At(c, "confirm") => orders[call[c].order].status \in Unsettled

(* A confirmation that found its order unsettled settles it, whatever other  *)
(* callbacks, passes, purchases and failures run beside it.                  *)
THEOREM ConfirmationWins == Spec => []CheckedStillHolds
<1>1. Init => Settling
  BY HoldsFields, SetFields DEF Init, Settling, Unattached, CheckStands
<1>2. Fit /\ Single /\ Exclusive /\ Settling /\ [Next]_vars => Settling'
  BY SettlingStep
<1>3. Settling => CheckedStillHolds
  BY DEF Settling, CheckStands, CheckedStillHolds, At
<1> QED BY <1>1, <1>2, <1>3, FitHolds, SingleHolds, ExclusiveHolds, PTL DEF Spec
--------------------------------------------------------------------------------
(* The life of an order.                                                   *)
Forward == {<<"none", "pending">>, <<"pending", "expired">>, <<"pending", "canceled">>,
            <<"pending", "paid">>, <<"expired", "paid">>, <<"paid", "canceled">>}

LivesOn(o) ==
  LET was == orders[o].status
      is  == orders'[o].status
  IN /\ is # was => <<was, is>> \in Forward
     /\ orders'[o].expires # orders[o].expires
          => was # "paid" /\ is = "paid" /\ orders'[o].expires = sub'.expires

LEMMA LedgerLivesOn ==
  ASSUME Fit, [Ledger!Next]_(Ledger!vars), NEW o \in Orders PROVE LivesOn(o)
<1>1. CASE UNCHANGED Ledger!vars
  <2>1. /\ [p \in Orders |-> orders'[p].status][o] = [p \in Orders |-> orders[p].status][o]
        /\ [p \in Orders |-> orders'[p].expires][o] = [p \in Orders |-> orders[p].expires][o]
    BY <1>1 DEF Ledger!vars
  <2> QED BY <2>1 DEF LivesOn
<1>2. ASSUME NEW p \in Orders, NEW old \in SUBSET Orders, Ledger!Create(p, old) PROVE LivesOn(o)
  <2>1. /\ orders[p].status = "none" /\ \A q \in old : orders[q].status = "pending"
        /\ orders'[o].status = IF o = p THEN "pending"
                               ELSE IF o \in old THEN "expired" ELSE orders[o].status
        /\ orders'[o].expires = orders[o].expires
    BY <1>2 DEF Ledger!Create
  <2> QED BY <2>1 DEF LivesOn, Forward
<1>3. ASSUME NEW p \in Orders, Ledger!Lapse(p) \/ Ledger!Drop(p) \/ Ledger!Reverse(p)
      PROVE  LivesOn(o)
  <2>1. /\ orders'[o].expires = orders[o].expires
        /\ o # p => orders'[o].status = orders[o].status
        /\ \/ orders[p].status = "pending" /\ orders'[p].status \in {"expired", "canceled"}
           \/ orders[p].status = "paid" /\ orders'[p].status = "canceled"
    BY <1>3 DEF Ledger!Lapse, Ledger!Drop, Ledger!Reverse
  <2> QED BY <2>1 DEF LivesOn, Forward
<1>4. ASSUME NEW p \in Orders, Ledger!Pay(p) PROVE LivesOn(o)
  <2>1. /\ orders[p].status \in {"pending", "expired"} /\ orders'[p].status = "paid"
        /\ orders'[p].expires = sub'.expires
        /\ o # p => /\ orders'[o].status = orders[o].status
                    /\ orders'[o].expires = orders[o].expires
    BY <1>4 DEF Ledger!Pay
  <2> QED BY <2>1 DEF LivesOn, Forward
<1>5. CASE Ledger!RunOut \/ Ledger!Pass
  <2>1. /\ [p \in Orders |-> orders'[p].status][o] = [p \in Orders |-> orders[p].status][o]
        /\ [p \in Orders |-> orders'[p].expires][o] = [p \in Orders |-> orders[p].expires][o]
    BY <1>5 DEF Ledger!RunOut, Ledger!Pass
  <2> QED BY <2>1 DEF LivesOn
<1> QED BY <1>1, <1>2, <1>3, <1>4, <1>5 DEF Ledger!Next

(* An order only moves forward, whatever confirmations, chargebacks and      *)
(* passes race: a canceled one is final, a paid one can only be canceled, so *)
(* that none is activated twice; and the end its payment bought is written   *)
(* once, in the step that pays it, and is then the subscription's own.       *)
THEOREM OrdersMoveForward == Spec => [][\A o \in Orders : LivesOn(o)]_vars
<1>1. Fit /\ [Next]_vars => \A o \in Orders : LivesOn(o)
  BY LedgerStep, LedgerLivesOn
<1> QED BY <1>1, FitHolds, PTL DEF Spec
================================================================================
