----------------------------- MODULE PaymentOrders -----------------------------
(***************************************************************************)
(* OrderService (internal/service/order.go) and its part of the database   *)
(* (internal/database/orders.go): the orders of one subscription, the      *)
(* provider's transactions for them, the goroutines that serve a purchase  *)
(* or a callback and the worker that compares orders with the provider.    *)
(*                                                                         *)
(* Every database statement or transaction and every request to the        *)
(* provider is one step.  A goroutine may fail at any of them: a lost      *)
(* answer, a failed statement, a restart of the process.  Callbacks come   *)
(* late, more than once, in any order, or never.                           *)
(*                                                                         *)
(* A date is a natural number; the link's life time, the two grace periods *)
(* and the plans' durations keep their order, not their proportions.       *)
(* payment_url is set and read only together with payment_expires_at and   *)
(* is left out, as are amounts (the provider echoes the requested one).    *)
(***************************************************************************)
EXTENDS Naturals, FiniteSets

CONSTANTS Products, Plans, FreePlan,
          PlanOf, Duration,   \* per product: products.plan_id, duration_days
          Orders,             \* order ids, handed out in order
          Txns,               \* provider transaction ids
          NoOrder, NoTxn, NoTime, NoProduct,   \* NULL
          Buyers,             \* goroutines that serve a purchase in Telegram
          Hooks,              \* goroutines that serve the provider's callbacks
          Worker,             \* the sync worker, which also reconciles orders
          LinkTTL,            \* expiresIn of the provider's answer
          SettlementGrace,    \* five minutes
          PendingOrderGrace,  \* pendingOrderGrace
          MaxTime             \* bound of the model

ASSUME PlansAssumption == FreePlan \in Plans /\ PlanOf \in [Products -> Plans \ {FreePlan}]
ASSUME DurationAssumption == Duration \in [Products -> Nat \ {0}]
ASSUME OrdersAssumption == Orders \subseteq Nat
ASSUME NullAssumption == /\ NoOrder \notin Orders /\ NoTxn \notin Txns
                         /\ NoTime \notin Nat /\ NoProduct \notin Products
ASSUME GoroutinesAssumption == /\ Buyers \cap Hooks = {}
                               /\ Worker \notin Buyers \cup Hooks
ASSUME TimesAssumption == /\ LinkTTL \in Nat \ {0} /\ SettlementGrace \in Nat
                          /\ PendingOrderGrace \in Nat
                          /\ MaxTime \in Nat

Goroutines == Buyers \cup Hooks \cup {Worker}
Time == Nat \cup {NoTime}
Statuses == {"none", "pending", "paid", "expired", "canceled"}

VARIABLES now,
          orders,   \* the rows of orders
          sub,      \* the row of subscriptions
          txns,     \* the provider's transactions
          call,     \* per goroutine: where it is and what it has read
          alerts    \* confirmations the administrator was alerted to

vars == <<now, orders, sub, txns, call, alerts>>

Rows == {r \in [status : Statuses, product : Products \cup {NoProduct}, uncertain : BOOLEAN,
                txn : Txns \cup {NoTxn}, deadline : Time, expires : Time] :
           /\ r.status = "none" <=> r.product = NoProduct
           /\ r.status = "paid" => r.expires # NoTime
           /\ r.deadline # NoTime => r.txn # NoTxn}
Row(s, m, u, t, d, e) == [status |-> s, product |-> m, uncertain |-> u,
                          txn |-> t, deadline |-> d, expires |-> e]
SetStatus(r, s) == Row(s, r.product, r.uncertain, r.txn, r.deadline, r.expires)
SetUncertain(r, u) == Row(r.status, r.product, u, r.txn, r.deadline, r.expires)
SetTxn(r, t) == Row(r.status, r.product, r.uncertain, t, r.deadline, r.expires)
NoRow == Row("none", NoProduct, FALSE, NoTxn, NoTime, NoTime)
NewRowWithoutProduct(m) == SetStatus(NoRow, "pending")   \* mutant
NewRow(m) == Row("pending", m, FALSE, NoTxn, NoTime, NoTime)

Steps == {"idle", "expire", "create", "claim", "ask", "clear", "save",
          "payload", "attach", "check", "confirm", "lookup", "lapse"}
Calls == [step : Steps, product : Products \cup {NoProduct}, order : Orders \cup {NoOrder},
          txn : Txns \cup {NoTxn}, row : Rows, at : Nat]
Wants(s, m, o, moment) == [step |-> s, product |-> m, order |-> o,
                           txn |-> NoTxn, row |-> NoRow, at |-> moment]
Holds(s, o, t, row, moment) == [step |-> s, product |-> NoProduct, order |-> o,
                                txn |-> t, row |-> row, at |-> moment]
Idle == Holds("idle", NoOrder, NoTxn, NoRow, 0)

Init == /\ now = 0
        /\ orders = [o \in Orders |-> NoRow]
        /\ sub = [plan |-> FreePlan, active |-> TRUE, expires |-> NoTime]
        /\ txns = [t \in Txns |-> [order |-> NoOrder, state |-> "none", deadline |-> 0]]
        /\ call = [c \in Goroutines |-> Idle]
        /\ alerts = {}

At(c, s) == call[c].step = s
Go(c, k) == call' = [call EXCEPT ![c] = k]
Goto(c, s) == Go(c, Holds(s, call[c].order, call[c].txn, call[c].row, 0))
Return(c) == Go(c, Idle)

-----------------------------------------------------------------------------
(* The buyer's side: RequestPayment. *)

(* Mutant: a link counts as dead while it can still be paid. *)
HasPassedEarly(deadline, t) == deadline # NoTime /\ t + 1 >= deadline

HasPassed(deadline, t) == deadline # NoTime /\ t >= deadline

PendingFor(m) == {o \in Orders : orders[o].status = "pending" /\ orders[o].product = m}

(* The rest of requestPayment once it has an order: an uncertain one, one  *)
(* with a usable link and one with a transaction but no usable link all    *)
(* end the request; otherwise a transaction is wanted.                     *)
GoOn(c, o, row) == Go(c, IF row.uncertain \/ row.txn # NoTxn THEN Idle
                         ELSE Holds("claim", o, NoTxn, NoRow, 0))

RequestPayment(c, m) ==
  /\ At(c, "idle")
  /\ \/ PendingFor(m) = {} /\ Go(c, Wants("create", m, NoOrder, now))
     \/ \E o \in PendingFor(m) :
          IF HasPassed(orders[o].deadline, now)
          THEN Go(c, Wants("expire", m, o, now))
          ELSE GoOn(c, o, orders[o])
  /\ UNCHANGED <<now, orders, sub, txns, alerts>>

(* Mutant: without the condition on the status. *)
ExpiredBlindly(o) == [orders EXCEPT ![o] = SetStatus(@, "expired")]

(* UPDATE orders SET status = 'expired' WHERE id = o AND status = 'pending' *)
Expired(o) == IF orders[o].status = "pending"
              THEN [orders EXCEPT ![o] = SetStatus(@, "expired")] ELSE orders

(* The second half of FindPendingPaymentOrder: a lost race is resolved by  *)
(* the row as it is now.                                                   *)
FindPendingPaymentOrder(c) ==
  LET me == call[c] IN
  /\ At(c, "expire")
  /\ orders' = Expired(me.order)
  /\ IF orders'[me.order].status = "expired"
     THEN Go(c, Wants("create", me.product, NoOrder, me.at))
     ELSE Return(c)
  /\ UNCHANGED <<now, sub, txns, alerts>>

(* AUTOINCREMENT *)
IsNext(n) == \A o \in Orders : orders[o].status = "none" <=> o >= n

FindOrCreatePendingPaymentOrder(c) ==
  LET me == call[c]
      stale == {o \in PendingFor(me.product) :
                  ~orders[o].uncertain /\ HasPassed(orders[o].deadline, me.at)}
  IN /\ At(c, "create")
     /\ \/ \E o \in PendingFor(me.product) \ stale :
             /\ GoOn(c, o, orders[o])
             /\ UNCHANGED orders
        \/ /\ PendingFor(me.product) \subseteq stale
           /\ \E n \in Orders :
                /\ IsNext(n)
                /\ orders' = [o \in Orders |->
                                IF o = n THEN NewRow(me.product)
                                ELSE IF o \in stale THEN SetStatus(orders[o], "expired")
                                ELSE orders[o]]
                /\ GoOn(c, n, NewRow(me.product))
     /\ UNCHANGED <<now, sub, txns, alerts>>

(* The product or its plan is no longer for sale. *)
Decline(c) == /\ At(c, "create") \/ At(c, "claim")
              /\ Return(c)
              /\ UNCHANGED <<now, orders, sub, txns, alerts>>

(* Mutant: the claim does not exclude another request's. *)
ClaimableTwice(row) == row.status = "pending"

(* MarkPaymentCreationUncertain(true): only one request may go on to the   *)
(* provider.                                                               *)
Claimable(row) == row.status = "pending" /\ ~row.uncertain /\ row.txn = NoTxn

ClaimCreation(c) ==
  LET o == call[c].order IN
  /\ At(c, "claim")
  /\ IF Claimable(orders[o])
     THEN /\ orders' = [orders EXCEPT ![o] = SetUncertain(@, TRUE)]
          /\ Goto(c, "ask")
     ELSE /\ Return(c)
          /\ UNCHANGED orders
  /\ UNCHANGED <<now, sub, txns, alerts>>

(* CreateTransaction succeeds: its link works until the provider's own     *)
(* deadline.                                                               *)
Unused(t) == txns[t].state = "none"

CreateTransaction(c) ==
  /\ At(c, "ask")
  /\ LET t == CHOOSE t \in Txns : Unused(t) IN
       /\ \E u \in Txns : Unused(u)
       /\ txns' = [txns EXCEPT ![t] = [order |-> call[c].order, state |-> "open",
                                       deadline |-> now + LinkTTL]]
       /\ Go(c, Holds("save", call[c].order, t, NoRow, now))
  /\ UNCHANGED <<now, orders, sub, alerts>>

(* CreateTransaction is refused with 400 or 401. *)
RefuseTransaction(c) == /\ At(c, "ask")
                        /\ Goto(c, "clear")
                        /\ UNCHANGED <<now, orders, sub, txns, alerts>>

ClearUncertain(c) ==
  LET o == call[c].order IN
  /\ At(c, "clear")
  /\ orders' = IF orders[o].status = "pending"
               THEN [orders EXCEPT ![o] = SetUncertain(@, FALSE)] ELSE orders
  /\ Return(c)
  /\ UNCHANGED <<now, sub, txns, alerts>>

(* SavePaymentDetails: the deadline counts from when the answer arrived,   *)
(* some moment since the provider started the link's life.                 *)
SavePaymentDetails(c) ==
  LET me == call[c]
      row == orders[me.order]
  IN
  /\ At(c, "save")
  /\ IF row.status = "pending"
     THEN \E received \in me.at .. now :
            orders' = [orders EXCEPT ![me.order] =
              Row("pending", row.product, FALSE, me.txn, received + LinkTTL, row.expires)]
     ELSE UNCHANGED orders
  /\ Return(c)
  /\ UNCHANGED <<now, sub, txns, alerts>>

-----------------------------------------------------------------------------
(* The provider's side, as internal/service/payment/platega sees it. *)

Payable(t) == txns[t].state = "open" /\ now < txns[t].deadline

SetState(t, s) ==
  txns' = [txns EXCEPT ![t] = [order |-> txns[t].order, state |-> s,
                               deadline |-> txns[t].deadline]]

Pay(t) == /\ Payable(t)
          /\ SetState(t, "confirmed")
          /\ UNCHANGED <<now, orders, sub, call, alerts>>

(* The customer or the deadline ends an unpaid link. *)
Close(t) == /\ txns[t].state = "open"
            /\ SetState(t, "canceled")
            /\ UNCHANGED <<now, orders, sub, call, alerts>>

TakeBack(t) == /\ txns[t].state = "confirmed"
               /\ SetState(t, "chargedback")
               /\ UNCHANGED <<now, orders, sub, call, alerts>>

-----------------------------------------------------------------------------
(* Callbacks: ConfirmPayment and CancelPaymentByProvider.  The provider    *)
(* may deliver one any number of times, in any order, or not at all.       *)

SaysConfirmed(t) == txns[t].state \in {"confirmed", "chargedback"}
SaysCanceled(t) == txns[t].state = "canceled"
SaysChargedBack(t) == txns[t].state = "chargedback"

(* lockPayment (KeyedMutex with the transaction as the key). *)
Locked(t) == \E c \in Goroutines : /\ call[c].txn = t
                                   /\ call[c].step \in {"payload", "attach", "check", "confirm"}

(* NotifyPaymentIssue: "unknown_provider_id", "late_confirmed_callback"    *)
Alert(t) == alerts' = alerts \cup {t}

(* confirmPayment takes the lock and looks the order up by the             *)
(* transaction's id, and if there is none falls back to the payload.       *)
Lookup(c, t) ==
  /\ ~Locked(t)
  /\ \/ \E o \in Orders : /\ orders[o].txn = t
                         /\ Go(c, Holds("check", o, t, orders[o], 0))
     \/ /\ \A o \in Orders : orders[o].txn # t
        /\ Go(c, Holds("payload", NoOrder, t, NoRow, 0))
  /\ UNCHANGED <<now, orders, sub, txns, alerts>>

ConfirmPayment(c, t) == At(c, "idle") /\ SaysConfirmed(t) /\ Lookup(c, t)

(* orderByCallbackPayload reads the order named by the payload ... *)
OrderByCallbackPayload(c) ==
  LET t == call[c].txn
      o == txns[t].order
  IN /\ At(c, "payload")
     /\ IF orders[o].txn = NoTxn
        THEN /\ Go(c, Holds("attach", o, t, orders[o], 0))
             /\ UNCHANGED alerts
        ELSE /\ Return(c)
             /\ Alert(t)
     /\ UNCHANGED <<now, orders, sub, txns>>

(* ... and AttachProviderPaymentID writes the id if there is still none. *)
AttachProviderPaymentID(c) ==
  LET me == call[c] IN
  /\ At(c, "attach")
  /\ IF orders[me.order].txn = NoTxn
     THEN /\ orders' = [orders EXCEPT ![me.order] = SetTxn(@, me.txn)]
          /\ Goto(c, "check")
          /\ UNCHANGED alerts
     ELSE /\ Return(c)
          /\ Alert(me.txn)
          /\ UNCHANGED orders
  /\ UNCHANGED <<now, sub, txns>>

WithinSettlementGrace(row) == /\ row.status = "expired"
                              /\ row.deadline # NoTime
                              /\ now <= row.deadline + SettlementGrace

(* What confirmPayment makes of the row it has read: a paid one is done, a *)
(* canceled or late one is left to the administrator.                      *)
CheckConfirmation(c) ==
  LET me == call[c] IN
  /\ At(c, "check")
  /\ \/ /\ me.row.status = "paid"
        /\ Return(c)
        /\ UNCHANGED alerts
     \/ /\ me.row.status = "pending" \/ WithinSettlementGrace(me.row)
        /\ Go(c, Holds("confirm", me.order, me.txn, NoRow, 0))
        /\ UNCHANGED alerts
     \/ /\ me.row.status \in {"expired", "canceled"}
        /\ ~WithinSettlementGrace(me.row)
        /\ Return(c)
        /\ Alert(me.txn)
  /\ UNCHANGED <<now, orders, sub, txns>>

(* Mutant: a renewal counts from the payment. *)
ExpiryFromNow(m) == now + Duration[m]

CalculatePaymentExpiry(m) ==
  LET extends == /\ sub.plan = PlanOf[m] /\ sub.expires # NoTime
                 /\ sub.expires > now
  IN (IF extends THEN sub.expires ELSE now) + Duration[m]

(* ConfirmOrderPaidCAS: order and subscription in one transaction.         *)
ConfirmOrderPaidCAS(c) ==
  LET me == call[c]
      o == me.order
      row == orders[o]
      m == row.product
      newExpiry == CalculatePaymentExpiry(m)
  IN /\ At(c, "confirm")
     /\ IF row.status \in {"pending", "expired"}
        THEN /\ orders' = [orders EXCEPT ![o] =
                  Row("paid", m, row.uncertain, row.txn, row.deadline, newExpiry)]
             /\ sub' = [plan |-> PlanOf[m], active |-> TRUE, expires |-> newExpiry]
        ELSE UNCHANGED <<orders, sub>>
     /\ Return(c)
     /\ UNCHANGED <<now, txns, alerts>>

(* Mutant: only a payment without end counts. *)
CoversForever(p, o) == p # o /\ orders[p].status = "paid" /\ orders[p].expires = NoTime

(* A paid order other than o that is still running. *)
Covers(p, o) == /\ p # o /\ orders[p].status = "paid"
                /\ orders[p].expires = NoTime \/ orders[p].expires > now

(* CancelPaymentByProvider: an order found stays the transaction's order,  *)
(* so that finding it and the conditional update are one step.             *)
CancelOrderCAS(o) ==
  /\ orders' = IF orders[o].status = "pending"
               THEN [orders EXCEPT ![o] = SetStatus(@, "canceled")] ELSE orders
  /\ UNCHANGED sub

Downgraded == [plan |-> FreePlan, active |-> sub.active, expires |-> NoTime]

CancelPaidOrderAndDowngradeCAS(o) ==
  /\ orders' = IF orders[o].status \in {"pending", "paid"}
               THEN [orders EXCEPT ![o] = SetStatus(@, "canceled")] ELSE orders
  /\ sub' = IF /\ orders[o].status = "paid" /\ sub.active
               /\ \A p \in Orders : ~Covers(p, o)
            THEN Downgraded ELSE sub

CancelPaymentByProvider(c, t) ==
  /\ At(c, "idle") /\ ~Locked(t)
  /\ \E o \in Orders :
       /\ orders[o].txn = t
       /\ \/ SaysCanceled(t) /\ CancelOrderCAS(o)
          \/ SaysChargedBack(t) /\ CancelPaidOrderAndDowngradeCAS(o)
  /\ UNCHANGED <<now, txns, call, alerts>>

-----------------------------------------------------------------------------
(* The workers, and other flows that touch the subscription. *)

Stale(o) == /\ orders[o].status = "pending" /\ ~orders[o].uncertain
            /\ orders[o].deadline # NoTime
            /\ orders[o].deadline + PendingOrderGrace < now

(* ReconcilePendingOrders lists an order and asks for its transaction's    *)
(* status, then goes through ConfirmPayment or ExpirePendingOrder, which   *)
(* look at the order again.                                                *)
ReconcilePendingOrder(o) ==
  LET t == orders[o].txn
      then(s) == Go(Worker, Holds(s, o, t, NoRow, 0))
  IN /\ At(Worker, "idle")
     /\ Stale(o)
     /\ \/ txns[t].state = "confirmed" /\ then("lookup")
        \/ txns[t].state = "canceled" /\ then("lapse")
     /\ UNCHANGED <<now, orders, sub, txns, alerts>>

(* Mutant: the provider's confirmation is noticed and left alone. *)
ReconcileLogsOnly == /\ At(Worker, "lookup")
                     /\ Return(Worker)
                     /\ UNCHANGED <<now, orders, sub, txns, alerts>>

ReconcileConfirmed == At(Worker, "lookup") /\ Lookup(Worker, call[Worker].txn)

ExpirePendingOrder ==
  /\ At(Worker, "lapse")
  /\ orders' = Expired(call[Worker].order)
  /\ Return(Worker)
  /\ UNCHANGED <<now, sub, txns, alerts>>

(* ExpireSubscriptionWithPlanCAS *)
ExpireSubscription ==
  /\ sub.active /\ sub.expires # NoTime /\ sub.expires <= now
  /\ sub' = Downgraded
  /\ UNCHANGED <<now, orders, txns, call, alerts>>

(* markRevokedSub; a payment reactivates the subscription. *)
Revoke == /\ sub.active
          /\ sub' = [plan |-> sub.plan, active |-> FALSE, expires |-> sub.expires]
          /\ UNCHANGED <<now, orders, txns, call, alerts>>

(* A statement or request fails, its answer is lost or the process stops:  *)
(* nothing after it happens.  A lost answer of CreateTransaction leaves    *)
(* the transaction behind.                                                 *)
Fail(c) == /\ ~At(c, "idle")
           /\ Return(c)
           /\ UNCHANGED <<now, orders, sub, txns, alerts>>

(* A unit of time is longer than a transaction: the date that              *)
(* confirmPayment takes as activation is still the date when it commits.   *)
Tick == /\ now < MaxTime
        /\ \A c \in Goroutines : ~At(c, "confirm")
        /\ now' = now + 1
        /\ UNCHANGED <<orders, sub, txns, call, alerts>>

Request(c) == \/ FindPendingPaymentOrder(c) \/ FindOrCreatePendingPaymentOrder(c)
              \/ Decline(c) \/ ClaimCreation(c)
              \/ CreateTransaction(c) \/ RefuseTransaction(c)
              \/ ClearUncertain(c) \/ SavePaymentDetails(c)

Handle(c) == \/ OrderByCallbackPayload(c) \/ AttachProviderPaymentID(c)
             \/ CheckConfirmation(c) \/ ConfirmOrderPaidCAS(c)

Reconcile == ReconcileConfirmed \/ ExpirePendingOrder

Next == \/ \E b \in Buyers : Request(b) \/ \E m \in Products : RequestPayment(b, m)
        \/ \E h \in Hooks, t \in Txns : ConfirmPayment(h, t) \/ CancelPaymentByProvider(h, t)
        \/ \E o \in Orders : ReconcilePendingOrder(o)
        \/ Reconcile
        \/ \E c \in Hooks \cup {Worker} : Handle(c)
        \/ \E c \in Goroutines : Fail(c)
        \/ \E t \in Txns : Pay(t) \/ Close(t) \/ TakeBack(t)
        \/ ExpireSubscription \/ Revoke \/ Tick

Spec == Init /\ [][Next]_vars

-----------------------------------------------------------------------------
(* Every variable has its type. *)
TypeOK ==
  /\ now \in Nat
  /\ orders \in [Orders -> Rows]
  /\ sub \in [plan : Plans, active : BOOLEAN, expires : Time]
  /\ txns \in [Txns -> [order : Orders \cup {NoOrder}, deadline : Nat,
                        state : {"none", "open", "confirmed", "canceled", "chargedback"}]]
  /\ call \in [Goroutines -> Calls]
  /\ alerts \subseteq Txns

(* A customer never has two links for the same product that can both still *)
(* be paid, whatever requests for it ran side by side, were refused, timed *)
(* out or came back after the first link's deadline.                       *)
OneLivePayment ==
  \A t, u \in Txns :
    /\ Payable(t) /\ Payable(u)
    /\ orders[txns[t].order].product = orders[txns[u].order].product
    => t = u

(* An order is paid only if the provider has the customer's money for it,  *)
(* or had it before a chargeback.                                          *)
PaidIsCharged ==
  \A o \in Orders : orders[o].status = "paid" =>
    \E t \in Txns : /\ txns[t].order = o /\ orders[o].txn = t
                    /\ txns[t].state \in {"confirmed", "chargedback"}

(* Orders ever paid were for one plan: a purchase of another plan replaces *)
(* the rest of the current one, and the two properties below do not apply. *)
OnePlan == \A o, p \in Orders :
             orders[o].expires # NoTime /\ orders[p].expires # NoTime
               => PlanOf[orders[o].product] = PlanOf[orders[p].product]

Paid(o) == orders[o].status = "paid"
Starts(o) == orders[o].expires - Duration[orders[o].product]

(* No day is sold twice: the periods that two paid orders bought do not    *)
(* overlap, although their confirmations hold different locks and may run  *)
(* side by side.                                                           *)
NoDaySoldTwice ==
  OnePlan => \A o, p \in Orders :
    Paid(o) /\ Paid(p) /\ o # p
      => orders[o].expires <= Starts(p) \/ orders[p].expires <= Starts(o)

(* Who has paid is served: while a paid order runs, the subscription is on *)
(* its plan and lasts at least as long, whatever expiry pass, chargeback   *)
(* of another order or confirmation was under way at the time.             *)
PaidIsServed ==
  OnePlan => \A o \in Orders :
    Paid(o) /\ orders[o].expires > now
      => /\ sub.plan = PlanOf[orders[o].product]
         /\ sub.expires # NoTime /\ sub.expires >= orders[o].expires

(* Orders follow their life cycle, each is paid at most once, a payment    *)
(* extends, and a chargeback takes nothing that another order covers.      *)
Ledger == INSTANCE OrderLedger WITH
            clock <- now,
            status <- [o \in Orders |-> orders[o].status],
            until <- [o \in Orders |-> orders[o].expires],
            plan <- sub.plan,
            ends <- sub.expires
ImplementsLedger == Ledger!Spec

(* The administrator is asked to settle a confirmation by hand only when   *)
(* its order can no longer be activated: a pending one is found, be it by  *)
(* the payload, and paid.                                                  *)
PendingIsNotTurnedAway ==
  [][\A t \in alerts' \ alerts : orders[txns[t].order].status # "pending"]_vars

(* Goroutines that can run do, a step tried again and again does not fail  *)
(* every time, and the provider ends links at their deadline.              *)
(* Nothing is assumed of callbacks: each may be lost for ever.             *)
FairSpec ==
  /\ Spec
  /\ \A b \in Buyers : WF_vars(Request(b))
  /\ \A h \in Hooks : WF_vars(Handle(h))
  /\ \A c \in Hooks \cup {Worker}, t \in Txns :
       /\ SF_vars(call[c].txn = t /\ CheckConfirmation(c))
       /\ SF_vars(call[c].txn = t /\ ConfirmOrderPaidCAS(c))
  /\ SF_vars(ReconcileConfirmed) /\ SF_vars(ExpirePendingOrder)
  /\ \A o \in Orders : SF_vars(ReconcilePendingOrder(o))
  /\ \A t \in Txns : WF_vars(now >= txns[t].deadline /\ Close(t))

Charged(o) == \E t \in Txns : txns[t].order = o /\ txns[t].state = "confirmed"
TakenBack(o) == \E t \in Txns : txns[t].order = o /\ txns[t].state = "chargedback"
Alerted(o) == \E t \in alerts : txns[t].order = o

(* No order stays pending for ever because a callback was lost: once its   *)
(* link is ten minutes past its deadline, reconciliation ends it.          *)
LostCallbackRepaired ==
  \A o \in Orders : Stale(o) ~> orders[o].status # "pending" \/ TakenBack(o)

(* Nobody's money is lost in silence: if a customer has paid for an order  *)
(* that expired, it is paid in the end or the administrator hears of it.   *)
NoSilentLoss ==
  \A o \in Orders :
    orders[o].status = "expired" /\ Charged(o)
      ~> Paid(o) \/ Alerted(o) \/ TakenBack(o)
================================================================================
