------------------------------ MODULE OrderLedger ------------------------------
(***************************************************************************)
(* What the payment code promises about one subscription, without saying   *)
(* how: the life of its orders and what each change may do to the          *)
(* entitlement.  PaymentOrders implements it.                              *)
(***************************************************************************)
EXTENDS Naturals

CONSTANTS Orders, FreePlan, NoTime

VARIABLES clock,
          status,    \* per order: "none" before it exists
          until,     \* per order: the entitlement's end its payment produced
          plan,      \* the plan the subscription is on
          ends       \* when it ends, NoTime if never

vars == <<clock, status, until, plan, ends>>

Init == /\ clock = 0
        /\ status = [o \in Orders |-> "none"]
        /\ until = [o \in Orders |-> NoTime]
        /\ plan = FreePlan
        /\ ends = NoTime

(* An order appears, perhaps in place of one whose link has run out. *)
Create(o, old) == 
  /\ status[o] = "none"
  /\ status' = [p \in Orders |-> IF p = o THEN "pending"
                                 ELSE IF p \in old THEN "expired" ELSE status[p]]
  /\ \A p \in old : status[p] = "pending"
  /\ UNCHANGED <<clock, until, plan, ends>>

Lapse(o) == /\ status[o] = "pending"
            /\ status' = [status EXCEPT ![o] = "expired"]
            /\ UNCHANGED <<clock, until, plan, ends>>

Drop(o) == /\ status[o] = "pending"
           /\ status' = [status EXCEPT ![o] = "canceled"]
           /\ UNCHANGED <<clock, until, plan, ends>>

(* A payment puts the subscription on a plan until a moment it records in  *)
(* the order, and if the subscription was on that plan already, later than *)
(* before.                                                                 *)
Pay(o) ==
  /\ status[o] \in {"pending", "expired"}
  /\ ends' \in Nat
  /\ plan' = plan /\ ends # NoTime => ends' > ends
  /\ status' = [status EXCEPT ![o] = "paid"]
  /\ until' = [until EXCEPT ![o] = ends']
  /\ UNCHANGED clock

Valid(o) == status[o] = "paid" /\ until[o] # NoTime /\ until[o] > clock

(* Money taken back: the subscription falls to the free plan only when no  *)
(* other payment still covers it.                                          *)
Reverse(o) ==
  /\ status[o] = "paid"
  /\ status' = [status EXCEPT ![o] = "canceled"]
  /\ \/ UNCHANGED <<plan, ends>>
     \/ /\ \A p \in Orders \ {o} : ~Valid(p)
        /\ plan' = FreePlan
        /\ ends' = NoTime
  /\ UNCHANGED <<clock, until>>

RunOut == /\ ends # NoTime /\ ends <= clock
          /\ plan' = FreePlan
          /\ ends' = NoTime
          /\ UNCHANGED <<clock, status, until>>

Pass == clock' = clock + 1 /\ UNCHANGED <<status, until, plan, ends>>

Next == \/ \E o \in Orders : \/ \E old \in SUBSET Orders : Create(o, old)
                             \/ Lapse(o) \/ Drop(o) \/ Pay(o) \/ Reverse(o)
        \/ RunOut \/ Pass

Spec == Init /\ [][Next]_vars
================================================================================
