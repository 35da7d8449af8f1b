---------------------------- MODULE MCPaymentOrders ----------------------------
(* An instance of PaymentOrders for TLC: one product, two orders.           *)
EXTENDS PaymentOrders, TLC

CONSTANTS free, premium, month

MCPlans == {free, premium}
MCPlanOf == [m \in {month} |-> premium]
MCDuration == [m \in {month} |-> 2]
MCOrders == 1 .. 2
BuyersAreAlike == Permutations(Buyers)
================================================================================
