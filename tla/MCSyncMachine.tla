---------------------------- MODULE MCSyncMachine ----------------------------
(* Two nodes and two plans: n1 is in both, so a plan change updates it, and *)
(* n2 only in the paid one, so a plan change adds or removes it.            *)
EXTENDS SyncMachine

CONSTANTS free, prem, n1, n2, c, d

MCPlanNodes == [plan \in Plans |-> IF plan = free THEN {n1} ELSE {n1, n2}]

(* Which flows run against each other.                                      *)
NoFlow         == [p \in Callers |-> {}]
PlanChanges    == [p \in Callers |-> {"payment", "downgrade"}]
Reactivation   == [p \in Callers |-> {"payment", "deactivate"}]
AnyAgainstTeardown == [p \in Callers |-> IF p = c THEN FlowNames
                                         ELSE {"deactivate"}]
===============================================================================
