------------------------------- MODULE PlanTable -------------------------------
(***************************************************************************)
(* The rows of subscription_nodes for one subscription and the transition  *)
(* table of internal/service/plan_reconcile.go over them.  A row is the    *)
(* sync status of one binding with its retry state; "none" stands for the  *)
(* absence of a row.  retry_at is abstracted to what the scans tell apart: *)
(* "now" (NULL or not later than now: selected), "later" (a rung of the    *)
(* ladder) and "parked" (parkedRetryAt, year 9999).                        *)
(***************************************************************************)
EXTENDS Naturals

CONSTANTS Nodes,      \* VPN nodes
          MaxRetries  \* maxSyncRetries

ASSUME MaxRetriesAssumption == MaxRetries \in Nat

Pending  == {"pending_add", "pending_update", "pending_remove"}
Statuses == {"active"} \cup Pending

Rows == [st : Statuses \cup {"none"}, tries : 0 .. MaxRetries,
         at : {"now", "later", "parked"}]

(* Every status transition clears the retry state.                         *)
Fresh(status) == [st |-> status, tries |-> 0, at |-> "now"]

NoRow == Fresh("none")

(* The statement UPDATE ... WHERE subscription_id AND node_id: a missing   *)
(* row is an error and changes nothing.                                    *)
SetStatus(row, status) == IF row.st = "none" THEN row ELSE Fresh(status)

(* INSERT ... ON CONFLICT DO UPDATE.                                       *)
UpsertPendingAdd(row) == Fresh("pending_add")

(* What the scans of the worker and of SyncSubscription select.            *)
Selected(row) == row.st \in Pending /\ row.at = "now"

(* Mark step of a plan change: an active binding of a target node must     *)
(* receive the new limits.                                                 *)
MarkActive(rows, targets) ==
  [n \in Nodes |-> IF n \in targets /\ rows[n].st = "active"
                   THEN Fresh("pending_update") ELSE rows[n]]

(* The table's ADD and REMOVE rules for one node: what it does, given the  *)
(* status that was loaded, to the row as it is when the write happens.     *)
AddsRow(loaded) == loaded.st = "none"
Reactivates(loaded) == loaded.st = "pending_remove"
Drops(loaded) == loaded.st \in {"active", "pending_add", "pending_update"}

ReconcileNode(n, targets, loaded, row) ==
  CASE n \in targets /\ AddsRow(loaded)     -> UpsertPendingAdd(row)
    [] n \in targets /\ Reactivates(loaded) -> SetStatus(row, "pending_add")
    [] n \notin targets /\ Drops(loaded)    -> SetStatus(row, "pending_remove")
    [] OTHER                                -> row

(* The nodes whose row the reconciliation writes.                          *)
Touched(targets, loaded) ==
  {n \in Nodes : \/ n \in targets /\ (AddsRow(loaded[n]) \/ Reactivates(loaded[n]))
                 \/ n \notin targets /\ Drops(loaded[n])}

(* Reconciliation and plan change as one step, as inside a transaction.    *)
Reconcile(rows, targets) ==
  [n \in Nodes |-> ReconcileNode(n, targets, rows[n], rows[n])]

ApplyPlan(rows, targets) == Reconcile(MarkActive(rows, targets), targets)

(* Rows that agree with a plan: every target is provisioned or queued to   *)
(* be, and nothing else is kept.                                           *)
Agrees(rows, targets) ==
  \A n \in Nodes : IF n \in targets
                   THEN rows[n].st \in {"active", "pending_add", "pending_update"}
                   ELSE rows[n].st \in {"none", "pending_remove"}
================================================================================
