------------------------ MODULE SubscriptionLifecycle ------------------------
(***************************************************************************)
(* The subscription of one Telegram user: created on demand, reanimated     *)
(* after a deletion that did not finish, activated by payments, expired,    *)
(* changed or deleted by the administrator, and repaired by the             *)
(* reconciliation of orphans. (internal/service/subscription.go,            *)
(* internal/database/subscriptions.go, subscription_nodes.go)               *)
(*                                                                         *)
(* Each statement or transaction is a step, and any goroutine may fail or   *)
(* the process crash between two. A pass of the sync service, the subject   *)
(* of SyncMachine, is one step here, with an outcome for each row.          *)
(***************************************************************************)
EXTENDS PlanTable

CONSTANTS Creators,      \* goroutines that need a subscription: /start, a purchase
          Free, Paid,    \* the plans
          PlanNodes,     \* plan_nodes: the nodes of each plan
          MaxFlows,      \* creations, payments, expiries and commands in a behaviour
          MaxFaults      \* failed statements, crashes and retried passes in a behaviour

VARIABLES row,     \* the user's row of subscriptions
          bind,    \* its rows of subscription_nodes
          at,      \* where each goroutine is
          copy,    \* the row each goroutine loaded
          todo,    \* the nodes each goroutine has still to insert
          flows, faults

vars == <<row, bind, at, copy, todo, flows, faults>>

Goroutines == Creators \cup {"reconciler", "admin"}
Plans == {Free, Paid}
Subs == [id : Nat, status : {"absent", "active", "revoked"}, plan : Plans]
NoCopy == [id |-> 0, status |-> "absent", plan |-> Free]
NoBindings == [n \in Nodes |-> NoRow]

Places == {"idle", "lookup", "any", "insert", "wipe", "write", "ensure", "upsert", "sync",
           "check", "orphan", "revoke", "mark", "syncRemoval", "verify", "deleteRows",
           "deleteSub", "setPlan", "applyPlan"}

(* The row, its bindings and the goroutines have their types.                *)
TypeOK ==
  /\ row \in Subs /\ bind \in [Nodes -> Rows]
  /\ at \in [Goroutines -> Places]
  /\ copy \in [Goroutines -> Subs]
  /\ todo \in [Goroutines -> SUBSET Nodes]
  /\ flows \in Nat /\ faults \in Nat

(* There is no row yet, or one whose deletion stopped at a failing panel.    *)
Init ==
  /\ \/ row = NoCopy /\ bind = NoBindings
     \/ /\ row = [id |-> 1, status |-> "revoked", plan |-> Free]
        /\ bind = [n \in Nodes |-> IF n \in PlanNodes[Free] THEN Fresh("pending_remove") ELSE NoRow]
  /\ at = [g \in Goroutines |-> "idle"]
  /\ copy = [g \in Goroutines |-> NoCopy]
  /\ todo = [g \in Goroutines |-> {}]
  /\ flows = 0 /\ faults = 0

(* A goroutine goes on with a copy of the row and nodes to insert, or ends.  *)
Go(g, place, sub, missing) ==
  /\ at' = [at EXCEPT ![g] = place]
  /\ copy' = [copy EXCEPT ![g] = IF place = "idle" THEN NoCopy ELSE sub]
  /\ todo' = [todo EXCEPT ![g] = IF place = "idle" THEN {} ELSE missing]

Move(g, place) == Go(g, place, copy[g], {})
Local == <<at, copy, todo>>
Tally == <<flows, faults>>

Exists == row.status # "absent"
Bound == \E n \in Nodes : bind[n].st # "none"

(* The loaded row is still there: ids are never used again.                  *)
Current(g) == Exists /\ copy[g].id = row.id

(* UpdateSubscription: every column of the loaded row is written.            *)
Save(g, sub, place) ==
  IF Current(g) THEN row' = sub /\ Go(g, place, sub, {}) ELSE UNCHANGED row /\ Move(g, "idle")

-----------------------------------------------------------------------------
(* Create and GetOrCreateSubscription                                        *)

Ask(g) ==
  /\ g \in Creators /\ at[g] = "idle" /\ flows < MaxFlows
  /\ flows' = flows + 1
  /\ Move(g, "lookup")
  /\ UNCHANGED <<row, bind, faults>>

GetByTelegramID(g) ==
  /\ at[g] = "lookup"
  /\ IF row.status = "active" THEN Go(g, "ensure", row, {}) ELSE Move(g, "any")
  /\ UNCHANGED <<row, bind, Tally>>

(* The row is taken as it is now, whatever its status.                       *)
GetAnyByTelegramID(g) ==
  /\ at[g] = "any"
  /\ IF Exists THEN Go(g, "wipe", row, {}) ELSE Move(g, "insert")
  /\ UNCHANGED <<row, bind, Tally>>

(* telegram_id is unique: the loser of a race gets an error.                 *)
CreateSubscription(g) ==
  /\ at[g] = "insert"
  /\ IF Exists THEN Move(g, "idle") /\ UNCHANGED row
     ELSE /\ row' = [id |-> row.id + 1, status |-> "active", plan |-> Free]
          /\ Go(g, "ensure", row', {})
  /\ UNCHANGED <<bind, Tally>>

WipeBindings(g) ==
  /\ at[g] = "wipe"
  /\ bind' = IF Current(g) THEN NoBindings ELSE bind
  /\ Move(g, "write")
  /\ UNCHANGED <<row, Tally>>

Reanimate(g) ==
  /\ at[g] = "write"
  /\ Save(g, [copy[g] EXCEPT !.status = "active", !.plan = Free], "ensure")
  /\ UNCHANGED <<bind, Tally>>

(* ensureSubscriptionNodes: the missing nodes of the loaded row's plan.      *)
LoadMissing(g) ==
  /\ at[g] = "ensure"
  /\ LET have == {n \in Nodes : Current(g) /\ bind[n].st # "none"}
         missing == PlanNodes[copy[g].plan] \ have
     IN Go(g, IF missing = {} THEN "idle" ELSE "upsert", copy[g], missing)
  /\ UNCHANGED <<row, bind, Tally>>

(* The foreign key refuses a binding of a row that is gone.                  *)
UpsertNode(g, n) ==
  /\ at[g] = "upsert" /\ n \in todo[g]
  /\ IF Current(g)
     THEN /\ bind' = [bind EXCEPT ![n] = UpsertPendingAdd(@)]
          /\ Go(g, IF todo[g] = {n} THEN "sync" ELSE "upsert", copy[g], todo[g] \ {n})
     ELSE Move(g, "idle") /\ UNCHANGED bind
  /\ UNCHANGED <<row, Tally>>

(* The rows of a revoked subscription become removals before their calls.    *)
Requeued(r) ==
  IF row.status = "revoked" /\ r.st # "pending_remove" THEN Fresh("pending_remove") ELSE r

(* What comes of a row in a pass: its rung is not yet due or the pass ends   *)
(* before it; its call fails on a lower rung or times out; it is refused, or *)
(* fails on the last rung of the ladder, and is parked; it succeeds.         *)
Outcomes(r) ==
  IF ~Selected(r) THEN {r}
  ELSE {r, Requeued(r), [Requeued(r) EXCEPT !.at = "parked"],
        IF Requeued(r).st = "pending_remove" THEN NoRow ELSE Fresh("active")}

Passes ==
  {rows \in [Nodes -> UNION {Outcomes(bind[n]) : n \in Nodes}] :
     \A n \in Nodes : rows[n] \in Outcomes(bind[n])}

SyncSubscription(g) ==
  /\ at[g] \in {"sync", "syncRemoval"}
  /\ IF Current(g) THEN bind' \in Passes ELSE UNCHANGED bind
  /\ Move(g, IF at[g] = "sync" THEN "idle" ELSE "verify")
  /\ UNCHANGED <<row, Tally>>

-----------------------------------------------------------------------------
(* The administrator: DeleteByID and AdminSetPlan                            *)

LoadByID ==
  /\ at["admin"] = "idle" /\ flows < MaxFlows /\ Exists
  /\ flows' = flows + 1
  /\ \E place \in {"revoke", "setPlan"} : Go("admin", place, row, {})
  /\ UNCHANGED <<row, bind, faults>>

MarkRevoked ==
  /\ at["admin"] = "revoke"
  /\ Save("admin", [copy["admin"] EXCEPT !.status = "revoked"], "mark")
  /\ UNCHANGED <<bind, Tally>>

QueueForDeprovision ==
  /\ at["admin"] = "mark"
  /\ bind' = [n \in Nodes |-> IF Current("admin") THEN SetStatus(bind[n], "pending_remove")
                                                  ELSE bind[n]]
  /\ Move("admin", "syncRemoval")
  /\ UNCHANGED <<row, Tally>>

VerifyNoBindings ==
  /\ at["admin"] = "verify"
  /\ Move("admin", IF Current("admin") /\ Bound THEN "idle" ELSE "deleteRows")
  /\ UNCHANGED <<row, bind, Tally>>

DeleteBindings ==
  /\ at["admin"] = "deleteRows"
  /\ bind' = IF Current("admin") THEN NoBindings ELSE bind
  /\ Move("admin", "deleteSub")
  /\ UNCHANGED <<row, Tally>>

(* The foreign key refuses to delete a row that has bindings.                *)
DeleteSubscription ==
  /\ at["admin"] = "deleteSub"
  /\ row' = IF Current("admin") /\ ~Bound THEN [row EXCEPT !.status = "absent"] ELSE row
  /\ Move("admin", "idle")
  /\ UNCHANGED <<bind, Tally>>

SetPlan ==
  /\ at["admin"] = "setPlan"
  /\ \E plan \in Plans :
       Save("admin", [copy["admin"] EXCEPT !.status = "active", !.plan = plan], "applyPlan")
  /\ UNCHANGED <<bind, Tally>>

ApplyPlanToSubscription ==
  /\ at["admin"] = "applyPlan"
  /\ IF Current("admin")
     THEN /\ bind' = IF row.status = "revoked" THEN MarkActive(bind, PlanNodes[row.plan])
                                               ELSE ApplyPlan(bind, PlanNodes[row.plan])
          /\ Move("admin", "sync")
     ELSE Move("admin", "idle") /\ UNCHANGED bind
  /\ UNCHANGED <<row, Tally>>

-----------------------------------------------------------------------------
(* The transactions of payments, and of expiry and chargebacks               *)

ConfirmOrderPaid ==
  /\ Exists /\ flows < MaxFlows
  /\ flows' = flows + 1
  /\ row' = [row EXCEPT !.status = "active", !.plan = Paid]
  /\ bind' = IF row.plan = Paid THEN bind ELSE ApplyPlan(bind, PlanNodes[Paid])
  /\ UNCHANGED <<Local, faults>>

ExpireSubscription ==
  /\ row.status = "active" /\ row.plan = Paid
  /\ row' = [row EXCEPT !.plan = Free]
  /\ bind' = ApplyPlan(bind, PlanNodes[Free])
  /\ UNCHANGED <<Local, Tally>>

-----------------------------------------------------------------------------
(* ReconcileOrphanedClients, and the sync worker                             *)

LoadActive ==
  /\ at["reconciler"] = "idle" /\ row.status = "active"
  /\ Go("reconciler", "check", row, {})
  /\ UNCHANGED <<row, bind, Tally>>

Live == \E n \in Nodes : bind[n].st \in {"active", "pending_add", "pending_update"}

(* Mutant: a row without bindings is left to whoever creates it. *)
CheckBindingsOnly ==
  /\ at["reconciler"] = "check"
  /\ Move("reconciler", IF Current("reconciler") /\ Bound /\ ~Live THEN "orphan" ELSE "idle")
  /\ UNCHANGED <<row, bind, Tally>>

CheckBindings ==
  /\ at["reconciler"] = "check"
  /\ Move("reconciler", IF ~Current("reconciler") \/ ~Bound THEN "ensure"
                        ELSE IF ~Live THEN "orphan" ELSE "idle")
  /\ UNCHANGED <<row, bind, Tally>>

RevokeOrphan ==
  /\ at["reconciler"] = "orphan"
  /\ Save("reconciler", [copy["reconciler"] EXCEPT !.status = "revoked"], "idle")
  /\ UNCHANGED <<bind, Tally>>

(* SyncPendingNodes: a pass, then the reconciliation with the plan. MaxFaults *)
(* stands for the ladder's length and for the time-outs, which it does not   *)
(* count.                                                                    *)
SyncPendingNodes ==
  /\ Exists /\ \E n \in Nodes : Selected(bind[n])
  /\ UNCHANGED <<row, Local, flows>>
  /\ \E rows \in Passes :
       /\ bind' = IF row.status = "active" THEN Reconcile(rows, PlanNodes[row.plan]) ELSE rows
       /\ IF \E n \in Nodes : Selected(rows[n])
          THEN faults < MaxFaults /\ faults' = faults + 1 ELSE UNCHANGED faults

(* releaseRecoveredNodes: a node that did not answer before answers again.   *)
ReleaseRecovered(n) ==
  /\ bind[n].at = "parked" /\ bind' = [bind EXCEPT ![n] = Fresh(@.st)]
  /\ UNCHANGED <<row, Local, Tally>>

-----------------------------------------------------------------------------
(* A statement fails, or the process restarts.                               *)
Fault(who) ==
  /\ faults < MaxFaults
  /\ faults' = faults + 1
  /\ \E g \in who : at[g] # "idle"
  /\ at' = [g \in Goroutines |-> IF g \in who THEN "idle" ELSE at[g]]
  /\ copy' = [g \in Goroutines |-> IF g \in who THEN NoCopy ELSE copy[g]]
  /\ todo' = [g \in Goroutines |-> IF g \in who THEN {} ELSE todo[g]]
  /\ UNCHANGED <<row, bind, flows>>

Ensure(g) == LoadMissing(g) \/ (\E n \in Nodes : UpsertNode(g, n)) \/ SyncSubscription(g)

Create(g) == \/ Ask(g) \/ GetByTelegramID(g) \/ GetAnyByTelegramID(g)
             \/ CreateSubscription(g) \/ WipeBindings(g) \/ Reanimate(g)

Administer == \/ LoadByID \/ MarkRevoked \/ QueueForDeprovision \/ VerifyNoBindings
              \/ DeleteBindings \/ DeleteSubscription \/ SetPlan \/ ApplyPlanToSubscription

ReconcileOrphans == LoadActive \/ CheckBindings \/ RevokeOrphan \/ Ensure("reconciler")

Next == \/ \E g \in Creators : Create(g) \/ Ensure(g)
        \/ Administer \/ SyncSubscription("admin")
        \/ ConfirmOrderPaid
        \/ ExpireSubscription
        \/ ReconcileOrphans \/ SyncPendingNodes
        \/ \E n \in Nodes : ReleaseRecovered(n)
        \/ Fault(Goroutines) \/ \E g \in Goroutines : Fault({g})

Spec == Init /\ [][Next]_vars

(* Both workers run for ever; a goroutine of the bot may stop anywhere, and  *)
(* a panel refuse for ever.                                                  *)
Fairness == WF_vars(ReconcileOrphans) /\ WF_vars(SyncPendingNodes)

FairSpec == Spec /\ Fairness

-----------------------------------------------------------------------------
(* Properties                                                                *)

Served(n) == bind[n].st = "active"

(* A panel refused the client, or failed to the end of the ladder: the row   *)
(* counts as live, and only the panel's recovery or a command moves it on.   *)
Parked(n) == bind[n].st \in {"pending_add", "pending_update"} /\ bind[n].at = "parked"

(* An active subscription does not stay without any node, wherever its       *)
(* creation, reanimation or change was interrupted and whatever raced it,    *)
(* unless a panel keeps refusing its client: then a parked row tells which.  *)
ActiveIsServed == []<>(row.status = "active" => \E n \in Nodes : Served(n) \/ Parked(n))
=============================================================================
