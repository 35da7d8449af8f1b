------------------------------ MODULE SyncMachine ------------------------------
(***************************************************************************)
(* One subscription, its bindings to VPN nodes and the panels behind them: *)
(* SyncService (internal/service/sync.go, sync_tx.go) driven by the        *)
(* background worker and by the flows of OrderService and                  *)
(* SubscriptionService that change a subscription and then ask for a sync. *)
(*                                                                         *)
(* A pass reads the subscription and its pending rows, calls one panel per *)
(* row and writes each outcome back, with the per-subscription lock held   *)
(* (KeyedLock proves the lock exclusive, so here it is the set of          *)
(* goroutines inside).  The transactions of payments, expiry and           *)
(* chargebacks rewrite the same rows without that lock.  Every database    *)
(* statement, transaction and panel call is one step, and a process crash  *)
(* can fall between any two.                                               *)
(*                                                                         *)
(* A panel call takes effect before it returns or not at all, and its      *)
(* failure does not always tell which.  It fails with an error that is     *)
(* retried ("retry"), with a refusal ("refuse"), or by the ten seconds of  *)
(* the HTTP client, whose error satisfies errors.Is(context.Deadline-      *)
(* Exceeded) and so counts as an end of the caller's context ("hang").     *)
(***************************************************************************)
EXTENDS PlanTable, Sequences

CONSTANTS Plans, FreePlan,
          PlanNodes,      \* plan_nodes: Plans -> SUBSET Nodes
          NoClient,       \* the panel has no client for the subscription
          Worker,         \* the goroutine of SubscriptionSyncWorker
          Callers,        \* goroutines of payment callbacks, admin commands, ...
          Flows,          \* per caller: the flows it may start
          Failures,       \* how a panel call may fail: "retry", "refuse", "hang"
          Retirable,      \* nodes the administrator may deactivate
          Quiet,          \* steps of a pass during which no transaction commits
          MaxFlows, MaxFaults, MaxFlips   \* bounds on the environment

ASSUME PlansAssumption == FreePlan \in Plans /\ NoClient \notin Plans
ASSUME PlanNodesAssumption == PlanNodes \in [Plans -> SUBSET Nodes]
ASSUME ProcsAssumption == Worker \notin Callers
ASSUME FailuresAssumption == Failures \subseteq {"retry", "refuse", "hang"}
ASSUME BoundsAssumption == MaxFlows \in Nat /\ MaxFaults \in Nat /\ MaxFlips \in Nat

Procs == Callers \cup {Worker}

VARIABLES sub,         \* the subscriptions row: status and plan
          bind,        \* its subscription_nodes rows
          panel,       \* per node: the plan whose limits its client has
          nodeActive,  \* nodes.is_active
          reach,       \* whether the node's panel answers
          known,       \* nodeHealth: the last pass saw the node up
          script,      \* per goroutine: the operations its flow has left
          step,        \* per goroutine: where it is in the current one
          snap,        \* per goroutine: the subscription it loaded
          seen,        \* per goroutine: the rows it loaded
          todo,        \* per goroutine: the nodes it has still to visit
          result,      \* per goroutine: the node it called and the answer
          drained,     \* history: a revocation's removal queue is complete
          flows, faults, flips

dbVars   == <<sub, bind>>
envVars  == <<nodeActive, reach, flips>>
procVars == <<script, step, snap, seen, todo, result>>
vars == <<sub, bind, panel, nodeActive, reach, known, script, step, snap, seen,
          todo, result, drained, flows, faults, flips>>

(* The steps of a goroutine that holds lockSubscription.                   *)
LockedSteps == {"sync_rows", "sync_sub", "worker_sub", "worker_rows", "visit", "write",
                "rec_sub", "rec_rows", "rec_write", "mark_rows", "mark_write",
                "apply_sub", "apply_mark"}
Steps == {"idle", "health", "scan"} \cup LockedSteps

(* Nothing in the code keeps a transaction out of a pass: Quiet is empty    *)
(* except where a run asks what would hold if something did.                *)
ASSUME QuietAssumption == Quiet \subseteq LockedSteps

Ops == {"load", "pay", "downgrade", "setplan", "revoke", "deactivate", "verify",
        "delrows", "delsub", "sync", "markall", "apply"}

(* The flows, as the operations they run in order: ConfirmPayment;         *)
(* ExpireSubscription and the chargeback downgrade; AdminSetPlan;          *)
(* DeactivateBlockedBroadcastRecipients; DeleteByID.                       *)
ScriptOf(f) ==
  CASE f = "payment"    -> <<"pay", "sync">>
    [] f = "downgrade"  -> <<"downgrade", "sync">>
    [] f = "adminPlan"  -> <<"load", "setplan", "apply", "sync">>
    [] f = "deactivate" -> <<"load", "deactivate", "markall", "sync">>
    [] f = "delete"     -> <<"load", "revoke", "markall", "sync", "verify",
                             "delrows", "delsub">>
FlowNames == {"payment", "downgrade", "adminPlan", "deactivate", "delete"}
ASSUME FlowsAssumption == Flows \in [Callers -> SUBSET FlowNames]

Targets(plan) == {n \in PlanNodes[plan] : nodeActive[n]}

Copies == [status : {"active", "revoked", "deleted"}, plan : Plans, targets : SUBSET Nodes]
Copy == [status |-> sub.status, plan |-> sub.plan, targets |-> Targets(sub.plan)]
NoCopy == [status |-> "deleted", plan |-> FreePlan, targets |-> {}]
NoRows == [n \in Nodes |-> NoRow]
NoResult == <<>>
Results == {NoResult} \cup (Nodes \X {"ok", "gone", "retry", "refuse", "hang"})

TypeOK ==
  /\ sub \in [status : {"active", "revoked", "deleted"}, plan : Plans]
  /\ bind \in [Nodes -> Rows]
  /\ panel \in [Nodes -> Plans \cup {NoClient}]
  /\ nodeActive \in [Nodes -> BOOLEAN]
  /\ reach \in [Nodes -> BOOLEAN]
  /\ known \in [Nodes -> BOOLEAN]
  /\ script \in [Procs -> Seq(Ops)]
  /\ step \in [Procs -> Steps]
  /\ snap \in [Procs -> Copies]
  /\ seen \in [Procs -> [Nodes -> Rows]]
  /\ todo \in [Procs -> SUBSET Nodes]
  /\ result \in [Procs -> Results]
  /\ drained \in {"no", "marking", "yes"}
  /\ flows \in Nat /\ faults \in Nat /\ flips \in Nat

(* A subscription just created, its rows queued by ensureSubscriptionNodes; *)
(* one provisioned on its plan; or one with new limits queued for panels    *)
(* that have lost its clients, as the fallback from update to create meets. *)
Init ==
  /\ \E plan \in Plans, st \in {"pending_add", "active", "pending_update"} :
       /\ sub = [status |-> "active", plan |-> plan]
       /\ bind = [n \in Nodes |-> IF n \in PlanNodes[plan] THEN Fresh(st) ELSE NoRow]
       /\ panel = [n \in Nodes |-> IF st = "active" /\ n \in PlanNodes[plan]
                                   THEN plan ELSE NoClient]
  /\ nodeActive = [n \in Nodes |-> TRUE]
  /\ reach = [n \in Nodes |-> TRUE]
  /\ known = [n \in Nodes |-> FALSE]
  /\ script = [p \in Procs |-> <<>>]
  /\ step = [p \in Procs |-> "idle"]
  /\ snap = [p \in Procs |-> NoCopy]
  /\ seen = [p \in Procs |-> NoRows]
  /\ todo = [p \in Procs |-> {}]
  /\ result = [p \in Procs |-> NoResult]
  /\ drained = "no"
  /\ flows = 0 /\ faults = 0 /\ flips = 0

--------------------------------------------------------------------------------
(* Control of a goroutine.                                                  *)
Locked(p) == step[p] \in LockedSteps
Free == \A p \in Procs : ~Locked(p)

Next1(p, op) == step[p] = "idle" /\ script[p] # <<>> /\ Head(script[p]) = op

Goto(p, s) == step' = [step EXCEPT ![p] = s] /\ UNCHANGED script

(* The operation is over: the flow goes on, or gives up with an error.      *)
Forget(p) == /\ seen' = [seen EXCEPT ![p] = NoRows]
             /\ todo' = [todo EXCEPT ![p] = {}]
             /\ result' = [result EXCEPT ![p] = NoResult]
Done(p) == /\ step' = [step EXCEPT ![p] = "idle"]
           /\ script' = [script EXCEPT ![p] = IF @ = <<>> THEN @ ELSE Tail(@)]
           /\ Forget(p)
GiveUp(p) == /\ step' = [step EXCEPT ![p] = "idle"]
             /\ script' = [script EXCEPT ![p] = <<>>]
             /\ Forget(p)

Load(p, rows, nodes) == /\ seen' = [seen EXCEPT ![p] = rows]
                        /\ todo' = [todo EXCEPT ![p] = nodes]
                        /\ UNCHANGED result

StartFlow(p, f) ==
  /\ step[p] = "idle" /\ script[p] = <<>>
  /\ flows < MaxFlows
  /\ flows' = flows + 1
  /\ script' = [script EXCEPT ![p] = ScriptOf(f)]
  /\ snap' = [snap EXCEPT ![p] = NoCopy]
  /\ UNCHANGED <<dbVars, panel, envVars, known, step, seen, todo, result, drained, faults>>

(* lockSubscription timed out: only a sync failure is swallowed.            *)
LockTimeout(p) ==
  /\ ~Free
  /\ \/ Next1(p, "sync") /\ Done(p)
     \/ (Next1(p, "markall") \/ Next1(p, "apply")) /\ GiveUp(p)
     \/ step[p] = "scan" /\ Done(p)
  /\ UNCHANGED <<dbVars, panel, envVars, known, snap, drained, flows, faults>>

--------------------------------------------------------------------------------
(* The statements and transactions that run without the lock.               *)
TxAllowed == \A p \in Procs : step[p] \notin Quiet

Proceed(p) == /\ script' = [script EXCEPT ![p] = Tail(@)]
              /\ UNCHANGED <<step, seen, todo, result>>

Stop(p) == /\ script' = [script EXCEPT ![p] = <<>>]
           /\ UNCHANGED <<step, seen, todo, result>>

LoadSub(p) ==
  /\ Next1(p, "load")
  /\ IF sub.status = "deleted"
     THEN Stop(p) /\ UNCHANGED snap
     ELSE Proceed(p) /\ snap' = [snap EXCEPT ![p] = Copy]
  /\ UNCHANGED <<dbVars, panel, envVars, known, drained, flows, faults>>

(* ConfirmOrderPaidCAS: activates whatever the row was, and applies the     *)
(* plan only if it differs from the row's.                                  *)
PayWithoutPlan(p, plan) ==         \* forgets applyPlan
  /\ Next1(p, "pay")
  /\ TxAllowed
  /\ Proceed(p)
  /\ sub' = [status |-> "active", plan |-> plan]
  /\ drained' = "no"
  /\ UNCHANGED <<bind, panel, envVars, known, snap, flows, faults>>

Pay(p, plan) ==
  /\ Next1(p, "pay")
  /\ TxAllowed
  /\ IF sub.status = "deleted"
     THEN Stop(p) /\ UNCHANGED <<dbVars, drained>>
     ELSE /\ Proceed(p)
          /\ sub' = [status |-> "active", plan |-> plan]
          /\ bind' = IF plan = sub.plan THEN bind ELSE ApplyPlan(bind, Targets(plan))
          /\ drained' = "no"
  /\ UNCHANGED <<panel, envVars, known, snap, flows, faults>>

(* ExpireSubscriptionWithPlanCAS and the downgrade branch of                *)
(* CancelPaidOrderAndDowngradeCAS: only an active subscription changes.     *)
Downgrade(p) ==
  /\ Next1(p, "downgrade")
  /\ TxAllowed
  /\ IF sub.status = "active"
     THEN /\ Proceed(p)
          /\ sub' = [sub EXCEPT !.plan = FreePlan]
          /\ bind' = ApplyPlan(bind, Targets(FreePlan))
     ELSE Stop(p) /\ UNCHANGED dbVars
  /\ UNCHANGED <<panel, envVars, known, snap, drained, flows, faults>>

(* UpdateSubscription writes every column of the copy loaded earlier.       *)
WriteCopy(p, status, plan) ==
  IF sub.status = "deleted" THEN Stop(p) /\ UNCHANGED sub
  ELSE Proceed(p) /\ sub' = [status |-> status, plan |-> plan]

SetPlan(p, plan) ==
  /\ Next1(p, "setplan")
  /\ TxAllowed
  /\ WriteCopy(p, "active", plan)
  /\ drained' = IF sub.status = "deleted" THEN drained ELSE "no"
  /\ UNCHANGED <<bind, panel, envVars, known, snap, flows, faults>>

(* markRevokedSub, in the flow of DeleteByID.                               *)
Revoke(p) ==
  /\ Next1(p, "revoke")
  /\ TxAllowed
  /\ WriteCopy(p, "revoked", snap[p].plan)
  /\ UNCHANGED <<bind, panel, envVars, known, snap, drained, flows, faults>>

(* The same in DeactivateBlockedBroadcastRecipients, which takes up revoked *)
(* subscriptions only while they have bindings left.                        *)
Deactivate(p) ==
  /\ Next1(p, "deactivate")
  /\ TxAllowed
  /\ IF snap[p].status = "active" THEN WriteCopy(p, "revoked", snap[p].plan)
     ELSE /\ UNCHANGED sub
          /\ IF \E n \in Nodes : bind[n].st # "none" THEN Proceed(p) ELSE Stop(p)
  /\ UNCHANGED <<bind, panel, envVars, known, snap, drained, flows, faults>>

(* revokeAndDeprovisionThenDelete after the sync.  The foreign key of       *)
(* subscription_nodes refuses to delete a subscription that has rows.       *)
Verify(p) ==
  /\ Next1(p, "verify")
  /\ IF \A n \in Nodes : bind[n].st = "none" THEN Proceed(p) ELSE Stop(p)
  /\ UNCHANGED <<dbVars, panel, envVars, known, snap, drained, flows, faults>>

DelRows(p) ==
  /\ Next1(p, "delrows")
  /\ TxAllowed
  /\ Proceed(p)
  /\ bind' = NoRows
  /\ UNCHANGED <<sub, panel, envVars, known, snap, drained, flows, faults>>

DelSub(p) ==
  /\ Next1(p, "delsub")
  /\ TxAllowed
  /\ IF \A n \in Nodes : bind[n].st = "none"
     THEN Proceed(p) /\ sub' = [sub EXCEPT !.status = "deleted"]
     ELSE Stop(p) /\ UNCHANGED sub
  /\ UNCHANGED <<bind, panel, envVars, known, snap, drained, flows, faults>>

--------------------------------------------------------------------------------
(* SyncSubscription: pending rows, then the subscription, then syncNodes.   *)
SyncBegin(p) ==
  /\ Next1(p, "sync") /\ Free
  /\ Goto(p, "sync_rows")
  /\ UNCHANGED <<dbVars, panel, envVars, known, snap, seen, todo, result, drained,
                 flows, faults>>

SelectedNodes == {n \in Nodes : Selected(bind[n])}

SyncRows(p) ==
  /\ step[p] = "sync_rows"
  /\ IF SelectedNodes = {} THEN Done(p)
     ELSE Goto(p, "sync_sub") /\ Load(p, bind, SelectedNodes)
  /\ UNCHANGED <<dbVars, panel, envVars, known, snap, drained, flows, faults>>

SyncSub(p) ==
  /\ step[p] = "sync_sub"
  /\ IF sub.status = "deleted" THEN Done(p) /\ UNCHANGED snap
     ELSE /\ Goto(p, "visit")
          /\ snap' = [snap EXCEPT ![p] = Copy]
          /\ UNCHANGED <<seen, todo, result>>
  /\ UNCHANGED <<dbVars, panel, envVars, known, drained, flows, faults>>

(* SyncPendingNodes.  releaseRecoveredNodes pings the nodes with parked     *)
(* rows unless the previous pass saw them up; refreshNodeHealth then pings  *)
(* all of them; the scan decides whether there is something to lock for.    *)
Recovered(n) == bind[n].at = "parked" /\ ~known[n] /\ reach[n]

WorkerRelease ==
  /\ step[Worker] = "idle"
  /\ Goto(Worker, "health")
  /\ bind' = [n \in Nodes |-> IF Recovered(n) THEN Fresh(bind[n].st) ELSE bind[n]]
  /\ UNCHANGED <<sub, panel, envVars, known, snap, seen, todo, result, drained,
                 flows, faults>>

WorkerHealth ==
  /\ step[Worker] = "health"
  /\ Goto(Worker, "scan")
  /\ known' = reach
  /\ UNCHANGED <<dbVars, panel, envVars, snap, seen, todo, result, drained, flows, faults>>

WorkerScan ==
  /\ step[Worker] = "scan"
  /\ IF SelectedNodes = {} THEN Goto(Worker, "idle")
                           ELSE Free /\ Goto(Worker, "worker_sub")
  /\ UNCHANGED <<dbVars, panel, envVars, known, snap, seen, todo, result, drained,
                 flows, faults>>

WorkerSub ==
  /\ step[Worker] = "worker_sub"
  /\ IF sub.status = "deleted" THEN Done(Worker) /\ UNCHANGED snap
     ELSE /\ Goto(Worker, "worker_rows")
          /\ snap' = [snap EXCEPT ![Worker] = Copy]
          /\ UNCHANGED <<seen, todo, result>>
  /\ UNCHANGED <<dbVars, panel, envVars, known, drained, flows, faults>>

WorkerRows ==
  /\ step[Worker] = "worker_rows"
  /\ IF SelectedNodes = {} THEN Done(Worker)
     ELSE Goto(Worker, "visit") /\ Load(Worker, bind, SelectedNodes)
  /\ UNCHANGED <<dbVars, panel, envVars, known, snap, drained, flows, faults>>

--------------------------------------------------------------------------------
(* syncNodes: one loaded row after the other.                               *)
Leave(p, n) == todo' = [todo EXCEPT ![p] = @ \ {n}]

MustRequeue(p, n) == /\ snap[p].status = "revoked"
                     /\ seen[p][n].st \in {"pending_add", "pending_update"}

(* A stale add or update of a revoked subscription becomes a removal before *)
(* any panel is called.  A row that is gone is skipped.                     *)
Requeue(p, n) ==
  /\ step[p] = "visit" /\ n \in todo[p] /\ MustRequeue(p, n)
  /\ bind' = [bind EXCEPT ![n] = SetStatus(@, "pending_remove")]
  /\ IF bind[n].st = "none" THEN Leave(p, n) /\ UNCHANGED seen
     ELSE /\ seen' = [seen EXCEPT ![p][n] = Fresh("pending_remove")]
          /\ UNCHANGED todo
  /\ UNCHANGED <<sub, panel, envVars, known, script, step, snap, result, drained,
                 flows, faults>>

(* processPendingRemove of a node that is inactive: the binding is dropped. *)
DropBinding(p, n) ==
  /\ step[p] = "visit" /\ n \in todo[p]
  /\ seen[p][n].st = "pending_remove" /\ ~nodeActive[n]
  /\ bind' = [bind EXCEPT ![n] = NoRow]
  /\ Leave(p, n)
  /\ UNCHANGED <<sub, panel, envVars, known, script, step, snap, seen, result, drained,
                 flows, faults>>

(* What a panel may answer a call for row r of node n, and what it has done *)
(* by then: r is an add (create, or update what exists), an update or a     *)
(* removal, for a subscription on plan.                                     *)
Applied(r, n, plan) == IF r.st = "pending_remove" THEN NoClient
                       ELSE IF r.st = "pending_update" /\ panel[n] = NoClient
                       THEN NoClient ELSE plan

Answer(r, n) == IF r.st = "pending_update" /\ panel[n] = NoClient THEN "gone" ELSE "ok"

Answers(p, n) ==
  /\ reach[n]
  /\ panel' = [panel EXCEPT ![n] = Applied(seen[p][n], n, snap[p].plan)]
  /\ result' = [result EXCEPT ![p] = <<n, Answer(seen[p][n], n)>>]
  /\ UNCHANGED faults

Fails(p, n) ==
  \E how \in Failures :
    /\ IF reach[n]
       THEN /\ faults < MaxFaults
            /\ faults' = faults + 1
            /\ \/ UNCHANGED panel
               \/ /\ how # "refuse"
                  /\ panel' = [panel EXCEPT ![n] = Applied(seen[p][n], n, snap[p].plan)]
       ELSE UNCHANGED <<panel, faults>>
    /\ result' = [result EXCEPT ![p] = <<n, how>>]

Call(p, n) ==
  /\ step[p] = "visit" /\ n \in todo[p]
  /\ ~MustRequeue(p, n)
  /\ seen[p][n].st = "pending_remove" => nodeActive[n]
  /\ Answers(p, n) \/ Fails(p, n)
  /\ Goto(p, "write")
  /\ UNCHANGED <<dbVars, envVars, known, snap, seen, todo, drained, flows>>

(* handleSyncError: one rung up, or parked when the ladder is exhausted or  *)
(* the panel refused.  The counter is the one loaded with the row.          *)
RetryEndless(row, tries, how) ==       \* the rung after the last is climbed too
  IF row.st = "none" THEN row
  ELSE IF how = "refuse" \/ tries > MaxRetries
  THEN [row EXCEPT !.tries = tries, !.at = "parked"]
  ELSE [row EXCEPT !.tries = tries + 1, !.at = "later"]

RetryKeepsSlot(row, tries, how) ==     \* parks without a far-future retry_at
  IF row.st = "none" THEN row
  ELSE IF how = "refuse" \/ tries = MaxRetries
  THEN [row EXCEPT !.tries = tries, !.at = "later"]
  ELSE [row EXCEPT !.tries = tries + 1, !.at = "later"]

UpdateRetry(row, tries, how) ==
  IF row.st = "none" THEN row
  ELSE IF how = "refuse" \/ tries = MaxRetries
  THEN [row EXCEPT !.tries = tries, !.at = "parked"]
  ELSE [row EXCEPT !.tries = tries + 1, !.at = "later"]

(* The row as the write after the call leaves it.                           *)
WrittenForgetsClient(row, loaded, how) ==   \* a failed removal forgets the row
  IF loaded.st = "pending_remove" THEN NoRow
  ELSE CASE how = "ok"   -> SetStatus(row, "active")
         [] how = "gone" -> SetStatus(row, "pending_add")
         [] OTHER        -> UpdateRetry(row, loaded.tries, how)

WrittenTrustsRow(row, loaded, how) ==       \* an update that found no client is done
  CASE how = "ok"   -> IF loaded.st = "pending_remove" THEN NoRow ELSE SetStatus(row, "active")
    [] how = "gone" -> SetStatus(row, "active")
    [] OTHER        -> UpdateRetry(row, loaded.tries, how)

Written(row, loaded, how) ==
  CASE how = "ok"   -> IF loaded.st = "pending_remove" THEN NoRow ELSE SetStatus(row, "active")
    [] how = "gone" -> SetStatus(row, "pending_add")
    [] OTHER        -> UpdateRetry(row, loaded.tries, how)

Finish(p) ==
  /\ step[p] = "write" /\ result[p][2] # "hang"
  /\ LET n == result[p][1] IN
       /\ bind' = [bind EXCEPT ![n] = Written(@, seen[p][n], result[p][2])]
       /\ Leave(p, n)
  /\ result' = [result EXCEPT ![p] = NoResult]
  /\ Goto(p, "visit")
  /\ UNCHANGED <<sub, panel, envVars, known, snap, seen, drained, flows, faults>>

(* The statement failed: the row keeps what it had.                         *)
FinishFails(p) ==
  /\ step[p] = "write" /\ result[p][2] # "hang"
  /\ faults < MaxFaults
  /\ faults' = faults + 1
  /\ Leave(p, result[p][1])
  /\ result' = [result EXCEPT ![p] = NoResult]
  /\ Goto(p, "visit")
  /\ UNCHANGED <<dbVars, panel, envVars, known, snap, seen, drained, flows>>

CutAtAnyFailure(p) ==  \* every failure is taken for the end of the context
  /\ step[p] = "write" /\ result[p][2] \in Failures
  /\ Goto(p, "visit")
  /\ todo' = [todo EXCEPT ![p] = {}]
  /\ result' = [result EXCEPT ![p] = NoResult]
  /\ UNCHANGED <<dbVars, panel, envVars, known, snap, seen, drained, flows, faults>>

(* A timeout is taken for the end of the context: no retry metadata, and    *)
(* the rows not visited yet are left for another pass.                      *)
CutShort(p) ==
  /\ step[p] = "write" /\ result[p][2] = "hang"
  /\ Goto(p, "visit")
  /\ todo' = [todo EXCEPT ![p] = {}]
  /\ result' = [result EXCEPT ![p] = NoResult]
  /\ UNCHANGED <<dbVars, panel, envVars, known, snap, seen, drained, flows, faults>>

(* The caller's context did end: the statements that follow fail as well.   *)
Abort(p) ==
  /\ step[p] \in {"visit", "write"}
  /\ faults < MaxFaults
  /\ faults' = faults + 1
  /\ Done(p)
  /\ UNCHANGED <<dbVars, panel, envVars, known, snap, drained, flows>>

EndOfVisit(p) ==
  /\ step[p] = "visit" /\ todo[p] = {}
  /\ IF p = Worker THEN Goto(p, "rec_sub") /\ UNCHANGED <<seen, todo, result>>
                   ELSE Done(p)
  /\ UNCHANGED <<dbVars, panel, envVars, known, snap, drained, flows, faults>>

--------------------------------------------------------------------------------
(* reconcilePlanNodesLocked: nothing for a revoked subscription; otherwise  *)
(* the table, one statement per row, from the rows loaded at its start.     *)
RecSubUnguarded(p) ==       \* without the revoked guard
  /\ step[p] = "rec_sub"
  /\ IF sub.status = "deleted" THEN Done(p) /\ UNCHANGED snap
     ELSE /\ Goto(p, "rec_rows")
          /\ snap' = [snap EXCEPT ![p] = Copy]
          /\ UNCHANGED <<seen, todo, result>>
  /\ UNCHANGED <<dbVars, panel, envVars, known, drained, flows, faults>>

RecSub(p) ==
  /\ step[p] = "rec_sub"
  /\ IF sub.status # "active" THEN Done(p) /\ UNCHANGED snap
     ELSE /\ Goto(p, "rec_rows")
          /\ snap' = [snap EXCEPT ![p] = Copy]
          /\ UNCHANGED <<seen, todo, result>>
  /\ UNCHANGED <<dbVars, panel, envVars, known, drained, flows, faults>>

RecRows(p) ==
  /\ step[p] = "rec_rows"
  /\ Goto(p, "rec_write")
  /\ Load(p, bind, Touched(snap[p].targets, bind))
  /\ UNCHANGED <<dbVars, panel, envVars, known, snap, drained, flows, faults>>

RecWrite(p, n) ==
  /\ step[p] = "rec_write" /\ n \in todo[p]
  /\ bind' = [bind EXCEPT ![n] = ReconcileNode(n, snap[p].targets, seen[p][n], @)]
  /\ Leave(p, n)
  /\ UNCHANGED <<sub, panel, envVars, known, script, step, snap, seen, result, drained,
                 flows, faults>>

RecDone(p) ==
  /\ step[p] = "rec_write" /\ todo[p] = {}
  /\ Done(p)
  /\ UNCHANGED <<dbVars, panel, envVars, known, snap, drained, flows, faults>>

(* MarkAllForRemoval: every row that was there becomes pending_remove; a    *)
(* row that vanished in between is an error that ends the flow.             *)
MarkBegin(p) ==
  /\ Next1(p, "markall") /\ Free
  /\ Goto(p, "mark_rows")
  /\ UNCHANGED <<dbVars, panel, envVars, known, snap, seen, todo, result, drained,
                 flows, faults>>

MarkRows(p) ==
  /\ step[p] = "mark_rows"
  /\ Goto(p, "mark_write")
  /\ Load(p, bind, {n \in Nodes : bind[n].st # "none"})
  /\ drained' = IF sub.status = "revoked" /\ drained = "no" THEN "marking" ELSE drained
  /\ UNCHANGED <<dbVars, panel, envVars, known, snap, flows, faults>>

MarkWrite(p, n) ==
  /\ step[p] = "mark_write" /\ n \in todo[p]
  /\ IF bind[n].st = "none" THEN GiveUp(p) /\ UNCHANGED bind
     ELSE /\ bind' = [bind EXCEPT ![n] = SetStatus(@, "pending_remove")]
          /\ Leave(p, n)
          /\ UNCHANGED <<script, step, seen, result>>
  /\ UNCHANGED <<sub, panel, envVars, known, snap, drained, flows, faults>>

MarkDone(p) ==
  /\ step[p] = "mark_write" /\ todo[p] = {}
  /\ Done(p)
  /\ drained' = IF drained = "marking" THEN "yes" ELSE drained
  /\ UNCHANGED <<dbVars, panel, envVars, known, snap, flows, faults>>

(* ApplyPlanToSubscription: mark the active targets, then reconcile.        *)
ApplyBegin(p) ==
  /\ Next1(p, "apply") /\ Free
  /\ Goto(p, "apply_sub")
  /\ UNCHANGED <<dbVars, panel, envVars, known, snap, seen, todo, result, drained,
                 flows, faults>>

ApplySub(p) ==
  /\ step[p] = "apply_sub"
  /\ IF sub.status = "deleted" THEN GiveUp(p) /\ UNCHANGED snap
     ELSE /\ Goto(p, "apply_mark")
          /\ snap' = [snap EXCEPT ![p] = Copy]
          /\ UNCHANGED <<seen, todo, result>>
  /\ UNCHANGED <<dbVars, panel, envVars, known, drained, flows, faults>>

ApplyMark(p) ==
  /\ step[p] = "apply_mark"
  /\ bind' = MarkActive(bind, snap[p].targets)
  /\ Goto(p, "rec_sub")
  /\ UNCHANGED <<sub, panel, envVars, known, snap, seen, todo, result, drained,
                 flows, faults>>

--------------------------------------------------------------------------------
(* The environment: time, panels, the administrator and the process itself. *)
RetryDue(n) ==
  /\ bind[n].at = "later"
  /\ bind' = [bind EXCEPT ![n].at = "now"]
  /\ UNCHANGED <<sub, panel, envVars, known, procVars, drained, flows, faults>>

Flip(n) ==
  /\ flips < MaxFlips
  /\ flips' = flips + 1
  /\ reach' = [reach EXCEPT ![n] = ~@]
  /\ UNCHANGED <<dbVars, panel, nodeActive, known, procVars, drained, flows, faults>>

Retire(n) ==
  /\ n \in Retirable /\ nodeActive[n]
  /\ nodeActive' = [nodeActive EXCEPT ![n] = FALSE]
  /\ UNCHANGED <<dbVars, panel, reach, flips, known, procVars, drained, flows, faults>>

(* A restart forgets the goroutines and the health snapshot.                *)
Crash ==
  /\ faults < MaxFaults
  /\ faults' = faults + 1
  /\ known' = [n \in Nodes |-> FALSE]
  /\ script' = [p \in Procs |-> <<>>]
  /\ step' = [p \in Procs |-> "idle"]
  /\ snap' = [p \in Procs |-> NoCopy]
  /\ seen' = [p \in Procs |-> NoRows]
  /\ todo' = [p \in Procs |-> {}]
  /\ result' = [p \in Procs |-> NoResult]
  /\ drained' = IF drained = "marking" THEN "no" ELSE drained
  /\ UNCHANGED <<dbVars, panel, envVars, flows>>

--------------------------------------------------------------------------------
Unlocked(p) == \/ LoadSub(p) \/ Downgrade(p) \/ Revoke(p) \/ Deactivate(p)
               \/ Verify(p) \/ DelRows(p) \/ DelSub(p)
               \/ \E plan \in Plans \ {FreePlan} : Pay(p, plan)
               \/ \E plan \in Plans : SetPlan(p, plan)

Pass(p) == \/ SyncBegin(p) \/ SyncRows(p) \/ SyncSub(p)
           \/ EndOfVisit(p) \/ Finish(p) \/ CutShort(p)
           \/ RecSub(p) \/ RecRows(p) \/ RecDone(p)
           \/ MarkBegin(p) \/ MarkRows(p) \/ MarkDone(p)
           \/ ApplyBegin(p) \/ ApplySub(p) \/ ApplyMark(p)
           \/ \E n \in Nodes : \/ Requeue(p, n) \/ DropBinding(p, n) \/ Call(p, n)
                               \/ RecWrite(p, n) \/ MarkWrite(p, n)

WorkerPass == WorkerRelease \/ WorkerHealth \/ WorkerScan \/ WorkerSub \/ WorkerRows

Environment == \/ Crash
               \/ \E n \in Nodes : RetryDue(n) \/ Flip(n) \/ Retire(n)
               \/ \E p \in Callers : \E f \in Flows[p] : StartFlow(p, f)
               \/ \E p \in Procs : LockTimeout(p) \/ FinishFails(p) \/ Abort(p)

Next == \/ \E p \in Procs : Unlocked(p) \/ Pass(p)
        \/ WorkerPass
        \/ Environment

Spec == Init /\ [][Next]_vars

(* The worker's ticker fires for ever and time reaches every retry_at.  A   *)
(* goroutine waiting for the lock, or for SQLite's write lock, is served    *)
(* although others take it in between: channel receivers queue in order.    *)
Fairness == /\ \A p \in Procs : SF_vars(Unlocked(p) \/ Pass(p))
            /\ WF_vars(WorkerPass)
            /\ \A n \in Nodes : WF_vars(RetryDue(n))

FairSpec == Spec /\ Fairness

--------------------------------------------------------------------------------
(* A binding is active only where the panel has a client: an interrupted,   *)
(* repeated or failed pass, and a transaction that rewrites the rows in its *)
(* middle, never leave the subserver handing out a link to nothing.         *)
ActiveHasClient == \A n \in Nodes : bind[n].st = "active" => panel[n] # NoClient

(* A client on the panel of a node in service always has a row that can     *)
(* still remove it: removals forget the row only after the client, creates  *)
(* find it there before, whatever times out, crashes or commits in between. *)
NoOrphanClient == \A n \in Nodes :
                    nodeActive[n] /\ panel[n] # NoClient => bind[n].st # "none"

(* Once a revocation has queued every removal, nothing queues the nodes of  *)
(* the subscription again until something activates it: no pass that was    *)
(* running, and no reconciliation, resurrects a revoked subscription.       *)
RevocationSticks == drained = "yes" =>
                      /\ sub.status # "active"
                      /\ \A n \in Nodes : bind[n].st \in {"none", "pending_remove"}

(* A pass is about to be cut short by a call that timed out.                *)
Hangs == \E p \in Procs : step[p] = "write" /\ result[p][2] = "hang"

(* A failing panel is not retried for ever: in the end every binding is     *)
(* settled, or parked out of the reach of every scan, whatever node stays   *)
(* down and whatever was restarted on the way. Only calls that time out     *)
(* again and again, which climb no ladder, can prevent it.                  *)
LadderEnds == []<>Hangs \/ <>[](\A n \in Nodes : \/ bind[n].st \in {"active", "none"}
                                                \/ bind[n].at = "parked")

(* A node that stays down but fails in another way than by timing out for   *)
(* ever keeps no other node from being served: processing continues past a  *)
(* failed node (the comment of syncNodes), although not past a timeout.     *)
FailedNodeBlocksNoOther ==
  []<>Hangs \/ \A n \in Nodes : <>[]reach[n] => <>[](bind[n].st \in {"active", "none"})

(* Once flows and failures stop, the panels hold what the subscription is   *)
(* entitled to, with the limits of its plan, and nothing else.              *)
Entitled(n) == sub.status = "active" /\ n \in Targets(sub.plan)
Converges == <>[](\A n \in Nodes :
                    IF Entitled(n) THEN bind[n].st = "active" /\ panel[n] = sub.plan
                                   ELSE bind[n].st = "none" /\ panel[n] = NoClient)

(* The least a subscriber can expect of a change of plan: the nodes of the *)
(* new plan and no others, even if their limits are still the old ones     *)
(* (state-machine.md: after a successful sync the new nodes are active).   *)
NodeSetConverges == <>[](\A n \in Nodes :
                           /\ bind[n].st = (IF Entitled(n) THEN "active" ELSE "none")
                           /\ (panel[n] # NoClient) = Entitled(n))

(* "Paying reactivates a revoked subscription" (sync_tx.go): a payment for  *)
(* a revoked subscription leaves none of its plan's nodes out or queued for *)
(* removal.                                                                 *)
PayingReactivates ==
  [][sub.status = "revoked" /\ sub'.status = "active"
       => \A n \in Targets(sub.plan)' : bind'[n].st \notin {"none", "pending_remove"}]_vars

(* "A node that answers again frees its parked bindings" (the comment of    *)
(* SyncPendingNodes).                                                       *)
RecoveryReleases == \A n \in Nodes : <>[]reach[n] => []<>(bind[n].at # "parked")

================================================================================
