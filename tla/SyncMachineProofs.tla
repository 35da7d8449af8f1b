--------------------------- MODULE SyncMachineProofs ---------------------------
(***************************************************************************)
(* Facts about SyncMachine for any nodes, plans, goroutines, flows and     *)
(* bounds: what the transition table of plan_reconcile.go achieves, type   *)
(* correctness, the exclusion of passes, that a binding is active only     *)
(* where its panel has a client, that a revoked node stays without one,    *)
(* and that no panel has a client without a row.                           *)
(***************************************************************************)
EXTENDS SyncMachine, SequenceTheorems, TLAPS

(* Every row a transition writes is a row with no retry state.             *)
LEMMA FreshRow == ASSUME NEW st \in Statuses \cup {"none"} PROVE Fresh(st) \in Rows
BY MaxRetriesAssumption DEF Fresh, Rows

LEMMA ReconcileNodeRow ==
  ASSUME NEW n \in Nodes, NEW targets, NEW loaded \in Rows, NEW row \in Rows
  PROVE  ReconcileNode(n, targets, loaded, row) \in Rows
BY FreshRow DEF ReconcileNode, UpsertPendingAdd, SetStatus, Statuses, Pending

LEMMA ReconcileRows ==
  ASSUME NEW rows \in [Nodes -> Rows], NEW targets
  PROVE  Reconcile(rows, targets) \in [Nodes -> Rows]
BY ReconcileNodeRow DEF Reconcile

LEMMA MarkActiveRows ==
  ASSUME NEW rows \in [Nodes -> Rows], NEW targets
  PROVE  MarkActive(rows, targets) \in [Nodes -> Rows]
BY FreshRow DEF MarkActive, Statuses, Pending

LEMMA ApplyPlanRows ==
  ASSUME NEW rows \in [Nodes -> Rows], NEW targets
  PROVE  ApplyPlan(rows, targets) \in [Nodes -> Rows]
BY ReconcileRows, MarkActiveRows DEF ApplyPlan

(* After reconciliation the rows agree with the plan, whatever they were:  *)
(* no target is left out or on its way out, nothing foreign is kept.       *)
THEOREM ReconcileAgrees ==
  ASSUME NEW rows \in [Nodes -> Rows], NEW targets
  PROVE  Agrees(Reconcile(rows, targets), targets)
BY DEF Agrees, Reconcile, ReconcileNode, AddsRow, Reactivates, Drops, SetStatus,
       UpsertPendingAdd, Fresh, Rows, Statuses, Pending

(* A plan change leaves no row marked active on any node: a client of a    *)
(* target keeps being active only through an update with the new limits.   *)
THEOREM ApplyPlanRequeuesActive ==
  ASSUME NEW rows \in [Nodes -> Rows], NEW targets, NEW n \in Nodes
  PROVE  /\ Agrees(ApplyPlan(rows, targets), targets)
         /\ ApplyPlan(rows, targets)[n].st # "active"
<1>1. Agrees(ApplyPlan(rows, targets), targets)
  BY MarkActiveRows, ReconcileAgrees DEF ApplyPlan
<1>2. ApplyPlan(rows, targets)[n].st # "active"
  BY DEF ApplyPlan, Reconcile, MarkActive, ReconcileNode, AddsRow, Reactivates,
         Drops, SetStatus, UpsertPendingAdd, Fresh, Rows, Statuses, Pending
<1> QED BY <1>1, <1>2

(* Reconciling twice is reconciling once: the background path may run the  *)
(* table after every pass without disturbing what it settled.              *)
THEOREM ReconcileIdempotent ==
  ASSUME NEW rows \in [Nodes -> Rows], NEW targets
  PROVE  Reconcile(Reconcile(rows, targets), targets) = Reconcile(rows, targets)
BY DEF Reconcile, ReconcileNode, AddsRow, Reactivates, Drops, SetStatus,
       UpsertPendingAdd, Fresh, Rows, Statuses, Pending

(* The part of TypeOK that the control operators are about.                *)
ControlOK == /\ script \in [Procs -> Seq(Ops)]
             /\ step \in [Procs -> Steps]
             /\ seen \in [Procs -> [Nodes -> Rows]]
             /\ todo \in [Procs -> SUBSET Nodes]
             /\ result \in [Procs -> Results]

LEMMA TailOfScript == ASSUME NEW s \in Seq(Ops), s # <<>> PROVE Tail(s) \in Seq(Ops)
BY HeadTailProperties

LEMMA NoRowType == NoRow \in Rows /\ NoRows \in [Nodes -> Rows]
BY FreshRow DEF NoRow, NoRows

LEMMA SetStatusRow ==
  ASSUME NEW row \in Rows, NEW st \in Statuses PROVE SetStatus(row, st) \in Rows
BY FreshRow DEF SetStatus

LEMMA TargetsType == ASSUME NEW plan \in Plans PROVE Targets(plan) \subseteq Nodes
BY PlanNodesAssumption DEF Targets

LEMMA CopyType == ASSUME TypeOK PROVE Copy \in Copies
BY TargetsType DEF TypeOK, Copy, Copies

LEMMA NoCopyType == NoCopy \in Copies
BY PlansAssumption DEF NoCopy, Copies

LEMMA DoneType == ASSUME TypeOK, NEW p \in Procs, Done(p) PROVE ControlOK'
<1>1. script' \in [Procs -> Seq(Ops)]
  BY TailOfScript DEF TypeOK, Done
<1>2. step' \in [Procs -> Steps]
  BY DEF TypeOK, Done, Steps
<1>3. seen' \in [Procs -> [Nodes -> Rows]] /\ todo' \in [Procs -> SUBSET Nodes]
  BY NoRowType DEF TypeOK, Done, Forget
<1>4. result' \in [Procs -> Results]
  BY DEF TypeOK, Done, Forget, Results
<1> QED BY <1>1, <1>2, <1>3, <1>4 DEF ControlOK

LEMMA GiveUpType == ASSUME TypeOK, NEW p \in Procs, GiveUp(p) PROVE ControlOK'
<1>1. script' \in [Procs -> Seq(Ops)]
  BY DEF TypeOK, GiveUp
<1>2. step' \in [Procs -> Steps]
  BY DEF TypeOK, GiveUp, Steps
<1>3. seen' \in [Procs -> [Nodes -> Rows]] /\ todo' \in [Procs -> SUBSET Nodes]
  BY NoRowType DEF TypeOK, GiveUp, Forget
<1>4. result' \in [Procs -> Results]
  BY DEF TypeOK, GiveUp, Forget, Results
<1> QED BY <1>1, <1>2, <1>3, <1>4 DEF ControlOK

LEMMA ProceedType ==
  ASSUME TypeOK, NEW p \in Procs, script[p] # <<>>, Proceed(p) PROVE ControlOK'
BY TailOfScript DEF TypeOK, Proceed, ControlOK

LEMMA StopType == ASSUME TypeOK, NEW p \in Procs, Stop(p) PROVE ControlOK'
BY DEF TypeOK, Stop, ControlOK

LEMMA GotoType ==
  ASSUME TypeOK, NEW p \in Procs, NEW s \in Steps, Goto(p, s)
  PROVE  step' \in [Procs -> Steps] /\ script' \in [Procs -> Seq(Ops)]
BY DEF TypeOK, Goto

LEMMA LoadType ==
  ASSUME TypeOK, NEW p \in Procs, NEW rows \in [Nodes -> Rows],
         NEW nodes \in SUBSET Nodes, Load(p, rows, nodes)
  PROVE  /\ seen' \in [Procs -> [Nodes -> Rows]]
         /\ todo' \in [Procs -> SUBSET Nodes]
         /\ result' \in [Procs -> Results]
BY DEF TypeOK, Load

--------------------------------------------------------------------------------
(* Type correctness, action by action: the flows and transactions.         *)
LEMMA FlowTypes ==
  ASSUME TypeOK, NEW p \in Procs, NEW f \in FlowNames, StartFlow(p, f) PROVE TypeOK'
<1>1. ScriptOf(f) \in Seq(Ops)
  <2>1. CASE f = "payment"
    BY <2>1 DEF ScriptOf, Ops
  <2>2. CASE f = "downgrade"
    BY <2>2 DEF ScriptOf, Ops
  <2>3. CASE f = "adminPlan"
    BY <2>3 DEF ScriptOf, Ops
  <2>4. CASE f = "deactivate"
    BY <2>4 DEF ScriptOf, Ops
  <2>5. CASE f = "delete"
    BY <2>5 DEF ScriptOf, Ops
  <2> QED BY <2>1, <2>2, <2>3, <2>4, <2>5 DEF FlowNames
<1> QED BY <1>1, NoCopyType DEF TypeOK, StartFlow, dbVars, envVars

LEMMA LockTimeoutType ==
  ASSUME TypeOK, NEW p \in Procs, LockTimeout(p) PROVE TypeOK'
<1>1. ControlOK'
  BY DoneType, GiveUpType DEF LockTimeout
<1> QED BY <1>1 DEF TypeOK, ControlOK, LockTimeout, dbVars, envVars

LEMMA WriteCopyType ==
  ASSUME TypeOK, NEW p \in Procs, script[p] # <<>>,
         NEW status \in {"active", "revoked"}, NEW plan \in Plans,
         WriteCopy(p, status, plan)
  PROVE  ControlOK' /\ sub' \in [status : {"active", "revoked", "deleted"}, plan : Plans]
BY ProceedType, StopType DEF TypeOK, WriteCopy

LEMMA UnlockedType ==
  ASSUME TypeOK, NEW p \in Procs, Unlocked(p) PROVE TypeOK'
<1> USE PlansAssumption
<1>1. CASE LoadSub(p)
  <2>1. ControlOK' /\ snap' \in [Procs -> Copies]
    BY <1>1, ProceedType, StopType, CopyType DEF TypeOK, LoadSub, Next1
  <2> QED BY <1>1, <2>1 DEF TypeOK, ControlOK, LoadSub, dbVars, envVars
<1>2. ASSUME NEW plan \in Plans, Pay(p, plan) PROVE TypeOK'
  <2>1. ControlOK'
    BY <1>2, ProceedType, StopType DEF Pay, Next1
  <2>2. bind' \in [Nodes -> Rows]
    <3>1. bind \in [Nodes -> Rows] /\ ApplyPlan(bind, Targets(plan)) \in [Nodes -> Rows]
      BY ApplyPlanRows DEF TypeOK
    <3> QED BY <1>2, <3>1 DEF Pay, dbVars
  <2>3. sub' \in [status : {"active", "revoked", "deleted"}, plan : Plans]
    BY <1>2 DEF TypeOK, Pay, dbVars
  <2> QED BY <1>2, <2>1, <2>2, <2>3 DEF TypeOK, ControlOK, Pay, dbVars, envVars
<1>3. CASE Downgrade(p)
  <2>1. ControlOK'
    BY <1>3, ProceedType, StopType DEF Downgrade, Next1
  <2>2. bind' \in [Nodes -> Rows]
    BY <1>3, ApplyPlanRows DEF TypeOK, Downgrade, dbVars
  <2>3. sub' \in [status : {"active", "revoked", "deleted"}, plan : Plans]
    BY <1>3 DEF TypeOK, Downgrade, dbVars
  <2> QED BY <1>3, <2>1, <2>2, <2>3 DEF TypeOK, ControlOK, Downgrade, envVars
<1>4. ASSUME NEW plan \in Plans, SetPlan(p, plan) PROVE TypeOK'
  BY <1>4, WriteCopyType DEF TypeOK, ControlOK, SetPlan, Next1, envVars
<1>5. snap[p].plan \in Plans
  BY DEF TypeOK, Copies
<1>6. CASE Revoke(p)
  BY <1>5, <1>6, WriteCopyType DEF TypeOK, ControlOK, Revoke, Next1, envVars
<1>7. CASE Deactivate(p)
  <2>1. ControlOK' /\ sub' \in [status : {"active", "revoked", "deleted"}, plan : Plans]
    <3>1. CASE snap[p].status = "active"
      BY <1>5, <1>7, <3>1, WriteCopyType DEF Deactivate, Next1
    <3>2. CASE snap[p].status # "active"
      BY <1>7, <3>2, ProceedType, StopType DEF TypeOK, Deactivate, Next1
    <3> QED BY <3>1, <3>2
  <2> QED BY <1>7, <2>1 DEF TypeOK, ControlOK, Deactivate, envVars
<1>8. CASE Verify(p)
  <2>1. ControlOK'
    BY <1>8, ProceedType, StopType DEF Verify, Next1
  <2> QED BY <1>8, <2>1 DEF TypeOK, ControlOK, Verify, dbVars, envVars
<1>9. CASE DelRows(p)
  <2>1. ControlOK'
    BY <1>9, ProceedType DEF DelRows, Next1
  <2> QED BY <1>9, <2>1, NoRowType DEF TypeOK, ControlOK, DelRows, envVars
<1>10. CASE DelSub(p)
  <2>1. ControlOK'
    BY <1>10, ProceedType, StopType DEF DelSub, Next1
  <2> QED BY <1>10, <2>1 DEF TypeOK, ControlOK, DelSub, envVars
<1> QED BY <1>1, <1>2, <1>3, <1>4, <1>6, <1>7, <1>8, <1>9, <1>10 DEF Unlocked

--------------------------------------------------------------------------------
(* Type correctness of a pass.                                             *)
LEMMA SelectedType == SelectedNodes \subseteq Nodes
BY DEF SelectedNodes

LEMMA SyncType ==
  ASSUME TypeOK, NEW p \in Procs, SyncBegin(p) \/ SyncRows(p) \/ SyncSub(p)
  PROVE  TypeOK'
<1>1. CASE SyncBegin(p)
  BY <1>1, GotoType DEF TypeOK, SyncBegin, Steps, LockedSteps, dbVars, envVars
<1>2. CASE SyncRows(p)
  <2>1. ControlOK'
    <3>1. CASE SelectedNodes = {}
      BY <1>2, <3>1, DoneType DEF SyncRows
    <3>2. CASE SelectedNodes # {}
      BY <1>2, <3>2, GotoType, LoadType, SelectedType
         DEF TypeOK, ControlOK, SyncRows, Steps, LockedSteps
    <3> QED BY <3>1, <3>2
  <2> QED BY <1>2, <2>1 DEF TypeOK, ControlOK, SyncRows, dbVars, envVars
<1>3. CASE SyncSub(p)
  <2>1. ControlOK' /\ snap' \in [Procs -> Copies]
    <3>1. CASE sub.status = "deleted"
      BY <1>3, <3>1, DoneType DEF TypeOK, SyncSub
    <3>2. CASE sub.status # "deleted"
      BY <1>3, <3>2, GotoType, CopyType
         DEF TypeOK, ControlOK, SyncSub, Steps, LockedSteps
    <3> QED BY <3>1, <3>2
  <2> QED BY <1>3, <2>1 DEF TypeOK, ControlOK, SyncSub, dbVars, envVars
<1> QED BY <1>1, <1>2, <1>3

LEMMA WorkerType == ASSUME TypeOK, WorkerPass PROVE TypeOK'
<1>0. Worker \in Procs
  BY DEF Procs
<1>1. CASE WorkerRelease
  <2>1. \A n \in Nodes : Fresh(bind[n].st) \in Rows
    BY FreshRow DEF TypeOK, Rows
  <2> QED BY <1>0, <1>1, <2>1, GotoType
          DEF TypeOK, WorkerRelease, Steps, LockedSteps, envVars
<1>2. CASE WorkerHealth
  BY <1>0, <1>2, GotoType DEF TypeOK, WorkerHealth, Steps, LockedSteps, dbVars, envVars
<1>3. CASE WorkerScan
  BY <1>0, <1>3, GotoType DEF TypeOK, WorkerScan, Steps, LockedSteps, dbVars, envVars
<1>4. CASE WorkerSub
  <2>1. ControlOK' /\ snap' \in [Procs -> Copies]
    <3>1. CASE sub.status = "deleted"
      BY <1>0, <1>4, <3>1, DoneType DEF TypeOK, WorkerSub
    <3>2. CASE sub.status # "deleted"
      BY <1>0, <1>4, <3>2, GotoType, CopyType
         DEF TypeOK, ControlOK, WorkerSub, Steps, LockedSteps
    <3> QED BY <3>1, <3>2
  <2> QED BY <1>4, <2>1 DEF TypeOK, ControlOK, WorkerSub, dbVars, envVars
<1>5. CASE WorkerRows
  <2>1. ControlOK'
    <3>1. CASE SelectedNodes = {}
      BY <1>0, <1>5, <3>1, DoneType DEF WorkerRows
    <3>2. CASE SelectedNodes # {}
      BY <1>0, <1>5, <3>2, GotoType, LoadType, SelectedType
         DEF TypeOK, ControlOK, WorkerRows, Steps, LockedSteps
    <3> QED BY <3>1, <3>2
  <2> QED BY <1>5, <2>1 DEF TypeOK, ControlOK, WorkerRows, dbVars, envVars
<1> QED BY <1>1, <1>2, <1>3, <1>4, <1>5 DEF WorkerPass

LEMMA WrittenRow ==
  ASSUME NEW row \in Rows, NEW loaded \in Rows, NEW how
  PROVE  Written(row, loaded, how) \in Rows
<1>1. UpdateRetry(row, loaded.tries, how) \in Rows
  <2> DEFINE t == loaded.tries
  <2>1. t \in 0 .. MaxRetries /\ (t # MaxRetries => t + 1 \in 0 .. MaxRetries)
    BY MaxRetriesAssumption DEF Rows
  <2> HIDE DEF t
  <2>2. \A u \in 0 .. MaxRetries, a \in {"now", "later", "parked"} :
          [row EXCEPT !.tries = u, !.at = a] \in Rows
    BY DEF Rows
  <2>3. UpdateRetry(row, t, how) \in Rows
    BY <2>1, <2>2 DEF UpdateRetry
  <2> QED BY <2>3 DEF t
<1> QED BY <1>1, SetStatusRow, NoRowType DEF Written, Statuses, Pending

LEMMA VisitType ==
  ASSUME TypeOK, NEW p \in Procs, NEW n \in Nodes,
         Requeue(p, n) \/ DropBinding(p, n) \/ Call(p, n)
  PROVE  TypeOK'
<1>1. CASE Requeue(p, n)
  <2>1. bind' \in [Nodes -> Rows]
    BY <1>1, SetStatusRow DEF TypeOK, Requeue, Statuses, Pending
  <2>2. Fresh("pending_remove") \in Rows
    BY FreshRow DEF Statuses, Pending
  <2>3. seen' \in [Procs -> [Nodes -> Rows]] /\ todo' \in [Procs -> SUBSET Nodes]
    <3>1. [seen[p] EXCEPT ![n] = Fresh("pending_remove")] \in [Nodes -> Rows]
      BY <2>2 DEF TypeOK
    <3>2. /\ seen' = seen \/ seen' = [seen EXCEPT ![p] = [seen[p] EXCEPT ![n] = Fresh("pending_remove")]]
          /\ todo' = todo \/ Leave(p, n)
      BY <1>1 DEF TypeOK, Requeue
    <3>3. seen' \in [Procs -> [Nodes -> Rows]]
      <4>1. seen \in [Procs -> [Nodes -> Rows]]
        BY DEF TypeOK
      <4> QED BY <3>1, <3>2, <4>1
    <3>4. todo' \in [Procs -> SUBSET Nodes]
      <4>1. todo \in [Procs -> SUBSET Nodes]
        BY DEF TypeOK
      <4>2. Leave(p, n) => todo' \in [Procs -> SUBSET Nodes]
        BY <4>1 DEF Leave
      <4> QED BY <3>2, <4>1, <4>2
    <3> QED BY <3>3, <3>4
  <2> QED BY <1>1, <2>1, <2>3 DEF TypeOK, Requeue, envVars
<1>2. CASE DropBinding(p, n)
  BY <1>2, NoRowType DEF TypeOK, DropBinding, Leave, envVars
<1>3. CASE Call(p, n)
  <2>1. step' \in [Procs -> Steps] /\ script' \in [Procs -> Seq(Ops)]
    BY <1>3, GotoType DEF Call, Steps, LockedSteps
  <2>2. Applied(seen[p][n], n, snap[p].plan) \in Plans \cup {NoClient}
    BY DEF TypeOK, Applied, Copies
  <2>3. panel' \in [Nodes -> Plans \cup {NoClient}]
    BY <1>3, <2>2 DEF TypeOK, Call, Answers, Fails
  <2>4. result' \in [Procs -> Results]
    <3>1. CASE Answers(p, n)
      BY <3>1 DEF TypeOK, Answers, Answer, Results
    <3>2. CASE Fails(p, n)
      <4>1. PICK how \in Failures : result' = [result EXCEPT ![p] = <<n, how>>]
        BY <3>2 DEF Fails
      <4>2. <<n, how>> \in Results
        BY FailuresAssumption DEF Results
      <4> QED BY <4>1, <4>2 DEF TypeOK
    <3> QED BY <1>3, <3>1, <3>2 DEF Call
  <2>5. faults' \in Nat
    BY <1>3 DEF TypeOK, Call, Answers, Fails
  <2> QED BY <1>3, <2>1, <2>3, <2>4, <2>5 DEF TypeOK, Call, dbVars, envVars
<1> QED BY <1>1, <1>2, <1>3

LEMMA WriteType ==
  ASSUME TypeOK, NEW p \in Procs,
         \/ Finish(p) \/ FinishFails(p) \/ CutShort(p) \/ Abort(p) \/ EndOfVisit(p),
         step[p] = "write" => result[p][1] \in Nodes
  PROVE  TypeOK'
<1>1. CASE Finish(p)
  <2>1. bind' \in [Nodes -> Rows]
    <3>1. result[p][1] \in Nodes
      BY <1>1 DEF Finish
    <3>2. /\ bind[result[p][1]] \in Rows
          /\ seen[p][result[p][1]] \in Rows
      BY <3>1 DEF TypeOK
    <3> QED BY <1>1, <3>1, <3>2, WrittenRow DEF TypeOK, Finish
  <2>2. ControlOK'
    BY <1>1, GotoType DEF TypeOK, ControlOK, Finish, Leave, Results, Steps, LockedSteps
  <2> QED BY <1>1, <2>1, <2>2 DEF TypeOK, ControlOK, Finish, envVars
<1>2. CASE FinishFails(p)
  <2>1. ControlOK'
    BY <1>2, GotoType DEF TypeOK, ControlOK, FinishFails, Leave, Results, Steps, LockedSteps
  <2> QED BY <1>2, <2>1 DEF TypeOK, ControlOK, FinishFails, dbVars, envVars
<1>3. CASE CutShort(p)
  <2>1. ControlOK'
    BY <1>3, GotoType DEF TypeOK, ControlOK, CutShort, Results, Steps, LockedSteps
  <2> QED BY <1>3, <2>1 DEF TypeOK, ControlOK, CutShort, dbVars, envVars
<1>4. CASE Abort(p)
  BY <1>4, DoneType DEF TypeOK, ControlOK, Abort, dbVars, envVars
<1>5. CASE EndOfVisit(p)
  <2>1. ControlOK'
    <3>1. CASE p = Worker
      BY <1>5, <3>1, GotoType DEF TypeOK, ControlOK, EndOfVisit, Steps, LockedSteps
    <3>2. CASE p # Worker
      BY <1>5, <3>2, DoneType DEF EndOfVisit
    <3> QED BY <3>1, <3>2
  <2> QED BY <1>5, <2>1 DEF TypeOK, ControlOK, EndOfVisit, dbVars, envVars
<1> QED BY <1>1, <1>2, <1>3, <1>4, <1>5

LEMMA ReconcileType ==
  ASSUME TypeOK, NEW p \in Procs,
         \/ RecSub(p) \/ RecRows(p) \/ RecDone(p)
         \/ \E n \in Nodes : RecWrite(p, n)
  PROVE  TypeOK'
<1>1. CASE RecSub(p)
  <2>1. ControlOK' /\ snap' \in [Procs -> Copies]
    <3>1. CASE sub.status # "active"
      BY <1>1, <3>1, DoneType DEF TypeOK, RecSub
    <3>2. CASE sub.status = "active"
      BY <1>1, <3>2, GotoType, CopyType DEF TypeOK, ControlOK, RecSub, Steps, LockedSteps
    <3> QED BY <3>1, <3>2
  <2> QED BY <1>1, <2>1 DEF TypeOK, ControlOK, RecSub, dbVars, envVars
<1>2. CASE RecRows(p)
  <2>1. Touched(snap[p].targets, bind) \in SUBSET Nodes
    BY DEF Touched
  <2>2. ControlOK'
    BY <1>2, <2>1, GotoType, LoadType DEF TypeOK, ControlOK, RecRows, Steps, LockedSteps
  <2> QED BY <1>2, <2>2 DEF TypeOK, ControlOK, RecRows, dbVars, envVars
<1>3. ASSUME NEW n \in Nodes, RecWrite(p, n) PROVE TypeOK'
  <2>1. ReconcileNode(n, snap[p].targets, seen[p][n], bind[n]) \in Rows
    BY ReconcileNodeRow DEF TypeOK
  <2> QED BY <1>3, <2>1 DEF TypeOK, RecWrite, Leave, envVars
<1>4. CASE RecDone(p)
  BY <1>4, DoneType DEF TypeOK, ControlOK, RecDone, dbVars, envVars
<1> QED BY <1>1, <1>2, <1>3, <1>4

LEMMA MarkType ==
  ASSUME TypeOK, NEW p \in Procs,
         \/ MarkBegin(p) \/ MarkRows(p) \/ MarkDone(p)
         \/ \E n \in Nodes : MarkWrite(p, n)
  PROVE  TypeOK'
<1>1. CASE MarkBegin(p)
  BY <1>1, GotoType DEF TypeOK, MarkBegin, Steps, LockedSteps, dbVars, envVars
<1>2. CASE MarkRows(p)
  <2>1. ControlOK'
    BY <1>2, GotoType, LoadType DEF TypeOK, ControlOK, MarkRows, Steps, LockedSteps
  <2> QED BY <1>2, <2>1 DEF TypeOK, ControlOK, MarkRows, dbVars, envVars
<1>3. ASSUME NEW n \in Nodes, MarkWrite(p, n) PROVE TypeOK'
  <2>1. bind' \in [Nodes -> Rows]
    <3>1. SetStatus(bind[n], "pending_remove") \in Rows
      BY SetStatusRow DEF TypeOK, Statuses, Pending
    <3>2. bind' = bind \/ bind' = [bind EXCEPT ![n] = SetStatus(@, "pending_remove")]
      BY <1>3 DEF MarkWrite
    <3> QED BY <3>1, <3>2 DEF TypeOK
  <2>2. ControlOK'
    <3>1. CASE bind[n].st = "none"
      BY <1>3, <3>1, GiveUpType DEF MarkWrite
    <3>2. CASE bind[n].st # "none"
      <4>1. Leave(p, n) /\ UNCHANGED <<script, step, seen, result>>
        BY <1>3, <3>2 DEF MarkWrite
      <4> QED BY <4>1 DEF TypeOK, ControlOK, Leave
    <3> QED BY <3>1, <3>2
  <2> QED BY <1>3, <2>1, <2>2 DEF TypeOK, ControlOK, MarkWrite, envVars
<1>4. CASE MarkDone(p)
  BY <1>4, DoneType DEF TypeOK, ControlOK, MarkDone, dbVars, envVars
<1> QED BY <1>1, <1>2, <1>3, <1>4

LEMMA ApplyType ==
  ASSUME TypeOK, NEW p \in Procs, ApplyBegin(p) \/ ApplySub(p) \/ ApplyMark(p)
  PROVE  TypeOK'
<1>1. CASE ApplyBegin(p)
  BY <1>1, GotoType DEF TypeOK, ApplyBegin, Steps, LockedSteps, dbVars, envVars
<1>2. CASE ApplySub(p)
  <2>1. ControlOK' /\ snap' \in [Procs -> Copies]
    <3>1. CASE sub.status = "deleted"
      BY <1>2, <3>1, GiveUpType DEF TypeOK, ApplySub
    <3>2. CASE sub.status # "deleted"
      BY <1>2, <3>2, GotoType, CopyType
         DEF TypeOK, ControlOK, ApplySub, Steps, LockedSteps
    <3> QED BY <3>1, <3>2
  <2> QED BY <1>2, <2>1 DEF TypeOK, ControlOK, ApplySub, dbVars, envVars
<1>3. CASE ApplyMark(p)
  BY <1>3, GotoType, MarkActiveRows DEF TypeOK, ApplyMark, Steps, LockedSteps, envVars
<1> QED BY <1>1, <1>2, <1>3

LEMMA EnvironmentType ==
  ASSUME TypeOK, \/ Crash
                 \/ \E n \in Nodes : RetryDue(n) \/ Flip(n) \/ Retire(n)
  PROVE  TypeOK'
<1>1. CASE Crash
  <2>1. <<>> \in Seq(Ops)
    OBVIOUS
  <2> QED BY <1>1, <2>1, NoRowType, NoCopyType
          DEF TypeOK, Crash, Steps, Results, dbVars, envVars
<1>2. ASSUME NEW n \in Nodes, RetryDue(n) PROVE TypeOK'
  <2>1. [bind[n] EXCEPT !.at = "now"] \in Rows
    <3>1. \A row \in Rows : [row EXCEPT !.at = "now"] \in Rows
      BY DEF Rows
    <3> QED BY <3>1 DEF TypeOK
  <2>2. bind' \in [Nodes -> Rows]
    BY <1>2, <2>1 DEF TypeOK, RetryDue
  <2> QED BY <1>2, <2>2 DEF TypeOK, RetryDue, envVars, procVars
<1>3. ASSUME NEW n \in Nodes, Flip(n) PROVE TypeOK'
  BY <1>3 DEF TypeOK, Flip, dbVars, procVars
<1>4. ASSUME NEW n \in Nodes, Retire(n) PROVE TypeOK'
  BY <1>4 DEF TypeOK, Retire, dbVars, procVars
<1> QED BY <1>1, <1>2, <1>3, <1>4

--------------------------------------------------------------------------------
(* Why ActiveHasClient holds: passes exclude each other, so nobody else    *)
(* removes the client between a call and the write of its outcome; and a   *)
(* row on a pass's list cannot become active under it, because only a pass *)
(* makes a row active and the transactions never do.                       *)
Exclusive == \A p, q \in Procs : Locked(p) /\ Locked(q) => p = q

Visiting == {"sync_sub", "visit", "write"}

VisitedInactive == \A p \in Procs : \A n \in todo[p] :
                     step[p] \in Visiting => bind[n].st # "active"

AnsweredVisit == \A p \in Procs : step[p] = "write" =>
                   /\ result[p] \in todo[p] \X {"ok", "gone", "retry", "refuse", "hang"}
                   /\ result[p][2] = "ok" /\ seen[p][result[p][1]].st # "pending_remove"
                        => panel[result[p][1]] # NoClient

IInv == TypeOK /\ Exclusive /\ VisitedInactive /\ AnsweredVisit /\ ActiveHasClient

LEMMA InitInv == Init => IInv
<1> SUFFICES ASSUME Init PROVE IInv
  OBVIOUS
<1>1. PICK plan \in Plans, st \in {"pending_add", "active", "pending_update"} :
        /\ sub = [status |-> "active", plan |-> plan]
        /\ bind = [n \in Nodes |-> IF n \in PlanNodes[plan] THEN Fresh(st) ELSE NoRow]
        /\ panel = [n \in Nodes |-> IF st = "active" /\ n \in PlanNodes[plan]
                                    THEN plan ELSE NoClient]
  BY DEF Init
<1>2. bind \in [Nodes -> Rows]
  BY <1>1, FreshRow, NoRowType DEF Statuses, Pending
<1>3. ControlOK /\ snap \in [Procs -> Copies]
  <2>1. <<>> \in Seq(Ops)
    OBVIOUS
  <2> QED BY <2>1, NoRowType, NoCopyType DEF Init, ControlOK, Steps, Results
<1>4. TypeOK
  BY <1>1, <1>2, <1>3 DEF Init, TypeOK, ControlOK
<1>5. Exclusive /\ VisitedInactive /\ AnsweredVisit
  BY DEF Init, Exclusive, VisitedInactive, AnsweredVisit, Locked, LockedSteps, Visiting
<1>6. ActiveHasClient
  BY <1>1, PlansAssumption DEF ActiveHasClient, Fresh, NoRow
<1> QED BY <1>4, <1>5, <1>6 DEF IInv

(* Only goroutine p moved.                                                 *)
OthersStay(p) == \A q \in Procs \ {p} : /\ step'[q] = step[q] /\ todo'[q] = todo[q]
                                        /\ result'[q] = result[q] /\ seen'[q] = seen[q]

NoRowActivated == \A n \in Nodes : bind'[n].st = "active" => bind[n].st = "active"

(* The step of p begins no panel call, and a list it makes or keeps is one *)
(* of inactive rows.                                                       *)
ListsInactive(p) == \/ step'[p] \notin Visiting
                    \/ /\ step'[p] # "write"
                       /\ \A n \in todo'[p] : bind'[n].st # "active"

LockKept(p) == step'[p] \in LockedSteps => Locked(p) \/ Free

LEMMA Frame ==
  ASSUME IInv, TypeOK', NEW p \in Procs, OthersStay(p), NoRowActivated,
         ListsInactive(p), LockKept(p), UNCHANGED panel
  PROVE  IInv'
<1>1. Exclusive'
  BY DEF IInv, Exclusive, Locked, OthersStay, LockKept, Free
<1>2. VisitedInactive'
  <2> SUFFICES ASSUME NEW q \in Procs, NEW n \in todo'[q], step'[q] \in Visiting
               PROVE  bind'[n].st # "active"
    BY DEF VisitedInactive
  <2>1. n \in Nodes
    BY DEF TypeOK
  <2>2. CASE q = p
    BY <2>2 DEF ListsInactive, Visiting
  <2>3. CASE q # p
    BY <2>1, <2>3 DEF OthersStay, NoRowActivated, IInv, VisitedInactive
  <2> QED BY <2>2, <2>3
<1>3. AnsweredVisit'
  <2> SUFFICES ASSUME NEW q \in Procs, step'[q] = "write"
               PROVE  /\ result'[q] \in todo'[q] \X {"ok", "gone", "retry", "refuse", "hang"}
                      /\ result'[q][2] = "ok" /\ seen'[q][result'[q][1]].st # "pending_remove"
                            => panel'[result'[q][1]] # NoClient
    BY DEF AnsweredVisit
  <2>1. q # p
    BY DEF ListsInactive, Visiting
  <2> QED BY <2>1 DEF OthersStay, IInv, AnsweredVisit
<1>4. ActiveHasClient'
  BY DEF IInv, ActiveHasClient, NoRowActivated
<1> QED BY <1>1, <1>2, <1>3, <1>4 DEF IInv

(* What the control operators do to the lists and to the lock.             *)
LEMMA ControlFrame ==
  ASSUME TypeOK, NEW p \in Procs
  PROVE  /\ Done(p) \/ GiveUp(p) => step'[p] = "idle" /\ OthersStay(p)
         /\ Proceed(p) \/ Stop(p) => OthersStay(p) /\ step' = step /\ todo' = todo
         /\ \A s \in Steps : Goto(p, s) => /\ step'[p] = s
                                          /\ \A q \in Procs \ {p} : step'[q] = step[q]
         /\ \A rows, nodes : Load(p, rows, nodes) =>
               /\ todo'[p] = nodes /\ result' = result
               /\ \A q \in Procs \ {p} : seen'[q] = seen[q] /\ todo'[q] = todo[q]
         /\ \A n : Leave(p, n) => /\ todo'[p] = todo[p] \ {n}
                                  /\ \A q \in Procs \ {p} : todo'[q] = todo[q]
BY DEF TypeOK, Done, GiveUp, Proceed, Stop, Goto, Load, Leave, Forget, OthersStay

LEMMA IdleFrame ==
  ASSUME NEW p \in Procs, step'[p] = "idle"
  PROVE  ListsInactive(p) /\ LockKept(p)
BY DEF ListsInactive, LockKept, Visiting, LockedSteps

LEMMA FlowInv ==
  ASSUME IInv, NEW p \in Procs, NEW f \in FlowNames, StartFlow(p, f) PROVE IInv'
<1>1. TypeOK'
  BY FlowTypes DEF IInv
<1>2. OthersStay(p) /\ step'[p] = "idle"
  BY DEF StartFlow, OthersStay
<1> QED BY <1>1, <1>2, IdleFrame, Frame DEF StartFlow, NoRowActivated, dbVars

LEMMA LockTimeoutInv ==
  ASSUME IInv, NEW p \in Procs, LockTimeout(p) PROVE IInv'
<1>1. TypeOK'
  BY LockTimeoutType DEF IInv
<1>2. OthersStay(p) /\ step'[p] = "idle"
  BY ControlFrame DEF IInv, LockTimeout
<1> QED BY <1>1, <1>2, IdleFrame, Frame DEF LockTimeout, NoRowActivated, dbVars

(* No transaction makes a row active.                                      *)
LEMMA UnlockedInv ==
  ASSUME IInv, NEW p \in Procs, Unlocked(p) PROVE IInv'
<1>1. TypeOK' /\ step[p] = "idle" /\ UNCHANGED panel
  BY UnlockedType DEF IInv, Unlocked, LoadSub, Pay, Downgrade, SetPlan, Revoke,
                      Deactivate, Verify, DelRows, DelSub, Next1
<1>2. Proceed(p) \/ Stop(p)
  BY DEF Unlocked, LoadSub, Pay, Downgrade, SetPlan, Revoke, Deactivate, Verify,
         DelRows, DelSub, WriteCopy
<1>3. OthersStay(p) /\ step'[p] = "idle"
  BY <1>1, <1>2, ControlFrame DEF IInv
<1>4. NoRowActivated
  <2>1. \A targets : \A n \in Nodes : ApplyPlan(bind, targets)[n].st # "active"
    BY ApplyPlanRequeuesActive DEF IInv, TypeOK
  <2>2. ASSUME NEW plan \in Plans, Pay(p, plan) PROVE NoRowActivated
    <3>1. bind' = bind \/ bind' = ApplyPlan(bind, Targets(plan))
      BY <2>2 DEF Pay, dbVars
    <3>2. \A n \in Nodes : ApplyPlan(bind, Targets(plan))[n].st # "active"
      BY <2>1
    <3> QED BY <3>1, <3>2 DEF NoRowActivated
  <2>3. CASE Downgrade(p)
    <3>1. bind' = bind \/ bind' = ApplyPlan(bind, Targets(FreePlan))
      BY <2>3 DEF Downgrade, dbVars
    <3>2. \A n \in Nodes : ApplyPlan(bind, Targets(FreePlan))[n].st # "active"
      BY <2>1
    <3> QED BY <3>1, <3>2 DEF NoRowActivated
  <2>4. CASE DelRows(p)
    BY <2>4 DEF DelRows, NoRowActivated, NoRows, NoRow, Fresh
  <2> QED BY <2>2, <2>3, <2>4
          DEF Unlocked, LoadSub, SetPlan, Revoke, Deactivate, Verify, DelSub,
              NoRowActivated, dbVars
<1> QED BY <1>1, <1>3, <1>4, IdleFrame, Frame

LEMMA SelectedInactive == \A n \in SelectedNodes : bind[n].st # "active"
BY DEF SelectedNodes, Selected, Pending

LEMMA SyncInv ==
  ASSUME IInv, NEW p \in Procs, SyncBegin(p) \/ SyncRows(p) \/ SyncSub(p)
  PROVE  IInv'
<1>1. TypeOK'
  BY SyncType DEF IInv
<1>2. NoRowActivated /\ UNCHANGED panel /\ UNCHANGED bind
  BY DEF SyncBegin, SyncRows, SyncSub, NoRowActivated, dbVars
<1>3. OthersStay(p)
  BY ControlFrame DEF IInv, SyncBegin, SyncRows, SyncSub, OthersStay, Steps, LockedSteps
<1>4. ListsInactive(p) /\ LockKept(p)
  <2>1. CASE SyncBegin(p)
    BY <2>1, ControlFrame DEF IInv, SyncBegin, ListsInactive, LockKept, Visiting, Steps, LockedSteps,
                              Next1
  <2>2. CASE SyncRows(p)
    BY <2>2, ControlFrame, IdleFrame, SelectedInactive
       DEF IInv, SyncRows, ListsInactive, LockKept, Locked, Steps, LockedSteps, dbVars
  <2>3. CASE SyncSub(p)
    BY <2>3, ControlFrame, IdleFrame
       DEF IInv, VisitedInactive, SyncSub, ListsInactive, LockKept, Locked, Visiting, Steps,
           LockedSteps, dbVars
  <2> QED BY <2>1, <2>2, <2>3
<1> QED BY <1>1, <1>2, <1>3, <1>4, Frame

LEMMA WorkerInv == ASSUME IInv, WorkerPass PROVE IInv'
<1>1. TypeOK' /\ Worker \in Procs
  BY WorkerType DEF IInv, Procs
<1>2. NoRowActivated /\ UNCHANGED panel
  <2>1. CASE WorkerRelease
    BY <2>1 DEF WorkerRelease, NoRowActivated, Fresh
  <2> QED BY <2>1 DEF WorkerPass, WorkerHealth, WorkerScan, WorkerSub, WorkerRows,
                      NoRowActivated, dbVars
<1>3. OthersStay(Worker)
  BY <1>1, ControlFrame DEF IInv, WorkerPass, WorkerRelease, WorkerHealth, WorkerScan,
     WorkerSub, WorkerRows, OthersStay, Steps, LockedSteps
<1>4. ListsInactive(Worker) /\ LockKept(Worker)
  <2>1. CASE WorkerRelease \/ WorkerHealth
    BY <1>1, <2>1, ControlFrame DEF IInv, WorkerRelease, WorkerHealth, ListsInactive,
       LockKept, Visiting, Steps, LockedSteps
  <2>2. CASE WorkerScan
    BY <1>1, <2>2, ControlFrame DEF IInv, WorkerScan, ListsInactive,
       LockKept, Visiting, Steps, LockedSteps
  <2>3. CASE WorkerSub
    BY <1>1, <2>3, ControlFrame, IdleFrame DEF IInv, WorkerSub, ListsInactive,
       LockKept, Locked, Visiting, Steps, LockedSteps
  <2>4. CASE WorkerRows
    BY <1>1, <2>4, ControlFrame, IdleFrame, SelectedInactive DEF IInv, WorkerRows,
       ListsInactive, LockKept, Locked, Steps, LockedSteps, dbVars
  <2> QED BY <2>1, <2>2, <2>3, <2>4 DEF WorkerPass
<1> QED BY <1>1, <1>2, <1>3, <1>4, Frame

LEMMA ReconcileInv ==
  ASSUME IInv, NEW p \in Procs,
         \/ RecSub(p) \/ RecRows(p) \/ RecDone(p)
         \/ \E n \in Nodes : RecWrite(p, n)
  PROVE  IInv'
<1>1. TypeOK'
  BY ReconcileType DEF IInv
<1>2. UNCHANGED panel /\ Locked(p)
  BY DEF RecSub, RecRows, RecWrite, RecDone, Locked, LockedSteps
<1>3. NoRowActivated
  <2>1. ASSUME NEW n \in Nodes, RecWrite(p, n) PROVE NoRowActivated
    BY <2>1 DEF IInv, TypeOK, RecWrite, NoRowActivated, ReconcileNode, UpsertPendingAdd,
                SetStatus, Fresh
  <2>2. CASE RecSub(p) \/ RecRows(p) \/ RecDone(p)
    BY <2>2 DEF RecSub, RecRows, RecDone, NoRowActivated, dbVars
  <2> QED BY <2>1, <2>2
<1>4. OthersStay(p) /\ step'[p] \notin Visiting
  BY ControlFrame DEF IInv, TypeOK, RecSub, RecRows, RecWrite, RecDone, OthersStay, Steps,
                      LockedSteps, Visiting
<1> QED BY <1>1, <1>2, <1>3, <1>4, Frame DEF ListsInactive, LockKept

LEMMA MarkInv ==
  ASSUME IInv, NEW p \in Procs,
         \/ MarkBegin(p) \/ MarkRows(p) \/ MarkDone(p)
         \/ \E n \in Nodes : MarkWrite(p, n)
  PROVE  IInv'
<1>1. TypeOK'
  BY MarkType DEF IInv
<1>2. UNCHANGED panel /\ (Locked(p) \/ Free)
  BY DEF MarkBegin, MarkRows, MarkWrite, MarkDone, Locked, LockedSteps
<1>3. NoRowActivated
  <2>1. ASSUME NEW n \in Nodes, MarkWrite(p, n) PROVE NoRowActivated
    <3>1. bind' = bind \/ bind' = [bind EXCEPT ![n] = SetStatus(@, "pending_remove")]
      BY <2>1 DEF MarkWrite
    <3>2. SetStatus(bind[n], "pending_remove").st # "active"
      BY DEF SetStatus, Fresh
    <3> QED BY <3>1, <3>2 DEF IInv, TypeOK, NoRowActivated
  <2>2. CASE MarkBegin(p) \/ MarkRows(p) \/ MarkDone(p)
    BY <2>2 DEF MarkBegin, MarkRows, MarkDone, NoRowActivated, dbVars
  <2> QED BY <2>1, <2>2
<1>4. OthersStay(p) /\ step'[p] \notin Visiting
  BY ControlFrame DEF IInv, TypeOK, MarkBegin, MarkRows, MarkWrite, MarkDone, OthersStay,
                      Steps, LockedSteps, Visiting
<1> QED BY <1>1, <1>2, <1>3, <1>4, Frame DEF ListsInactive, LockKept

LEMMA ApplyInv ==
  ASSUME IInv, NEW p \in Procs, ApplyBegin(p) \/ ApplySub(p) \/ ApplyMark(p)
  PROVE  IInv'
<1>1. TypeOK'
  BY ApplyType DEF IInv
<1>2. UNCHANGED panel /\ (Locked(p) \/ Free)
  BY DEF ApplyBegin, ApplySub, ApplyMark, Locked, LockedSteps
<1>3. NoRowActivated
  BY DEF ApplyBegin, ApplySub, ApplyMark, MarkActive, NoRowActivated, Fresh, dbVars
<1>4. OthersStay(p) /\ step'[p] \notin Visiting
  BY ControlFrame DEF IInv, TypeOK, ApplyBegin, ApplySub, ApplyMark, OthersStay,
                      Steps, LockedSteps, Visiting
<1> QED BY <1>1, <1>2, <1>3, <1>4, Frame DEF ListsInactive, LockKept

LEMMA EnvironmentInv ==
  ASSUME IInv, \/ Crash
               \/ \E n \in Nodes : RetryDue(n) \/ Flip(n) \/ Retire(n)
  PROVE  IInv'
<1>1. TypeOK'
  BY EnvironmentType DEF IInv
<1>2. CASE Crash
  <2>1. Exclusive' /\ VisitedInactive' /\ AnsweredVisit'
    BY <1>2 DEF Crash, Exclusive, VisitedInactive, AnsweredVisit, Locked, LockedSteps, Visiting
  <2>2. ActiveHasClient'
    BY <1>2 DEF Crash, dbVars, IInv, ActiveHasClient
  <2> QED BY <1>1, <2>1, <2>2 DEF IInv
<1>3. CASE \E n \in Nodes : RetryDue(n) \/ Flip(n) \/ Retire(n)
  <2>1. NoRowActivated /\ UNCHANGED <<panel, procVars>>
    <3>1. ASSUME NEW n \in Nodes, RetryDue(n)
          PROVE  NoRowActivated /\ UNCHANGED <<panel, procVars>>
      <4>1. [bind[n] EXCEPT !.at = "now"].st = bind[n].st
        BY DEF IInv, TypeOK, Rows
      <4>2. bind' = [bind EXCEPT ![n] = [bind[n] EXCEPT !.at = "now"]]
        BY <3>1 DEF RetryDue
      <4> QED BY <3>1, <4>1, <4>2 DEF RetryDue, IInv, TypeOK, NoRowActivated
    <3>2. ASSUME NEW n \in Nodes, Flip(n) \/ Retire(n)
          PROVE  NoRowActivated /\ UNCHANGED <<panel, procVars>>
      BY <3>2 DEF Flip, Retire, NoRowActivated, dbVars
    <3> QED BY <1>3, <3>1, <3>2
  <2>2. Exclusive' /\ AnsweredVisit' /\ ActiveHasClient'
    BY <2>1 DEF procVars, IInv, Exclusive, AnsweredVisit, Locked, ActiveHasClient, NoRowActivated
  <2>3. VisitedInactive'
    BY <2>1 DEF procVars, IInv, TypeOK, VisitedInactive, NoRowActivated
  <2> QED BY <1>1, <2>2, <2>3 DEF IInv
<1> QED BY <1>2, <1>3

(* The visit of one row: a queued removal, a dropped row, a panel call.    *)
LEMMA VisitInv ==
  ASSUME IInv, NEW p \in Procs, NEW n \in Nodes,
         Requeue(p, n) \/ DropBinding(p, n) \/ Call(p, n)
  PROVE  IInv'
<1>1. TypeOK' /\ Locked(p) /\ n \in todo[p] /\ step[p] = "visit"
  BY VisitType DEF IInv, Requeue, DropBinding, Call, Locked, LockedSteps
<1>2. CASE Requeue(p, n) \/ DropBinding(p, n)
  <2>1. /\ bind' = [bind EXCEPT ![n] = SetStatus(@, "pending_remove")]
           \/ bind' = [bind EXCEPT ![n] = NoRow]
        /\ UNCHANGED <<panel, step, result>>
        /\ todo' = todo \/ Leave(p, n)
        /\ \A q \in Procs \ {p} : seen'[q] = seen[q]
    BY <1>2 DEF IInv, TypeOK, Requeue, DropBinding
  <2>2. SetStatus(bind[n], "pending_remove").st # "active" /\ NoRow.st # "active"
    BY DEF SetStatus, NoRow, Fresh
  <2>3. NoRowActivated
    BY <2>1, <2>2 DEF IInv, TypeOK, NoRowActivated
  <2>4. OthersStay(p)
    BY <2>1, ControlFrame DEF IInv, OthersStay
  <2>5. todo'[p] \subseteq todo[p] /\ todo[p] \subseteq Nodes
    BY <2>1, ControlFrame DEF IInv, TypeOK
  <2>6. ListsInactive(p)
    BY <1>1, <2>1, <2>3, <2>5 DEF ListsInactive, IInv, VisitedInactive, NoRowActivated, Visiting
  <2> QED BY <1>1, <2>1, <2>3, <2>4, <2>6, Frame DEF LockKept
<1>3. CASE Call(p, n)
  <2>1. /\ step'[p] = "write" /\ UNCHANGED <<bind, seen, todo>>
        /\ \A q \in Procs \ {p} : step'[q] = step[q] /\ result'[q] = result[q]
        /\ \A m \in Nodes \ {n} : panel'[m] = panel[m]
    <3>1. Answers(p, n) \/ Fails(p, n) =>
            /\ \A q \in Procs \ {p} : result'[q] = result[q]
            /\ \A m \in Nodes \ {n} : panel'[m] = panel[m]
      BY DEF Answers, Fails, IInv, TypeOK
    <3> QED BY <1>3, <3>1, ControlFrame DEF Call, IInv, dbVars, Steps, LockedSteps
  <2>2. \A q \in Procs \ {p} : ~Locked(q)
    BY <1>1 DEF IInv, Exclusive
  <2>3. Exclusive'
    BY <2>1, <2>2 DEF Exclusive, Locked
  <2>4. VisitedInactive'
    BY <1>1, <2>1 DEF IInv, VisitedInactive, Visiting
  <2>5. bind[n].st # "active"
    BY <1>1 DEF IInv, VisitedInactive, Visiting
  <2>6. ActiveHasClient'
    BY <2>1, <2>5 DEF IInv, ActiveHasClient
  <2>7. /\ result'[p] \in todo[p] \X {"ok", "gone", "retry", "refuse", "hang"}
        /\ result'[p][2] = "ok" /\ seen[p][result'[p][1]].st # "pending_remove"
             => panel'[result'[p][1]] # NoClient
    <3>1. CASE Answers(p, n)
      <4>1. snap[p].plan \in Plans /\ snap[p].plan # NoClient
        BY PlansAssumption DEF IInv, TypeOK, Copies
      <4>2. /\ result'[p] = <<n, Answer(seen[p][n], n)>>
            /\ panel'[n] = Applied(seen[p][n], n, snap[p].plan)
        BY <3>1 DEF Answers, IInv, TypeOK
      <4> QED BY <1>1, <4>1, <4>2 DEF Answer, Applied
    <3>2. CASE Fails(p, n)
      <4>1. PICK how \in Failures : result' = [result EXCEPT ![p] = <<n, how>>]
        BY <3>2 DEF Fails
      <4>2. result'[p] = <<n, how>> /\ how # "ok" /\ how \in {"retry", "refuse", "hang"}
        BY <4>1, FailuresAssumption DEF IInv, TypeOK
      <4> QED BY <1>1, <4>2
    <3> QED BY <1>3, <3>1, <3>2 DEF Call
  <2>8. AnsweredVisit'
    <3> SUFFICES ASSUME NEW q \in Procs, step'[q] = "write"
                 PROVE  q = p
      BY <2>1, <2>7 DEF AnsweredVisit
    <3> QED BY <2>1, <2>2 DEF Locked, LockedSteps
  <2> QED BY <1>1, <2>3, <2>4, <2>6, <2>8 DEF IInv
<1> QED BY <1>2, <1>3

(* The write of the outcome, and the ways a pass ends.                     *)
LEMMA WriteInv ==
  ASSUME IInv, NEW p \in Procs,
         \/ Finish(p) \/ FinishFails(p) \/ CutShort(p) \/ Abort(p) \/ EndOfVisit(p)
  PROVE  IInv'
<1>0. step[p] = "write" => /\ result[p][1] \in todo[p] /\ result[p][1] \in Nodes
  BY DEF IInv, TypeOK, AnsweredVisit
<1>1. TypeOK' /\ Locked(p) /\ UNCHANGED panel
  BY <1>0, WriteType DEF IInv, Finish, FinishFails, CutShort, Abort, EndOfVisit, Locked, LockedSteps
<1>2. CASE Abort(p)
  BY <1>1, <1>2, ControlFrame, IdleFrame, Frame DEF Abort, NoRowActivated, dbVars, IInv
<1>3. CASE FinishFails(p) \/ CutShort(p)
  <2>1. OthersStay(p) /\ step'[p] = "visit" /\ todo'[p] \subseteq todo[p]
    BY <1>3, ControlFrame DEF FinishFails, CutShort, OthersStay, IInv, TypeOK, Steps, LockedSteps
  <2>2. ListsInactive(p) /\ NoRowActivated
    BY <1>3, <2>1 DEF FinishFails, CutShort, dbVars, ListsInactive, NoRowActivated, IInv,
                      VisitedInactive, Visiting
  <2> QED BY <1>1, <2>1, <2>2, Frame DEF LockKept
<1>4. CASE EndOfVisit(p)
  <2>1. OthersStay(p) /\ step'[p] \notin Visiting
    BY <1>4, ControlFrame DEF EndOfVisit, OthersStay, IInv, Steps, LockedSteps, Visiting
  <2>2. NoRowActivated
    BY <1>4 DEF EndOfVisit, NoRowActivated, dbVars
  <2> QED BY <1>1, <2>1, <2>2, Frame DEF ListsInactive, LockKept
<1>5. CASE Finish(p)
  <2> DEFINE n == result[p][1]
             how == result[p][2]
  <2>1. /\ bind' = [bind EXCEPT ![n] = Written(@, seen[p][n], how)]
        /\ n \in Nodes /\ step[p] = "write"
    BY <1>0, <1>5 DEF Finish
  <2>2. OthersStay(p) /\ step'[p] = "visit" /\ todo'[p] = todo[p] \ {n}
    BY <1>5, ControlFrame DEF Finish, OthersStay, IInv, TypeOK, Steps, LockedSteps
  <2>3. Exclusive'
    BY <1>1, <2>2 DEF IInv, Exclusive, Locked, OthersStay, LockedSteps
  <2>4. \A q \in Procs \ {p} : step[q] \notin Visiting
    BY <1>1 DEF IInv, Exclusive, Locked, LockedSteps, Visiting
  <2>5. VisitedInactive'
    <3> SUFFICES ASSUME NEW q \in Procs, NEW m \in todo'[q], step'[q] \in Visiting
                 PROVE  bind'[m].st # "active"
      BY DEF VisitedInactive
    <3>1. q = p
      BY <2>2, <2>4 DEF OthersStay
    <3>2. m \in todo[p] /\ m # n
      BY <2>2, <3>1
    <3>3. bind'[m] = bind[m]
      BY <2>1, <3>2 DEF IInv, TypeOK
    <3> QED BY <2>1, <3>2, <3>3 DEF IInv, VisitedInactive, Visiting
  <2>6. AnsweredVisit'
    <3> SUFFICES ASSUME NEW q \in Procs PROVE step'[q] # "write"
      BY DEF AnsweredVisit
    <3> QED BY <2>2, <2>4 DEF OthersStay, Visiting
  <2>7. ActiveHasClient'
    <3> SUFFICES ASSUME NEW m \in Nodes, bind'[m].st = "active"
                 PROVE  panel[m] # NoClient
      BY <1>1 DEF ActiveHasClient
    <3>1. CASE m # n
      BY <2>1, <3>1 DEF IInv, TypeOK, ActiveHasClient
    <3>2. CASE m = n
      <4>1. Written(bind[n], seen[p][n], how).st = "active"
        BY <2>1, <3>2 DEF IInv, TypeOK
      <4>2. CASE bind[n].st = "active"
        BY <3>2, <4>2 DEF IInv, ActiveHasClient
      <4>3. CASE bind[n].st # "active"
        <5>1. UpdateRetry(bind[n], seen[p][n].tries, how).st = bind[n].st
          BY <2>1 DEF IInv, TypeOK, UpdateRetry, Rows
        <5>2. how = "ok" /\ seen[p][n].st # "pending_remove"
          <6>1. NoRow.st # "active" /\ SetStatus(bind[n], "pending_add").st # "active"
            BY <4>3 DEF SetStatus, NoRow, Fresh
          <6>2. CASE how = "ok"
            BY <4>1, <6>1, <6>2 DEF Written
          <6>3. CASE how = "gone"
            BY <4>1, <6>1, <6>3 DEF Written
          <6>4. CASE how # "ok" /\ how # "gone"
            BY <4>1, <4>3, <5>1, <6>4 DEF Written
          <6> QED BY <6>2, <6>3, <6>4
        <5> QED BY <2>1, <3>2, <5>2 DEF IInv, AnsweredVisit
      <4> QED BY <4>2, <4>3
    <3> QED BY <3>1, <3>2
  <2> QED BY <1>1, <2>3, <2>5, <2>6, <2>7 DEF IInv
<1> QED BY <1>2, <1>3, <1>4, <1>5

--------------------------------------------------------------------------------
(* Every step of the system preserves the invariant.                       *)
LEMMA StepInv == IInv /\ [Next]_vars => IInv'
<1> SUFFICES ASSUME IInv, [Next]_vars PROVE IInv'
  OBVIOUS
<1>1. ASSUME NEW p \in Procs, Unlocked(p) \/ Pass(p) PROVE IInv'
  <2>1. ASSUME NEW n \in Nodes, \/ Requeue(p, n) \/ DropBinding(p, n) \/ Call(p, n)
                                \/ RecWrite(p, n) \/ MarkWrite(p, n)
        PROVE  IInv'
    BY <2>1, VisitInv, ReconcileInv, MarkInv
  <2>2. CASE RecSub(p) \/ RecRows(p) \/ RecDone(p)
    BY <2>2, ReconcileInv
  <2>3. CASE MarkBegin(p) \/ MarkRows(p) \/ MarkDone(p)
    BY <2>3, MarkInv
  <2>4. CASE \/ SyncBegin(p) \/ SyncRows(p) \/ SyncSub(p) \/ EndOfVisit(p) \/ Finish(p)
             \/ CutShort(p) \/ ApplyBegin(p) \/ ApplySub(p) \/ ApplyMark(p)
    BY <2>4, SyncInv, WriteInv, ApplyInv
  <2>5. CASE Unlocked(p)
    BY <2>5, UnlockedInv
  <2> QED BY <1>1, <2>1, <2>2, <2>3, <2>4, <2>5 DEF Pass
<1>2. CASE WorkerPass
  BY <1>2, WorkerInv
<1>3. CASE Environment
  <2>1. ASSUME NEW p \in Callers, NEW f \in Flows[p], StartFlow(p, f) PROVE IInv'
    BY <2>1, FlowsAssumption, FlowInv DEF Procs
  <2>2. ASSUME NEW p \in Procs, LockTimeout(p) \/ FinishFails(p) \/ Abort(p) PROVE IInv'
    BY <2>2, LockTimeoutInv, WriteInv
  <2> QED BY <1>3, <2>1, <2>2, EnvironmentInv DEF Environment
<1>4. CASE UNCHANGED vars
  BY <1>4 DEF vars, IInv, TypeOK, Exclusive, Locked, VisitedInactive, AnsweredVisit,
              ActiveHasClient
<1> QED BY <1>1, <1>2, <1>3, <1>4 DEF Next

(* The strengthened invariant holds in every reachable state.              *)
THEOREM InductiveInvariant == Spec => []IInv
BY InitInv, StepInv, PTL DEF Spec

(* Type correctness of the sync pipeline, for any parameters.              *)
THEOREM TypeCorrect == Spec => []TypeOK
<1>1. IInv => TypeOK
  BY DEF IInv
<1> QED BY <1>1, InductiveInvariant, PTL

(* A binding is active only where its panel has a client, for any number   *)
(* of nodes, plans, concurrent flows, failures and crashes.                *)
THEOREM ActiveBindingsHaveClients == Spec => []ActiveHasClient
<1>1. IInv => ActiveHasClient
  BY DEF IInv
<1> QED BY <1>1, InductiveInvariant, PTL
--------------------------------------------------------------------------------
(* Why RevocationSticks holds: while removals are queued the subscription  *)
(* is not active, so no reconciliation begins; whoever queues them holds   *)
(* the lock, so no pass is under way when the last one is queued; and a    *)
(* pass that begins later finds nothing to do but removals.                *)
Reconciling == {"rec_rows", "rec_write"}
Marking == {"mark_rows", "mark_write"}

Settled(row) == row.st \in {"none", "pending_remove"}
AllSettled == \A n \in Nodes : Settled(bind[n])

Inactive == drained # "no" => sub.status # "active"

MarkedSoFar(p) == drained = "marking" /\ step[p] = "mark_write"
                    => \A n \in Nodes \ todo[p] : Settled(bind[n])

NoRevival(p) == drained = "yes" =>
  /\ step[p] \notin Reconciling
  /\ step[p] \in Visiting => \A n \in todo[p] : seen[p][n].st = "pending_remove"

(* Only an update is answered with "the client is gone".                   *)
GoneIsUpdate(p) == step[p] = "write" /\ result[p][2] = "gone"
                     => seen[p][result[p][1]].st = "pending_update"

Removing(p) == MarkedSoFar(p) /\ NoRevival(p) /\ GoneIsUpdate(p)

RInv == Inactive /\ (drained = "yes" => AllSettled) /\ \A p \in Procs : Removing(p)

LEMMA InitRevocation == Init => RInv
BY DEF Init, RInv, Inactive, Removing, MarkedSoFar, NoRevival, GoneIsUpdate, Reconciling,
       Visiting

(* What a step of p leaves alone unless it activates the subscription.     *)
KeepsSettled == \A n \in Nodes : Settled(bind[n]) => Settled(bind'[n])
StaysRevoked == drained' = drained /\ KeepsSettled
                /\ (drained # "no" /\ sub.status # "active" => sub'.status # "active")

LEMMA RevocationFrame ==
  ASSUME IInv, RInv, TypeOK', NEW p \in Procs, OthersStay(p), drained' = "no" \/ StaysRevoked,
         Removing(p)'
  PROVE  RInv'
<1>1. Inactive' /\ (drained' = "yes" => AllSettled')
  BY DEF RInv, Inactive, AllSettled, StaysRevoked, KeepsSettled
<1>2. ASSUME NEW q \in Procs \ {p} PROVE Removing(q)'
  <2>1. Removing(q)
    BY DEF RInv
  <2>2. /\ step'[q] = step[q] /\ todo'[q] = todo[q]
        /\ result'[q] = result[q] /\ seen'[q] = seen[q]
    BY DEF OthersStay
  <2>3. MarkedSoFar(q)'
    BY <2>1, <2>2 DEF Removing, MarkedSoFar, StaysRevoked, KeepsSettled
  <2>4. NoRevival(q)' /\ GoneIsUpdate(q)'
    BY <2>1, <2>2 DEF Removing, NoRevival, GoneIsUpdate, StaysRevoked
  <2> QED BY <2>3, <2>4 DEF Removing
<1> QED BY <1>1, <1>2 DEF RInv

LEMMA NotRemoving ==
  ASSUME NEW p \in Procs, step'[p] \notin Visiting \cup Reconciling \cup Marking
  PROVE  Removing(p)'
BY DEF Removing, MarkedSoFar, NoRevival, GoneIsUpdate, Visiting, Reconciling, Marking

LEMMA UnlockedRevocation ==
  ASSUME IInv, RInv, NEW p \in Procs, Unlocked(p) PROVE RInv'
<1>1. TypeOK' /\ step[p] = "idle"
  BY UnlockedType DEF IInv, Unlocked, LoadSub, Pay, Downgrade, SetPlan, Revoke,
                      Deactivate, Verify, DelRows, DelSub, Next1
<1>2. Proceed(p) \/ Stop(p)
  BY DEF Unlocked, LoadSub, Pay, Downgrade, SetPlan, Revoke, Deactivate, Verify,
         DelRows, DelSub, WriteCopy
<1>3. OthersStay(p) /\ Removing(p)'
  BY <1>1, <1>2, ControlFrame, NotRemoving DEF IInv, Visiting, Reconciling, Marking
<1>4. drained' = "no" \/ StaysRevoked
  <2>1. ASSUME NEW plan \in Plans, Pay(p, plan) \/ SetPlan(p, plan)
        PROVE  drained' = "no" \/ StaysRevoked
    BY <2>1 DEF Pay, SetPlan, WriteCopy, StaysRevoked, KeepsSettled, dbVars
  <2>2. CASE Downgrade(p)
    BY <2>2 DEF Downgrade, StaysRevoked, KeepsSettled, RInv, Inactive, dbVars
  <2>3. CASE DelRows(p)
    BY <2>3 DEF DelRows, StaysRevoked, KeepsSettled, Settled, NoRows, NoRow, Fresh
  <2>4. CASE LoadSub(p) \/ Verify(p)
    BY <2>4 DEF LoadSub, Verify, StaysRevoked, KeepsSettled, dbVars
  <2>5. CASE Revoke(p) \/ Deactivate(p)
    BY <2>5 DEF Revoke, Deactivate, WriteCopy, StaysRevoked, KeepsSettled
  <2>6. CASE DelSub(p)
    BY <2>6 DEF DelSub, StaysRevoked, KeepsSettled, IInv, TypeOK
  <2> QED BY <2>1, <2>2, <2>3, <2>4, <2>5, <2>6 DEF Unlocked
<1> QED BY <1>1, <1>3, <1>4, RevocationFrame

LEMMA SelectedIsRemoval ==
  ASSUME AllSettled, NEW n \in SelectedNodes PROVE bind[n].st = "pending_remove"
BY DEF AllSettled, Settled, SelectedNodes, Selected, Pending

LEMMA SyncRevocation ==
  ASSUME IInv, RInv, NEW p \in Procs, SyncBegin(p) \/ SyncRows(p) \/ SyncSub(p)
  PROVE  RInv'
<1>1. TypeOK' /\ StaysRevoked
  BY SyncType DEF IInv, SyncBegin, SyncRows, SyncSub, StaysRevoked, KeepsSettled, dbVars
<1>2. OthersStay(p)
  BY ControlFrame DEF IInv, SyncBegin, SyncRows, SyncSub, OthersStay, Steps, LockedSteps
<1>3. Removing(p)'
  <2>1. CASE SyncBegin(p)
    BY <2>1, ControlFrame, NotRemoving
       DEF IInv, SyncBegin, Visiting, Reconciling, Marking, Steps, LockedSteps
  <2>2. CASE SyncRows(p) /\ SelectedNodes = {}
    BY <2>2, ControlFrame, NotRemoving DEF IInv, SyncRows, Visiting, Reconciling, Marking
  <2>3. CASE SyncRows(p) /\ SelectedNodes # {}
    <3>1. step'[p] = "sync_sub" /\ todo'[p] = SelectedNodes /\ seen'[p] = bind
      BY <2>3, ControlFrame DEF IInv, TypeOK, SyncRows, Load, Steps, LockedSteps
    <3> QED BY <1>1, <3>1, SelectedIsRemoval
            DEF RInv, StaysRevoked, Removing, MarkedSoFar, NoRevival, GoneIsUpdate, Reconciling
  <2>4. CASE SyncSub(p) /\ sub.status = "deleted"
    BY <2>4, ControlFrame, NotRemoving DEF IInv, SyncSub, Visiting, Reconciling, Marking
  <2>5. CASE SyncSub(p) /\ sub.status # "deleted"
    <3>1. step'[p] = "visit" /\ UNCHANGED <<todo, seen>> /\ step[p] = "sync_sub"
      BY <2>5, ControlFrame DEF IInv, SyncSub, Steps, LockedSteps
    <3> QED BY <1>1, <3>1
            DEF RInv, StaysRevoked, Removing, MarkedSoFar, NoRevival, GoneIsUpdate, Reconciling,
                Visiting
  <2> QED BY <2>1, <2>2, <2>3, <2>4, <2>5
<1> QED BY <1>1, <1>2, <1>3, RevocationFrame

LEMMA WorkerRevocation == ASSUME IInv, RInv, WorkerPass PROVE RInv'
<1>1. TypeOK' /\ Worker \in Procs
  BY WorkerType DEF IInv, Procs
<1>2. StaysRevoked
  <2>1. CASE WorkerRelease
    BY <2>1 DEF WorkerRelease, StaysRevoked, KeepsSettled, Settled, Fresh
  <2> QED BY <2>1 DEF WorkerPass, WorkerHealth, WorkerScan, WorkerSub, WorkerRows,
                      StaysRevoked, KeepsSettled, dbVars
<1>3. OthersStay(Worker)
  BY <1>1, ControlFrame DEF IInv, WorkerPass, WorkerRelease, WorkerHealth, WorkerScan,
     WorkerSub, WorkerRows, OthersStay, Steps, LockedSteps
<1>4. Removing(Worker)'
  <2>1. CASE WorkerRelease \/ WorkerHealth \/ WorkerScan \/ WorkerSub
    BY <1>1, <2>1, ControlFrame, NotRemoving DEF IInv, WorkerRelease, WorkerHealth, WorkerScan,
       WorkerSub, Visiting, Reconciling, Marking, Steps, LockedSteps
  <2>2. CASE WorkerRows /\ SelectedNodes = {}
    BY <1>1, <2>2, ControlFrame, NotRemoving DEF IInv, WorkerRows, Visiting, Reconciling, Marking
  <2>3. CASE WorkerRows /\ SelectedNodes # {}
    <3>1. step'[Worker] = "visit" /\ todo'[Worker] = SelectedNodes /\ seen'[Worker] = bind
      BY <1>1, <2>3, ControlFrame DEF IInv, TypeOK, WorkerRows, Load, Steps, LockedSteps
    <3> QED BY <1>2, <3>1, SelectedIsRemoval
            DEF RInv, StaysRevoked, Removing, MarkedSoFar, NoRevival, GoneIsUpdate, Reconciling
  <2> QED BY <2>1, <2>2, <2>3 DEF WorkerPass
<1> QED BY <1>1, <1>2, <1>3, <1>4, RevocationFrame

(* A pass that goes on while everything is settled only removes.           *)
LEMMA VisitRevocation ==
  ASSUME IInv, RInv, NEW p \in Procs, NEW n \in Nodes,
         Requeue(p, n) \/ DropBinding(p, n) \/ Call(p, n)
  PROVE  RInv'
<1>1. TypeOK' /\ n \in todo[p] /\ step[p] = "visit"
  BY VisitType DEF IInv, Requeue, DropBinding, Call
<1>2. Removing(p)
  BY DEF RInv
<1>3. CASE Requeue(p, n) \/ DropBinding(p, n)
  <2>1. /\ \/ bind' = [bind EXCEPT ![n] = SetStatus(@, "pending_remove")]
           \/ bind' = [bind EXCEPT ![n] = NoRow]
        /\ UNCHANGED <<sub, step, result, drained>>
        /\ todo' = todo \/ Leave(p, n)
        /\ \A q \in Procs \ {p} : seen'[q] = seen[q]
        /\ \A m \in Nodes : seen'[p][m].st \in {seen[p][m].st, "pending_remove"}
    <3>1. CASE DropBinding(p, n)
      BY <3>1 DEF DropBinding
    <3>2. CASE Requeue(p, n)
      <4>1. \/ seen' = seen
            \/ seen' = [seen EXCEPT ![p] = [seen[p] EXCEPT ![n] = Fresh("pending_remove")]]
        BY <3>2 DEF IInv, TypeOK, Requeue
      <4>2. seen[p] \in [Nodes -> Rows] /\ Fresh("pending_remove").st = "pending_remove"
        BY DEF IInv, TypeOK, Fresh
      <4>3. /\ \A q \in Procs \ {p} : seen'[q] = seen[q]
            /\ \A m \in Nodes : seen'[p][m].st \in {seen[p][m].st, "pending_remove"}
        <5>1. CASE seen' = seen
          BY <5>1
        <5>2. CASE seen' = [seen EXCEPT ![p] = [seen[p] EXCEPT ![n] = Fresh("pending_remove")]]
          <6>1. /\ \A q \in Procs \ {p} : seen'[q] = seen[q]
                /\ seen'[p] = [seen[p] EXCEPT ![n] = Fresh("pending_remove")]
            BY <5>2 DEF IInv, TypeOK
          <6>2. ASSUME NEW m \in Nodes PROVE seen'[p][m].st \in {seen[p][m].st, "pending_remove"}
            BY <4>2, <6>1
          <6> QED BY <6>1, <6>2
        <5> QED BY <4>1, <5>1, <5>2
      <4> QED BY <3>2, <4>3 DEF Requeue
    <3> QED BY <1>3, <3>1, <3>2
  <2>2. Settled(SetStatus(bind[n], "pending_remove")) /\ Settled(NoRow)
    BY DEF SetStatus, NoRow, Fresh, Settled
  <2>3. StaysRevoked
    BY <2>1, <2>2 DEF IInv, TypeOK, StaysRevoked, KeepsSettled
  <2>4. OthersStay(p) /\ todo'[p] \subseteq todo[p] /\ todo[p] \subseteq Nodes
    BY <2>1, ControlFrame DEF IInv, TypeOK, OthersStay
  <2>5. Removing(p)'
    <3>1. step'[p] = "visit" /\ drained' = drained
      BY <1>1, <2>1
    <3>2. NoRevival(p)'
      BY <1>1, <1>2, <2>1, <2>4, <3>1 DEF Removing, NoRevival, Reconciling, Visiting
    <3> QED BY <3>1, <3>2 DEF Removing, MarkedSoFar, GoneIsUpdate
  <2> QED BY <1>1, <2>3, <2>4, <2>5, RevocationFrame
<1>4. CASE Call(p, n)
  <2>1. /\ step'[p] = "write" /\ UNCHANGED <<bind, sub, seen, todo, drained>>
        /\ \A q \in Procs \ {p} : step'[q] = step[q] /\ result'[q] = result[q]
    <3>1. Answers(p, n) \/ Fails(p, n) => \A q \in Procs \ {p} : result'[q] = result[q]
      BY DEF Answers, Fails, IInv, TypeOK
    <3> QED BY <1>4, <3>1, ControlFrame DEF Call, IInv, dbVars, Steps, LockedSteps
  <2>2. StaysRevoked /\ OthersStay(p)
    BY <2>1 DEF StaysRevoked, KeepsSettled, OthersStay
  <2>3. GoneIsUpdate(p)'
    <3>1. CASE Answers(p, n)
      BY <2>1, <3>1 DEF Answers, Answer, GoneIsUpdate, IInv, TypeOK
    <3>2. CASE Fails(p, n)
      <4>1. PICK how \in Failures : result' = [result EXCEPT ![p] = <<n, how>>]
        BY <3>2 DEF Fails
      <4> QED BY <4>1, FailuresAssumption DEF GoneIsUpdate, IInv, TypeOK
    <3> QED BY <1>4, <3>1, <3>2 DEF Call
  <2>4. MarkedSoFar(p)' /\ NoRevival(p)'
    BY <1>1, <1>2, <2>1 DEF Removing, MarkedSoFar, NoRevival, Reconciling, Visiting
  <2> QED BY <1>1, <2>2, <2>3, <2>4, RevocationFrame DEF Removing
<1> QED BY <1>3, <1>4

LEMMA WriteRevocation ==
  ASSUME IInv, RInv, NEW p \in Procs,
         \/ Finish(p) \/ FinishFails(p) \/ CutShort(p) \/ Abort(p) \/ EndOfVisit(p)
  PROVE  RInv'
<1>0. step[p] = "write" => /\ result[p][1] \in todo[p] /\ result[p][1] \in Nodes
  BY DEF IInv, TypeOK, AnsweredVisit
<1>1. TypeOK' /\ step[p] \in {"visit", "write"} /\ UNCHANGED <<sub, drained>>
  BY <1>0, WriteType DEF IInv, Finish, FinishFails, CutShort, Abort, EndOfVisit, dbVars
<1>2. Removing(p)
  BY DEF RInv
<1>3. CASE Abort(p) \/ EndOfVisit(p)
  <2>1. OthersStay(p) /\ step'[p] \in {"idle", "rec_sub"} /\ UNCHANGED bind
    BY <1>3, ControlFrame DEF Abort, EndOfVisit, OthersStay, IInv, Steps, LockedSteps, dbVars
  <2> QED BY <1>1, <2>1, NotRemoving, RevocationFrame
          DEF StaysRevoked, KeepsSettled, Visiting, Reconciling, Marking
<1>4. CASE Finish(p) \/ FinishFails(p) \/ CutShort(p)
  <2>1. /\ OthersStay(p) /\ step'[p] = "visit" /\ todo'[p] \subseteq todo[p]
        /\ UNCHANGED seen
    BY <1>4, ControlFrame DEF Finish, FinishFails, CutShort, OthersStay, IInv, TypeOK, Steps,
                              LockedSteps
  <2>2. Removing(p)'
    BY <1>1, <1>2, <2>1 DEF Removing, MarkedSoFar, NoRevival, GoneIsUpdate, Reconciling, Visiting
  <2>3. CASE ~Finish(p)
    BY <1>1, <1>4, <2>1, <2>2, <2>3, RevocationFrame
       DEF FinishFails, CutShort, StaysRevoked, KeepsSettled, dbVars
  <2>4. CASE Finish(p)
    <3> DEFINE n == result[p][1]
               how == result[p][2]
    <3>1. /\ bind' = [bind EXCEPT ![n] = Written(@, seen[p][n], how)]
          /\ n \in Nodes /\ n \in todo[p] /\ step[p] = "write"
      BY <1>0, <2>4 DEF Finish
    <3>2. ASSUME drained = "yes" PROVE Settled(Written(bind[n], seen[p][n], how))
      <4>1. seen[p][n].st = "pending_remove" /\ how # "gone" /\ Settled(bind[n])
        BY <1>2, <3>1, <3>2 DEF Removing, NoRevival, GoneIsUpdate, Visiting, RInv, AllSettled
      <4>2. UpdateRetry(bind[n], seen[p][n].tries, how).st = bind[n].st
        BY <3>1 DEF IInv, TypeOK, UpdateRetry, Rows
      <4> QED BY <4>1, <4>2 DEF Written, Settled, NoRow, Fresh
    <3>3. drained = "yes" => AllSettled'
      BY <3>1, <3>2 DEF IInv, TypeOK, RInv, AllSettled
    <3>4. \A q \in Procs \ {p} : ~Locked(q)
      BY <1>1 DEF IInv, Exclusive, Locked, LockedSteps
    <3>5. ASSUME NEW q \in Procs \ {p} PROVE Removing(q)'
      BY <2>1, <3>4 DEF OthersStay, Locked, LockedSteps, Removing, MarkedSoFar, NoRevival,
                        GoneIsUpdate, Reconciling, Visiting
    <3> QED BY <1>1, <2>2, <3>3, <3>5 DEF RInv, Inactive
  <2> QED BY <2>3, <2>4
<1> QED BY <1>3, <1>4

(* A reconciliation that runs excludes a queue that is complete.           *)
LEMMA ReconcileRevocation ==
  ASSUME IInv, RInv, NEW p \in Procs,
         \/ RecSub(p) \/ RecRows(p) \/ RecDone(p)
         \/ \E n \in Nodes : RecWrite(p, n)
  PROVE  RInv'
<1>1. TypeOK' /\ UNCHANGED <<sub, drained>>
  BY ReconcileType DEF IInv, RecSub, RecRows, RecDone, RecWrite, dbVars
<1>2. OthersStay(p) /\ Locked(p)
  BY ControlFrame DEF IInv, TypeOK, RecSub, RecRows, RecWrite, RecDone, OthersStay, Steps,
                      LockedSteps, Locked
<1>3. CASE RecSub(p) \/ RecDone(p)
  <2>1. step'[p] = "idle" \/ (step'[p] = "rec_rows" /\ sub.status = "active")
    BY <1>3, ControlFrame DEF IInv, RecSub, RecDone, Steps, LockedSteps
  <2>2. Removing(p)'
    BY <1>1, <2>1 DEF RInv, Inactive, Removing, MarkedSoFar, NoRevival, GoneIsUpdate, Visiting,
                      Reconciling
  <2> QED BY <1>1, <1>2, <1>3, <2>2, RevocationFrame
          DEF RecSub, RecDone, StaysRevoked, KeepsSettled, dbVars
<1>4. CASE RecRows(p) \/ \E n \in Nodes : RecWrite(p, n)
  <2>1. step'[p] = "rec_write" /\ step[p] \in Reconciling
    BY <1>4, ControlFrame DEF IInv, TypeOK, RecRows, RecWrite, Steps, LockedSteps, Reconciling
  <2>2. drained # "yes"
    BY <2>1 DEF RInv, Removing, NoRevival
  <2>3. ASSUME NEW q \in Procs PROVE Removing(q)'
    <3>1. CASE q = p
      BY <1>1, <2>1, <2>2, <3>1 DEF Removing, MarkedSoFar, NoRevival, GoneIsUpdate
    <3>2. CASE q # p
      <4>1. ~Locked(q)
        BY <1>2, <3>2 DEF IInv, Exclusive
      <4> QED BY <1>1, <1>2, <2>2, <3>2, <4>1 DEF OthersStay, Locked, LockedSteps, Removing,
                 MarkedSoFar, NoRevival, GoneIsUpdate
    <3> QED BY <3>1, <3>2
  <2> QED BY <1>1, <2>2, <2>3 DEF RInv, Inactive
<1> QED BY <1>3, <1>4

(* The removals are queued one by one under the lock.                      *)
LEMMA MarkRevocation ==
  ASSUME IInv, RInv, NEW p \in Procs,
         \/ MarkBegin(p) \/ MarkRows(p) \/ MarkDone(p)
         \/ \E n \in Nodes : MarkWrite(p, n)
  PROVE  RInv'
<1>1. TypeOK' /\ UNCHANGED sub
  BY MarkType DEF IInv, MarkBegin, MarkRows, MarkDone, MarkWrite, dbVars
<1>2. OthersStay(p)
  BY ControlFrame DEF IInv, TypeOK, MarkBegin, MarkRows, MarkWrite, MarkDone, OthersStay, Steps,
                      LockedSteps
<1>3. CASE MarkBegin(p)
  <2>1. step'[p] = "mark_rows" /\ StaysRevoked
    BY <1>3, ControlFrame DEF IInv, MarkBegin, Steps, LockedSteps, StaysRevoked, KeepsSettled,
                              dbVars
  <2> QED BY <1>1, <1>2, <2>1, RevocationFrame
          DEF Removing, MarkedSoFar, NoRevival, GoneIsUpdate, Visiting, Reconciling
<1>4. ASSUME NEW n \in Nodes, MarkWrite(p, n) PROVE RInv'
  <2>1. Removing(p) /\ step[p] = "mark_write" /\ drained' = drained
    BY <1>4 DEF RInv, MarkWrite
  <2>2. CASE bind[n].st = "none"
    BY <1>1, <1>2, <1>4, <2>1, <2>2, ControlFrame, NotRemoving, RevocationFrame
       DEF IInv, MarkWrite, StaysRevoked, KeepsSettled, Visiting, Reconciling, Marking
  <2>3. CASE bind[n].st # "none"
    <3>1. /\ bind' = [bind EXCEPT ![n] = SetStatus(@, "pending_remove")]
          /\ Leave(p, n) /\ UNCHANGED step
      BY <1>4, <2>3 DEF MarkWrite
    <3>2. Settled(SetStatus(bind[n], "pending_remove"))
      BY DEF SetStatus, Fresh, Settled
    <3>3. Settled(bind'[n]) /\ \A m \in Nodes \ {n} : bind'[m] = bind[m]
      BY <3>1, <3>2 DEF IInv, TypeOK
    <3>4. StaysRevoked
      BY <1>1, <2>1, <3>3 DEF StaysRevoked, KeepsSettled
    <3>5. todo'[p] = todo[p] \ {n}
      BY <3>1, ControlFrame DEF IInv
    <3>6. Removing(p)'
      BY <2>1, <3>1, <3>3, <3>5 DEF Removing, MarkedSoFar, NoRevival, GoneIsUpdate, Visiting,
                                    Reconciling
    <3> QED BY <1>1, <1>2, <3>4, <3>6, RevocationFrame
  <2> QED BY <2>2, <2>3
<1>5. CASE MarkRows(p) \/ MarkDone(p)
  <2>1. UNCHANGED bind /\ Locked(p)
    BY <1>5 DEF MarkRows, MarkDone, Locked, LockedSteps, dbVars
  <2>2. ASSUME NEW q \in Procs \ {p} PROVE Removing(q)'
    <3>1. ~Locked(q)
      BY <2>1 DEF IInv, Exclusive
    <3> QED BY <1>2, <3>1 DEF OthersStay, Locked, LockedSteps, Removing, MarkedSoFar, NoRevival,
               GoneIsUpdate, Visiting, Reconciling
  <2>3. CASE MarkRows(p)
    <3>1. /\ step'[p] = "mark_write" /\ todo'[p] = {n \in Nodes : bind[n].st # "none"}
          /\ drained' = IF sub.status = "revoked" /\ drained = "no" THEN "marking" ELSE drained
      BY <2>3, ControlFrame DEF IInv, MarkRows, Steps, LockedSteps
    <3>2. Removing(p)'
      BY <2>1, <3>1 DEF Removing, MarkedSoFar, NoRevival, GoneIsUpdate, Visiting, Reconciling,
                        Settled
    <3> QED BY <1>1, <2>1, <2>2, <3>1, <3>2 DEF RInv, Inactive, AllSettled
  <2>4. CASE MarkDone(p)
    <3>1. step'[p] = "idle" /\ step[p] = "mark_write" /\ todo[p] = {}
          /\ drained' = IF drained = "marking" THEN "yes" ELSE drained
      BY <2>4, ControlFrame DEF IInv, MarkDone
    <3>2. Removing(p)'
      BY <3>1, NotRemoving DEF Visiting, Reconciling, Marking
    <3>3. drained' = "yes" => AllSettled
      BY <3>1 DEF RInv, Removing, MarkedSoFar, AllSettled
    <3> QED BY <1>1, <2>1, <2>2, <3>1, <3>2, <3>3 DEF RInv, Inactive, AllSettled
  <2> QED BY <1>5, <2>3, <2>4
<1> QED BY <1>3, <1>4, <1>5

LEMMA ApplyRevocation ==
  ASSUME IInv, RInv, NEW p \in Procs, ApplyBegin(p) \/ ApplySub(p) \/ ApplyMark(p)
  PROVE  RInv'
<1>1. TypeOK' /\ UNCHANGED <<sub, drained>>
  BY ApplyType DEF IInv, ApplyBegin, ApplySub, ApplyMark, dbVars
<1>2. OthersStay(p) /\ Removing(p)'
  <2>1. OthersStay(p) /\ step'[p] \notin Visiting \cup Reconciling \cup Marking
    BY ControlFrame DEF IInv, TypeOK, ApplyBegin, ApplySub, ApplyMark, OthersStay,
                        Steps, LockedSteps, Visiting, Reconciling, Marking
  <2> QED BY <2>1, NotRemoving
<1>3. KeepsSettled
  BY DEF ApplyBegin, ApplySub, ApplyMark, MarkActive, KeepsSettled, Settled, dbVars
<1> QED BY <1>1, <1>2, <1>3, RevocationFrame DEF StaysRevoked

LEMMA EnvironmentRevocation ==
  ASSUME IInv, RInv, \/ Crash
                     \/ \E n \in Nodes : RetryDue(n) \/ Flip(n) \/ Retire(n)
  PROVE  RInv'
<1>1. CASE Crash
  BY <1>1 DEF Crash, dbVars, RInv, Inactive, AllSettled, Removing, MarkedSoFar, NoRevival,
              GoneIsUpdate, Visiting, Reconciling
<1>2. CASE \E n \in Nodes : Flip(n) \/ Retire(n)
  BY <1>2 DEF Flip, Retire, dbVars, procVars, RInv, Inactive, AllSettled, Removing, MarkedSoFar,
              NoRevival, GoneIsUpdate
<1>3. ASSUME NEW n \in Nodes, RetryDue(n) PROVE RInv'
  <2>1. [bind[n] EXCEPT !.at = "now"].st = bind[n].st
    BY DEF IInv, TypeOK, Rows
  <2>2. \A m \in Nodes : bind'[m].st = bind[m].st
    BY <1>3, <2>1 DEF RetryDue, IInv, TypeOK
  <2> QED BY <1>3, <2>2 DEF RetryDue, procVars, RInv, Inactive, AllSettled, Settled, Removing,
             MarkedSoFar, NoRevival, GoneIsUpdate
<1> QED BY <1>1, <1>2, <1>3

LEMMA IdleRevocation ==
  ASSUME IInv, RInv, NEW p \in Procs,
         LockTimeout(p) \/ \E f \in FlowNames : StartFlow(p, f)
  PROVE  RInv'
<1>1. TypeOK'
  BY LockTimeoutType, FlowTypes DEF IInv
<1>2. OthersStay(p) /\ step'[p] = "idle" /\ StaysRevoked
  BY ControlFrame DEF IInv, LockTimeout, StartFlow, OthersStay, StaysRevoked, KeepsSettled, dbVars
<1> QED BY <1>1, <1>2, NotRemoving, RevocationFrame DEF Visiting, Reconciling, Marking

LEMMA StepRevocation == IInv /\ RInv /\ [Next]_vars => RInv'
<1> SUFFICES ASSUME IInv, RInv, [Next]_vars PROVE RInv'
  OBVIOUS
<1>1. ASSUME NEW p \in Procs, Unlocked(p) \/ Pass(p) PROVE RInv'
  <2>1. ASSUME NEW n \in Nodes, \/ Requeue(p, n) \/ DropBinding(p, n) \/ Call(p, n)
                                \/ RecWrite(p, n) \/ MarkWrite(p, n)
        PROVE  RInv'
    BY <2>1, VisitRevocation, ReconcileRevocation, MarkRevocation
  <2>2. CASE RecSub(p) \/ RecRows(p) \/ RecDone(p)
    BY <2>2, ReconcileRevocation
  <2>3. CASE MarkBegin(p) \/ MarkRows(p) \/ MarkDone(p)
    BY <2>3, MarkRevocation
  <2>4. CASE \/ SyncBegin(p) \/ SyncRows(p) \/ SyncSub(p) \/ EndOfVisit(p) \/ Finish(p)
             \/ CutShort(p) \/ ApplyBegin(p) \/ ApplySub(p) \/ ApplyMark(p)
    BY <2>4, SyncRevocation, WriteRevocation, ApplyRevocation
  <2>5. CASE Unlocked(p)
    BY <2>5, UnlockedRevocation
  <2> QED BY <1>1, <2>1, <2>2, <2>3, <2>4, <2>5 DEF Pass
<1>2. CASE WorkerPass
  BY <1>2, WorkerRevocation
<1>3. CASE Environment
  <2>1. ASSUME NEW p \in Callers, NEW f \in Flows[p], StartFlow(p, f) PROVE RInv'
    BY <2>1, FlowsAssumption, IdleRevocation DEF Procs
  <2>2. ASSUME NEW p \in Procs, LockTimeout(p) \/ FinishFails(p) \/ Abort(p) PROVE RInv'
    BY <2>2, IdleRevocation, WriteRevocation
  <2> QED BY <1>3, <2>1, <2>2, EnvironmentRevocation DEF Environment
<1>4. CASE UNCHANGED vars
  BY <1>4 DEF vars, RInv, Inactive, AllSettled, Removing, MarkedSoFar, NoRevival, GoneIsUpdate
<1> QED BY <1>1, <1>2, <1>3, <1>4 DEF Next

(* Once every removal of a revoked subscription is queued, no pass and no  *)
(* reconciliation brings a node back until something activates it again.   *)
THEOREM RevokedStaysRevoked == Spec => []RevocationSticks
<1>1. RInv => RevocationSticks
  BY DEF RInv, Inactive, AllSettled, Settled, RevocationSticks
<1>2. Spec => []RInv
  BY InductiveInvariant, InitRevocation, StepRevocation, PTL DEF Spec
<1> QED BY <1>1, <1>2, PTL
--------------------------------------------------------------------------------
(* Why NoOrphanClient holds: a pass calls a panel only for a row that is   *)
(* there, and forgets a row only after its client.  That leaves the        *)
(* statement of a deletion that removes all rows at once.  It meets none,  *)
(* provided that no other goroutine activates the subscription between the *)
(* revocation and that statement: nothing reconciles then, so rows that    *)
(* are gone stay gone.                                                     *)
Activating == {"payment", "adminPlan"}

DeletionUndisturbed ==
  \A p, q \in Callers : p # q /\ "delete" \in Flows[p] => Flows[q] \cap Activating = {}

(* A goroutine's script is what is left of one of its flows.               *)
SuffixOf(s, t) == Len(s) <= Len(t) /\ \A i \in 1 .. Len(s) : s[i] = t[Len(t) - Len(s) + i]

Scripted(p) == script[p] = <<>> \/ /\ p \in Callers
                                   /\ \E f \in Flows[p] : SuffixOf(script[p], ScriptOf(f))

(* A goroutine that is inside a pass runs the operation the pass is for.   *)
StepFits(p) ==
  \/ step[p] = "idle"
  \/ step[p] \in Marking /\ script[p] # <<>> /\ Head(script[p]) = "markall"
  \/ step[p] \notin Marking /\ (script[p] = <<>> \/ Head(script[p]) \in {"sync", "apply"})

Deleting(p) == script[p] # <<>> /\ script[p][Len(script[p])] = "delsub"

(* A deletion that has revoked the subscription and not deleted it yet.    *)
Dismantling(p) == Deleting(p) /\ Len(script[p]) <= 5

(* A step that activates no subscription that is being dismantled.         *)
NoRevivalMidway == (\E p \in Procs : Dismantling(p)) => sub'.status # "active"

Unreconciled == \A q \in Procs : step[q] \notin Reconciling

(* What a deletion has achieved by the operations it has left.             *)
Closing(p) ==
  /\ Deleting(p) /\ Len(script[p]) <= 5 => sub.status # "active"
  /\ Deleting(p) /\ Len(script[p]) <= 4 => Unreconciled
  /\ Deleting(p) /\ Len(script[p]) <= 2 => \A n \in Nodes : bind[n].st = "none"

VisitsRows(p) == step[p] \in Visiting => \A n \in todo[p] : bind[n].st # "none"

AnsweredRemoval(p) ==
  step[p] = "write" /\ result[p][2] = "ok" /\ seen[p][result[p][1]].st = "pending_remove"
    => panel[result[p][1]] = NoClient

Tidy(p) == StepFits(p) /\ VisitsRows(p) /\ AnsweredRemoval(p)
Orderly(p) == Scripted(p) /\ Closing(p)

OInv == NoOrphanClient /\ \A p \in Procs : Tidy(p) /\ Orderly(p)

LEMMA InitOrphans == Init => OInv
<1> SUFFICES ASSUME Init PROVE OInv
  OBVIOUS
<1>1. \A p \in Procs : Tidy(p) /\ Orderly(p)
  BY DEF Init, Tidy, Orderly, StepFits, VisitsRows, AnsweredRemoval, Scripted, Closing, Deleting,
         Visiting
<1>2. NoOrphanClient
  BY DEF Init, NoOrphanClient, Fresh
<1> QED BY <1>1, <1>2 DEF OInv

LEMMA TailFacts ==
  ASSUME NEW s \in Seq(Ops), s # <<>>
  PROVE  /\ Len(s) \in Nat \ {0} /\ Head(s) = s[1]
         /\ Tail(s) \in Seq(Ops) /\ Len(Tail(s)) = Len(s) - 1
         /\ \A i \in 1 .. Len(s) - 1 : Tail(s)[i] = s[i + 1]
         /\ Len(s) > 1 => Tail(s)[Len(Tail(s))] = s[Len(s)]
<1>1. Len(s) \in Nat \ {0} /\ Len(Tail(s)) = Len(s) - 1 /\ Tail(s) \in Seq(Ops)
  BY HeadTailProperties, EmptySeq
<1>2. Head(s) = s[1] /\ \A i \in 1 .. Len(s) - 1 : Tail(s)[i] = s[i + 1]
  BY <1>1
<1> QED BY <1>1, <1>2

LEMMA ScriptType ==
  ASSUME NEW f \in FlowNames
  PROVE  /\ ScriptOf(f) \in Seq(Ops) /\ ScriptOf(f) # <<>>
         /\ f # "delete" => ScriptOf(f)[Len(ScriptOf(f))] = "sync"
         /\ f \notin Activating => \A i \in 1 .. Len(ScriptOf(f)) : ScriptOf(f)[i] \notin {"pay", "setplan"}
         /\ f # "delete" => \A i \in 1 .. Len(ScriptOf(f)) : ScriptOf(f)[i] # "delrows"
<1>1. CASE f = "payment"
  <2>1. ScriptOf(f) = <<"pay", "sync">>
    BY <1>1 DEF ScriptOf
  <2>2. ScriptOf(f) \in Seq(Ops)
    BY <2>1 DEF Ops
  <2>3. Len(ScriptOf(f)) = 2 /\ ScriptOf(f)[1] = "pay" /\ ScriptOf(f)[2] = "sync"
    BY <2>1
  <2>4. \A i \in 1 .. Len(ScriptOf(f)) : i = 1 \/ i = 2
    BY <2>3
  <2> QED BY <1>1, <2>1, <2>2, <2>3, <2>4 DEF Activating
<1>2. CASE f = "downgrade"
  <2>1. ScriptOf(f) = <<"downgrade", "sync">>
    BY <1>2 DEF ScriptOf
  <2>2. ScriptOf(f) \in Seq(Ops)
    BY <2>1 DEF Ops
  <2>3. Len(ScriptOf(f)) = 2 /\ ScriptOf(f)[1] = "downgrade" /\ ScriptOf(f)[2] = "sync"
    BY <2>1
  <2>4. \A i \in 1 .. Len(ScriptOf(f)) : i = 1 \/ i = 2
    BY <2>3
  <2> QED BY <1>2, <2>1, <2>2, <2>3, <2>4 DEF Activating
<1>3. CASE f = "adminPlan"
  <2>1. ScriptOf(f) = <<"load", "setplan", "apply", "sync">>
    BY <1>3 DEF ScriptOf
  <2>2. ScriptOf(f) \in Seq(Ops)
    BY <2>1 DEF Ops
  <2>3. Len(ScriptOf(f)) = 4 /\ ScriptOf(f)[1] = "load" /\ ScriptOf(f)[2] = "setplan" /\ ScriptOf(f)[3] = "apply" /\ ScriptOf(f)[4] = "sync"
    BY <2>1
  <2>4. \A i \in 1 .. Len(ScriptOf(f)) : i = 1 \/ i = 2 \/ i = 3 \/ i = 4
    BY <2>3
  <2> QED BY <1>3, <2>1, <2>2, <2>3, <2>4 DEF Activating
<1>4. CASE f = "deactivate"
  <2>1. ScriptOf(f) = <<"load", "deactivate", "markall", "sync">>
    BY <1>4 DEF ScriptOf
  <2>2. ScriptOf(f) \in Seq(Ops)
    BY <2>1 DEF Ops
  <2>3. Len(ScriptOf(f)) = 4 /\ ScriptOf(f)[1] = "load" /\ ScriptOf(f)[2] = "deactivate" /\ ScriptOf(f)[3] = "markall" /\ ScriptOf(f)[4] = "sync"
    BY <2>1
  <2>4. \A i \in 1 .. Len(ScriptOf(f)) : i = 1 \/ i = 2 \/ i = 3 \/ i = 4
    BY <2>3
  <2> QED BY <1>4, <2>1, <2>2, <2>3, <2>4 DEF Activating
<1>5. CASE f = "delete"
  <2>1. ScriptOf(f) = <<"load", "revoke", "markall", "sync", "verify", "delrows", "delsub">>
    BY <1>5 DEF ScriptOf
  <2>2. ScriptOf(f) \in Seq(Ops)
    BY <2>1 DEF Ops
  <2>3. Len(ScriptOf(f)) = 7 /\ ScriptOf(f)[1] = "load" /\ ScriptOf(f)[2] = "revoke" /\ ScriptOf(f)[3] = "markall" /\ ScriptOf(f)[4] = "sync" /\ ScriptOf(f)[5] = "verify" /\ ScriptOf(f)[6] = "delrows" /\ ScriptOf(f)[7] = "delsub"
    BY <2>1
  <2>4. \A i \in 1 .. Len(ScriptOf(f)) : i = 1 \/ i = 2 \/ i = 3 \/ i = 4 \/ i = 5 \/ i = 6 \/ i = 7
    BY <2>3
  <2> QED BY <1>5, <2>1, <2>2, <2>3, <2>4 DEF Activating
<1> QED BY <1>1, <1>2, <1>3, <1>4, <1>5 DEF FlowNames

LEMMA DeleteScript ==
  LET t == ScriptOf("delete") IN
    /\ Len(t) = 7 /\ t[1] = "load" /\ t[2] = "revoke" /\ t[3] = "markall" /\ t[4] = "sync"
    /\ t[5] = "verify" /\ t[6] = "delrows" /\ t[7] = "delsub"
<1>1. ScriptOf("delete") = <<"load", "revoke", "markall", "sync", "verify", "delrows", "delsub">>
  BY DEF ScriptOf
<1> QED BY <1>1

LEMMA SuffixEnds ==
  ASSUME NEW s \in Seq(Ops), s # <<>>, NEW t \in Seq(Ops), SuffixOf(s, t)
  PROVE  /\ Len(s) \in 1 .. Len(t) /\ s[Len(s)] = t[Len(t)]
         /\ Head(s) = t[Len(t) - Len(s) + 1]
<1>1. Len(s) \in Nat \ {0} /\ Len(t) \in Nat /\ Head(s) = s[1]
  BY TailFacts
<1>2. \A i \in 1 .. Len(s) : s[i] = t[Len(t) - Len(s) + i]
  BY DEF SuffixOf
<1>3. s[Len(s)] = t[Len(t) - Len(s) + Len(s)] /\ s[1] = t[Len(t) - Len(s) + 1]
  BY <1>1, <1>2
<1>4. Len(t) - Len(s) + Len(s) = Len(t)
  BY <1>1
<1> QED BY <1>1, <1>3, <1>4 DEF SuffixOf

(* Only the flow of a deletion ends by deleting the subscription.          *)
LEMMA DeletingScript ==
  ASSUME TypeOK, NEW p \in Procs, Scripted(p), Deleting(p)
  PROVE  /\ p \in Callers /\ "delete" \in Flows[p] /\ Len(script[p]) \in 1 .. 7
         /\ Head(script[p]) \notin {"pay", "setplan"}
         /\ Len(script[p]) = 6 => Head(script[p]) = "revoke"
         /\ Len(script[p]) = 5 => Head(script[p]) = "markall"
         /\ Len(script[p]) = 3 => Head(script[p]) = "verify"
<1>1. script[p] \in Seq(Ops) /\ script[p] # <<>>
  BY DEF TypeOK, Deleting
<1>2. PICK f \in Flows[p] : p \in Callers /\ SuffixOf(script[p], ScriptOf(f))
  BY <1>1 DEF Scripted
<1>3. f \in FlowNames /\ ScriptOf(f) \in Seq(Ops)
  BY <1>2, FlowsAssumption, ScriptType
<1>4. f = "delete"
  BY <1>1, <1>2, <1>3, SuffixEnds, ScriptType DEF Deleting
<1>5. Len(script[p]) \in 1 .. 7 /\ Head(script[p]) = ScriptOf("delete")[7 - Len(script[p]) + 1]
  BY <1>1, <1>2, <1>3, <1>4, SuffixEnds, DeleteScript
<1> DEFINE k == Len(script[p])
<1>6. /\ k = 1 \/ k = 2 \/ k = 3 \/ k = 4 \/ k = 5 \/ k = 6 \/ k = 7
      /\ Head(script[p]) = ScriptOf("delete")[8 - k]
  BY <1>5
<1> HIDE DEF k
<1>7. /\ Head(script[p]) \notin {"pay", "setplan"}
      /\ k = 6 => Head(script[p]) = "revoke"
      /\ k = 5 => Head(script[p]) = "markall"
      /\ k = 3 => Head(script[p]) = "verify"
  BY <1>6, DeleteScript
<1> QED BY <1>2, <1>4, <1>5, <1>7 DEF k

LEMMA HeadOfScript ==
  ASSUME TypeOK, NEW p \in Procs, Scripted(p), script[p] # <<>>
  PROVE  /\ Head(script[p]) \in {"pay", "setplan"}
              => p \in Callers /\ Flows[p] \cap Activating # {}
         /\ Head(script[p]) = "delrows" => Deleting(p) /\ Len(script[p]) = 2
<1>1. script[p] \in Seq(Ops) /\ script[p] # <<>>
  BY DEF TypeOK
<1>2. PICK f \in Flows[p] : p \in Callers /\ SuffixOf(script[p], ScriptOf(f))
  BY <1>1 DEF Scripted
<1>3. f \in FlowNames /\ ScriptOf(f) \in Seq(Ops)
  BY <1>2, FlowsAssumption, ScriptType
<1>4. \E i \in 1 .. Len(ScriptOf(f)) : Head(script[p]) = ScriptOf(f)[i]
  BY <1>1, <1>2, <1>3, SuffixEnds
<1>5. Head(script[p]) \in {"pay", "setplan"} => f \in Activating
  BY <1>3, <1>4, ScriptType
<1>6. ASSUME Head(script[p]) = "delrows" PROVE Deleting(p) /\ Len(script[p]) = 2
  <2>1. f = "delete"
    BY <1>3, <1>4, <1>6, ScriptType
  <2>2. /\ Len(script[p]) \in 1 .. 7 /\ script[p][Len(script[p])] = "delsub"
        /\ Head(script[p]) = ScriptOf("delete")[7 - Len(script[p]) + 1]
    BY <1>1, <1>2, <1>3, <2>1, SuffixEnds, DeleteScript
  <2> DEFINE k == Len(script[p])
  <2>3. /\ k = 1 \/ k = 2 \/ k = 3 \/ k = 4 \/ k = 5 \/ k = 6 \/ k = 7
        /\ Head(script[p]) = ScriptOf("delete")[8 - k]
    BY <2>2
  <2> HIDE DEF k
  <2>4. k = 2
    BY <1>6, <2>3, DeleteScript
  <2> QED BY <1>1, <2>2, <2>4 DEF Deleting, k
<1> QED BY <1>2, <1>5, <1>6

LEMMA SuffixTail ==
  ASSUME NEW s \in Seq(Ops), s # <<>>, NEW t \in Seq(Ops), SuffixOf(s, t)
  PROVE  SuffixOf(Tail(s), t)
BY TailFacts DEF SuffixOf

(* The script of p goes on, stays or is given up.                          *)
Advances(p) == script[p] # <<>> /\ script'[p] = Tail(script[p])
Moves(p) == /\ script'[p] \in {script[p], <<>>} \/ Advances(p)
            /\ \A q \in Procs \ {p} : script'[q] = script[q]

(* What an operation has to have done by its end.                          *)
Ends(p) == Advances(p) /\ script'[p] # <<>> =>
  /\ Head(script[p]) = "revoke" => sub'.status # "active"
  /\ Head(script[p]) = "markall" => Unreconciled'
  /\ Head(script[p]) = "verify" => \A n \in Nodes : bind'[n].st = "none"

KeepsNone == \A n \in Nodes : bind[n].st = "none" => bind'[n].st = "none"
KeepsRows == \A n \in Nodes : bind[n].st # "none" => bind'[n].st # "none"

(* A step that respects the deletions under way.                           *)
Undisturbed == (\E q \in Procs : Dismantling(q)) /\ sub.status # "active" =>
                 /\ sub'.status # "active"
                 /\ Unreconciled => Unreconciled' /\ KeepsNone

LEMMA ClosingFrame ==
  ASSUME TypeOK, TypeOK', OInv, NEW p \in Procs, Moves(p), Ends(p), Undisturbed
  PROVE  \A q \in Procs : Orderly(q)'
<1> SUFFICES ASSUME NEW q \in Procs PROVE Orderly(q)'
  OBVIOUS
<1>1. Scripted(q) /\ Closing(q) /\ script[q] \in Seq(Ops)
  BY DEF OInv, Orderly, TypeOK
<1>2. script'[q] \in {script[q], <<>>} \/ (q = p /\ Advances(p))
  BY DEF Moves
<1>3. Scripted(q)'
  <2>1. CASE script'[q] \in {script[q], <<>>}
    BY <1>1, <2>1 DEF Scripted, SuffixOf
  <2>2. CASE q = p /\ Advances(p)
    <3>1. PICK f \in Flows[q] : q \in Callers /\ SuffixOf(script[q], ScriptOf(f))
      BY <1>1, <2>2 DEF Scripted, Advances
    <3>2. ScriptOf(f) \in Seq(Ops)
      BY <3>1, FlowsAssumption, ScriptType
    <3>3. SuffixOf(script'[q], ScriptOf(f))
      BY <1>1, <2>2, <3>1, <3>2, SuffixTail DEF Advances
    <3> QED BY <3>1, <3>3 DEF Scripted
  <2> QED BY <1>2, <2>1, <2>2
<1>4. Closing(q)'
  <2> SUFFICES ASSUME Deleting(q)' PROVE Closing(q)'
    BY DEF Closing
  <2>1. CASE script'[q] = script[q]
    <3>1. Deleting(q)
      BY <2>1 DEF Deleting
    <3>2. Len(script[q]) <= 4 \/ Len(script[q]) <= 2 => Len(script[q]) <= 5
      BY <1>1
    <3> QED BY <1>1, <2>1, <3>1, <3>2 DEF Closing, Undisturbed, Dismantling, KeepsNone
  <2>2. CASE script'[q] # script[q]
    <3>1. q = p /\ Advances(p) /\ script'[p] # <<>>
      BY <1>2, <2>2 DEF Deleting
    <3>2. /\ Len(script[p]) \in Nat \ {0} /\ Len(script'[p]) = Len(script[p]) - 1
          /\ script'[p] # <<>> => Len(script'[p]) > 0
      BY <1>1, <3>1, TailFacts, EmptySeq DEF Advances
    <3>3. Deleting(p)
      BY <1>1, <3>1, <3>2, TailFacts DEF Deleting, Advances
    <3>4. /\ Len(script[p]) = 6 => sub'.status # "active"
          /\ Len(script[p]) = 5 => Unreconciled'
          /\ Len(script[p]) = 3 => \A n \in Nodes : bind'[n].st = "none"
      BY <1>1, <3>1, <3>3, DeletingScript DEF Ends
    <3>5. /\ Len(script[p]) <= 5 => sub.status # "active"
          /\ Len(script[p]) <= 4 => Unreconciled
          /\ Len(script[p]) <= 2 => \A n \in Nodes : bind[n].st = "none"
      BY <1>1, <3>1, <3>3 DEF Closing
    <3>6. /\ Len(script[p]) <= 5 => sub'.status # "active"
          /\ Len(script[p]) <= 4 => Unreconciled'
          /\ Len(script[p]) <= 2 => \A n \in Nodes : bind'[n].st = "none"
      <4>1. /\ Len(script[p]) <= 4 => Len(script[p]) <= 5
            /\ Len(script[p]) <= 2 => Len(script[p]) <= 4 /\ Len(script[p]) <= 5
        BY <3>2
      <4> QED BY <3>3, <3>5, <4>1 DEF Undisturbed, Dismantling, KeepsNone
    <3> DEFINE k == Len(script[p])
               l == Len(script'[p])
    <3>a. k \in Nat /\ l = k - 1
      BY <3>2
    <3> HIDE DEF k, l
    <3>7. /\ l <= 5 => k <= 5 \/ k = 6
          /\ l <= 4 => k <= 4 \/ k = 5
          /\ l <= 2 => k <= 2 \/ k = 3
      BY <3>a
    <3> QED BY <3>1, <3>4, <3>6, <3>7 DEF Closing, k, l
  <2> QED BY <2>1, <2>2
<1> QED BY <1>3, <1>4 DEF Orderly

LEMMA OwnerFrame ==
  ASSUME IInv, OInv, TypeOK', NEW p \in Procs, OthersStay(p), Moves(p), Ends(p), Undisturbed,
         UNCHANGED <<panel, nodeActive>>, KeepsRows, Tidy(p)'
  PROVE  OInv'
<1>1. \A q \in Procs : Orderly(q)'
  BY ClosingFrame DEF IInv
<1>2. NoOrphanClient'
  BY DEF OInv, NoOrphanClient, KeepsRows
<1>3. ASSUME NEW q \in Procs \ {p} PROVE Tidy(q)'
  <2>1. /\ Tidy(q) /\ script'[q] = script[q] /\ step'[q] = step[q] /\ todo'[q] = todo[q]
        /\ result'[q] = result[q] /\ seen'[q] = seen[q] /\ todo[q] \subseteq Nodes
    BY DEF OInv, OthersStay, Moves, IInv, TypeOK
  <2>2. StepFits(q)' /\ AnsweredRemoval(q)'
    BY <2>1 DEF Tidy, StepFits, AnsweredRemoval
  <2>3. VisitsRows(q)'
    BY <2>1 DEF Tidy, VisitsRows, KeepsRows
  <2> QED BY <2>2, <2>3 DEF Tidy
<1> QED BY <1>1, <1>2, <1>3 DEF OInv

(* What the control operators do to the script.                            *)
LEMMA ControlMoves ==
  ASSUME TypeOK, NEW p \in Procs
  PROVE  /\ Done(p) => /\ Moves(p) /\ step'[p] = "idle"
                       /\ script[p] = <<>> => script'[p] = <<>>
         /\ GiveUp(p) => Moves(p) /\ step'[p] = "idle" /\ script'[p] = <<>>
         /\ Proceed(p) /\ script[p] # <<>> => Moves(p)
         /\ Stop(p) => Moves(p) /\ script'[p] = <<>>
         /\ script' = script => Moves(p)
BY DEF TypeOK, Done, GiveUp, Proceed, Stop, Moves, Advances

LEMMA IdleIsTidy == ASSUME NEW p \in Procs, step'[p] = "idle" PROVE Tidy(p)'
BY DEF Tidy, StepFits, VisitsRows, AnsweredRemoval, Visiting

LEMMA TailDiffers == ASSUME NEW s \in Seq(Ops), s # <<>> PROVE Tail(s) # s
<1> DEFINE k == Len(s)
           l == Len(Tail(s))
<1>1. k \in Nat /\ l = k - 1
  BY TailFacts
<1>2. Tail(s) = s => l = k
  OBVIOUS
<1> HIDE DEF k, l
<1>3. l # k
  BY <1>1
<1> QED BY <1>2, <1>3

(* A step that keeps its script, or leaves it by an operation that a       *)
(* deletion does not rely on.                                              *)
LEMMA OrdinaryEnd ==
  ASSUME NEW p \in Procs, \/ script'[p] = <<>>
                          \/ Head(script[p]) \notin {"revoke", "markall", "verify"}
                          \/ script'[p] = script[p] /\ script[p] \in Seq(Ops)
  PROVE  Ends(p)
<1>1. CASE script'[p] = script[p] /\ script[p] \in Seq(Ops)
  <2>1. script[p] # <<>> => Tail(script[p]) # script[p]
    BY <1>1, TailDiffers
  <2> QED BY <1>1, <2>1 DEF Ends, Advances
<1>2. CASE script'[p] = <<>> \/ Head(script[p]) \notin {"revoke", "markall", "verify"}
  BY <1>2 DEF Ends
<1> QED BY <1>1, <1>2

LEMMA ApplyPlanKeepsRows ==
  ASSUME NEW rows \in [Nodes -> Rows], NEW targets, NEW n \in Nodes, rows[n].st # "none"
  PROVE  ApplyPlan(rows, targets)[n].st # "none"
BY DEF ApplyPlan, Reconcile, MarkActive, ReconcileNode, AddsRow, Reactivates,
       Drops, SetStatus, UpsertPendingAdd, Fresh

LEMMA UnlockedOrphans ==
  ASSUME NoRevivalMidway, IInv, OInv, NEW p \in Procs, Unlocked(p) PROVE OInv'
<1>1. /\ TypeOK' /\ step[p] = "idle" /\ script[p] # <<>> /\ UNCHANGED <<panel, nodeActive>>
      /\ Scripted(p) /\ Closing(p) /\ script[p] \in Seq(Ops)
  BY UnlockedType DEF IInv, Unlocked, LoadSub, Pay, Downgrade, SetPlan, Revoke,
                      Deactivate, Verify, DelRows, DelSub, Next1, envVars, OInv, Orderly, TypeOK
<1>2. Proceed(p) \/ Stop(p)
  BY DEF Unlocked, LoadSub, Pay, Downgrade, SetPlan, Revoke, Deactivate, Verify,
         DelRows, DelSub, WriteCopy
<1>3. OthersStay(p) /\ Moves(p) /\ Tidy(p)' /\ step' = step
  BY <1>1, <1>2, ControlFrame, ControlMoves, IdleIsTidy DEF IInv
<1>4. Unreconciled' = Unreconciled
  BY <1>3 DEF Unreconciled
<1>5. KeepsRows /\ Undisturbed /\ Ends(p)
  <2>1. ASSUME NEW plan \in Plans, Pay(p, plan) \/ SetPlan(p, plan)
        PROVE  KeepsRows /\ Undisturbed /\ Ends(p)
    <3>1. Head(script[p]) \in {"pay", "setplan"}
      BY <2>1 DEF Pay, SetPlan, Next1
    <3>2. Undisturbed
      <4>1. (sub' = sub /\ bind' = bind) \/ sub'.status = "active"
        BY <2>1 DEF Pay, SetPlan, WriteCopy, dbVars
      <4> QED BY <1>4, <4>1 DEF NoRevivalMidway, Undisturbed, KeepsNone
    <3>3. KeepsRows
      <4>1. bind' = bind \/ bind' = ApplyPlan(bind, Targets(plan))
        BY <2>1 DEF Pay, SetPlan, dbVars
      <4>2. \A n \in Nodes : bind[n].st # "none" => ApplyPlan(bind, Targets(plan))[n].st # "none"
        BY ApplyPlanKeepsRows DEF IInv, TypeOK
      <4> QED BY <4>1, <4>2 DEF KeepsRows
    <3> QED BY <3>1, <3>2, <3>3, OrdinaryEnd
  <2>2. CASE Downgrade(p)
    <3>1. KeepsRows
      <4>1. bind' = bind \/ bind' = ApplyPlan(bind, Targets(FreePlan))
        BY <2>2 DEF Downgrade, dbVars
      <4>2. \A n \in Nodes :
              bind[n].st # "none" => ApplyPlan(bind, Targets(FreePlan))[n].st # "none"
        BY ApplyPlanKeepsRows DEF IInv, TypeOK
      <4> QED BY <4>1, <4>2 DEF KeepsRows
    <3> QED BY <1>4, <2>2, <3>1, OrdinaryEnd DEF Downgrade, Next1, dbVars, Undisturbed, KeepsNone
  <2>3. CASE LoadSub(p)
    BY <1>4, <2>3, OrdinaryEnd DEF LoadSub, Next1, dbVars, Undisturbed, KeepsNone, KeepsRows
  <2>4. CASE Deactivate(p)
    BY <1>4, <2>4, OrdinaryEnd
       DEF Deactivate, WriteCopy, Next1, Undisturbed, KeepsNone, KeepsRows
  <2>5. CASE Revoke(p)
    <3>1. Ends(p)
      BY <2>5 DEF Revoke, WriteCopy, Stop, Next1, Ends
    <3> QED BY <1>4, <2>5, <3>1 DEF Revoke, WriteCopy, Undisturbed, KeepsNone, KeepsRows
  <2>6. CASE Verify(p)
    <3>0. UNCHANGED bind /\ Head(script[p]) = "verify"
      BY <2>6 DEF Verify, Next1, dbVars
    <3>1. Ends(p)
      <4>1. CASE \A n \in Nodes : bind[n].st = "none"
        BY <3>0, <4>1 DEF Ends
      <4>2. CASE ~(\A n \in Nodes : bind[n].st = "none")
        <5>1. script'[p] = <<>>
          BY <1>1, <2>6, <4>2, ControlMoves DEF Verify, IInv
        <5> QED BY <5>1, OrdinaryEnd
      <4> QED BY <4>1, <4>2
    <3> QED BY <1>4, <2>6, <3>1 DEF Verify, Undisturbed, KeepsNone, KeepsRows, dbVars
  <2>7. CASE DelRows(p)
    <3>1. \A n \in Nodes : bind[n].st = "none" /\ bind'[n].st = "none"
      <4>1. Deleting(p) /\ Len(script[p]) = 2
        BY <1>1, <2>7, HeadOfScript DEF IInv, DelRows, Next1
      <4> QED BY <1>1, <2>7, <4>1 DEF Closing, DelRows, NoRows, NoRow, Fresh
    <3> QED BY <1>4, <2>7, <3>1, OrdinaryEnd
            DEF DelRows, Next1, Undisturbed, KeepsNone, KeepsRows
  <2>8. CASE DelSub(p)
    <3>1. sub.status # "active" => sub'.status # "active"
      BY <2>8 DEF DelSub, IInv, TypeOK
    <3> QED BY <1>4, <2>8, <3>1, OrdinaryEnd DEF DelSub, Next1, Undisturbed, KeepsNone, KeepsRows
  <2> QED BY <2>1, <2>2, <2>3, <2>4, <2>5, <2>6, <2>7, <2>8 DEF Unlocked
<1> QED BY <1>1, <1>3, <1>5, OwnerFrame

(* A step that leaves rows and subscription alone, and reconciles nothing. *)
Quietly(p) == UNCHANGED <<sub, bind, panel, nodeActive>> /\ step'[p] \notin Reconciling

LEMMA QuietFrame ==
  ASSUME IInv, OInv, TypeOK', NEW p \in Procs, OthersStay(p), Moves(p), Ends(p), Quietly(p),
         Tidy(p)'
  PROVE  OInv'
<1>1. Undisturbed /\ KeepsRows
  BY DEF Quietly, Undisturbed, Unreconciled, KeepsNone, KeepsRows, OthersStay
<1> QED BY <1>1, OwnerFrame DEF Quietly

(* Inside a pass no operation ends that a deletion relies on.              *)
LEMMA PassEnd ==
  ASSUME OInv, NEW p \in Procs, step[p] # "idle", step[p] \notin Marking
  PROVE  script[p] = <<>> \/ Head(script[p]) \in {"sync", "apply"}
BY DEF OInv, Tidy, StepFits

(* The pass goes on, or is over.                                           *)
LEMMA PassMoves ==
  ASSUME IInv, OInv, NEW p \in Procs, step[p] # "idle", step[p] \notin Marking,
         script' = script \/ Done(p) \/ GiveUp(p)
  PROVE  Moves(p) /\ Ends(p)
<1>1. TypeOK /\ script[p] \in Seq(Ops)
  BY DEF IInv, TypeOK
<1>2. script[p] = <<>> \/ Head(script[p]) \in {"sync", "apply"}
  BY PassEnd
<1>3. Moves(p) /\ (script[p] = <<>> => script'[p] = <<>>)
  BY <1>1, ControlMoves
<1> QED BY <1>2, <1>3, OrdinaryEnd

LEMMA FitsInPass ==
  ASSUME OInv, NEW p \in Procs, step[p] # "idle", step[p] \notin Marking,
         step'[p] \notin Marking, script' = script
  PROVE  StepFits(p)'
BY PassEnd DEF StepFits

LEMMA SyncOrphans ==
  ASSUME IInv, OInv, NEW p \in Procs, SyncBegin(p) \/ SyncRows(p) \/ SyncSub(p)
  PROVE  OInv'
<1>1. TypeOK' /\ UNCHANGED <<sub, bind, panel, nodeActive>> /\ script[p] \in Seq(Ops)
  BY SyncType DEF IInv, TypeOK, SyncBegin, SyncRows, SyncSub, dbVars, envVars
<1>2. OthersStay(p)
  BY ControlFrame DEF IInv, SyncBegin, SyncRows, SyncSub, OthersStay, Steps, LockedSteps
<1>3. CASE SyncBegin(p)
  <2>1. step'[p] = "sync_rows" /\ script' = script /\ script[p] # <<>> /\ Head(script[p]) = "sync"
    BY <1>3, ControlFrame DEF IInv, SyncBegin, Goto, Next1, Steps, LockedSteps
  <2>2. Tidy(p)' /\ Quietly(p) /\ Moves(p) /\ Ends(p)
    BY <1>1, <2>1, OrdinaryEnd, ControlMoves DEF Tidy, StepFits, VisitsRows, AnsweredRemoval,
       Visiting, Quietly, Reconciling, Marking, IInv
  <2> QED BY <1>1, <1>2, <2>2, QuietFrame
<1>4. CASE SyncRows(p) \/ SyncSub(p)
  <2>1. /\ step[p] \in {"sync_rows", "sync_sub"}
        /\ script' = script \/ Done(p)
    BY <1>4 DEF SyncRows, SyncSub, Goto
  <2>2. Moves(p) /\ Ends(p)
    BY <2>1, PassMoves DEF Marking
  <2>3. CASE Done(p)
    BY <1>1, <1>2, <2>2, <2>3, IdleIsTidy, ControlFrame, QuietFrame DEF Quietly, IInv, Reconciling
  <2>4. CASE ~Done(p)
    <3>1. /\ script' = script
          /\ \/ step'[p] = "sync_sub" /\ todo'[p] = SelectedNodes
             \/ step'[p] = "visit" /\ todo' = todo /\ step[p] = "sync_sub"
      <4>1. CASE SyncRows(p)
        <5>1. Goto(p, "sync_sub") /\ Load(p, bind, SelectedNodes)
          BY <2>4, <4>1 DEF SyncRows
        <5>2. step'[p] = "sync_sub" /\ script' = script
          BY <5>1, ControlFrame DEF Goto, IInv, Steps, LockedSteps
        <5>3. todo'[p] = SelectedNodes
          BY <5>1 DEF Load, IInv, TypeOK
        <5> QED BY <5>2, <5>3
      <4>2. CASE SyncSub(p)
        <5>1. Goto(p, "visit") /\ todo' = todo /\ step[p] = "sync_sub"
          BY <2>4, <4>2 DEF SyncSub
        <5> QED BY <5>1 DEF Goto, IInv, TypeOK
      <4> QED BY <1>4, <4>1, <4>2
    <3>2. StepFits(p)' /\ AnsweredRemoval(p)' /\ Quietly(p)
      BY <1>1, <2>1, <3>1, FitsInPass DEF AnsweredRemoval, Quietly, Reconciling, Marking
    <3>3. VisitsRows(p)'
      BY <1>1, <3>1 DEF OInv, Tidy, VisitsRows, Visiting, SelectedNodes, Selected, Pending
    <3> QED BY <1>1, <1>2, <2>2, <3>2, <3>3, QuietFrame DEF Tidy
  <2> QED BY <2>3, <2>4
<1> QED BY <1>3, <1>4

LEMMA WorkerOrphans == ASSUME IInv, OInv, WorkerPass PROVE OInv'
<1>1. TypeOK' /\ Worker \in Procs /\ script[Worker] = <<>> /\ UNCHANGED <<sub, panel, nodeActive>>
  <2>1. TypeOK' /\ Worker \in Procs
    BY WorkerType DEF IInv, Procs
  <2>2. Scripted(Worker)
    BY <2>1 DEF OInv, Orderly
  <2> QED BY <2>1, <2>2, ProcsAssumption DEF Scripted, WorkerPass, WorkerRelease, WorkerHealth,
             WorkerScan, WorkerSub, WorkerRows, dbVars, envVars
<1>2. OthersStay(Worker)
  BY <1>1, ControlFrame DEF IInv, WorkerPass, WorkerRelease, WorkerHealth, WorkerScan,
     WorkerSub, WorkerRows, OthersStay, Steps, LockedSteps
<1>3. Moves(Worker) /\ Ends(Worker) /\ script'[Worker] = <<>>
  <2>1. script' = script \/ Done(Worker)
    BY DEF WorkerPass, WorkerRelease, WorkerHealth, WorkerScan, WorkerSub, WorkerRows, Goto
  <2>2. Moves(Worker) /\ script'[Worker] = <<>>
    BY <1>1, <2>1, ControlMoves DEF IInv
  <2> QED BY <1>1, <2>2, OrdinaryEnd
<1>4. CASE WorkerRelease
  <2>1. step'[Worker] = "health" /\ \A n \in Nodes : bind'[n].st = bind[n].st
    BY <1>1, <1>4, ControlFrame DEF IInv, WorkerRelease, Fresh, Steps
  <2>2. KeepsRows /\ Undisturbed
    BY <1>1, <1>2, <2>1 DEF KeepsRows, KeepsNone, Undisturbed, Unreconciled, OthersStay, Reconciling
  <2>3. Tidy(Worker)'
    BY <1>3, <2>1 DEF Tidy, StepFits, VisitsRows, AnsweredRemoval, Visiting, Marking
  <2> QED BY <1>1, <1>2, <1>3, <2>2, <2>3, OwnerFrame
<1>5. CASE WorkerHealth \/ WorkerScan \/ WorkerSub \/ WorkerRows
  <2>1. /\ UNCHANGED bind
        /\ \/ step'[Worker] \in {"idle", "scan", "worker_sub", "worker_rows"}
           \/ step'[Worker] = "visit" /\ todo'[Worker] = SelectedNodes
    BY <1>1, <1>5, ControlFrame DEF IInv, WorkerHealth, WorkerScan, WorkerSub, WorkerRows, dbVars,
       Steps, LockedSteps
  <2>2. Tidy(Worker)'
    BY <1>3, <2>1 DEF Tidy, StepFits, VisitsRows, AnsweredRemoval, Visiting, Marking,
                      SelectedNodes, Selected, Pending
  <2> QED BY <1>1, <1>2, <1>3, <2>1, <2>2, QuietFrame DEF Quietly, Reconciling
<1> QED BY <1>4, <1>5 DEF WorkerPass

LEMMA VisitOrphans ==
  ASSUME IInv, OInv, NEW p \in Procs, NEW n \in Nodes,
         Requeue(p, n) \/ DropBinding(p, n) \/ Call(p, n)
  PROVE  OInv'
<1>1. /\ TypeOK' /\ n \in todo[p] /\ step[p] = "visit" /\ UNCHANGED <<sub, nodeActive, script>>
      /\ bind[n].st # "none" /\ todo[p] \subseteq Nodes
  BY VisitType DEF IInv, Requeue, DropBinding, Call, Goto, dbVars, envVars, OInv, Tidy, VisitsRows,
                   Visiting, TypeOK
<1>2. Moves(p) /\ Ends(p)
  BY <1>1, PassMoves DEF Marking
<1>3. \A q \in Procs \ {p} : step[q] \notin Visiting
  BY <1>1 DEF IInv, Exclusive, Locked, LockedSteps, Visiting
<1>4. CASE Requeue(p, n)
  <2>1. bind' = [bind EXCEPT ![n] = SetStatus(@, "pending_remove")] /\ UNCHANGED <<panel, step>>
    BY <1>4 DEF Requeue
  <2>2. \A m \in Nodes : bind'[m].st = "none" <=> bind[m].st = "none"
    <3>1. SetStatus(bind[n], "pending_remove").st = "none" <=> bind[n].st = "none"
      BY DEF SetStatus, Fresh
    <3> QED BY <2>1, <3>1 DEF IInv, TypeOK
  <2>3. OthersStay(p) /\ todo'[p] \subseteq todo[p]
    <3>1. todo' = todo \/ Leave(p, n)
      BY <1>4 DEF Requeue
    <3>2. \A q \in Procs \ {p} : seen'[q] = seen[q] /\ result'[q] = result[q]
      BY <1>4 DEF Requeue, IInv, TypeOK
    <3> QED BY <2>1, <3>1, <3>2, ControlFrame DEF IInv, OthersStay
  <2>4. KeepsRows /\ Undisturbed
    BY <1>1, <2>1, <2>2 DEF KeepsRows, KeepsNone, Undisturbed, Unreconciled
  <2>5. Tidy(p)'
    BY <1>1, <2>1, <2>2, <2>3, FitsInPass
       DEF Tidy, VisitsRows, AnsweredRemoval, OInv, Visiting, Marking
  <2> QED BY <1>1, <1>2, <2>1, <2>3, <2>4, <2>5, OwnerFrame
<1>5. CASE DropBinding(p, n)
  <2>1. /\ bind' = [bind EXCEPT ![n] = NoRow] /\ Leave(p, n) /\ ~nodeActive[n]
        /\ UNCHANGED <<panel, step>>
    BY <1>5 DEF DropBinding
  <2>2. bind'[n].st = "none" /\ \A m \in Nodes \ {n} : bind'[m] = bind[m]
    BY <2>1 DEF IInv, TypeOK, NoRow, Fresh
  <2>3. Undisturbed
    BY <1>1, <2>1, <2>2 DEF Undisturbed, KeepsNone, Unreconciled
  <2>4. NoOrphanClient'
    BY <1>1, <2>1, <2>2 DEF OInv, NoOrphanClient
  <2>5. todo'[p] = todo[p] \ {n}
    BY <2>1, ControlFrame DEF IInv
  <2>6. Tidy(p)'
    BY <1>1, <2>1, <2>2, <2>5, FitsInPass
       DEF Tidy, VisitsRows, AnsweredRemoval, OInv, Visiting, Marking
  <2>7. \A q \in Procs \ {p} : Tidy(q)'
    BY <1>1, <1>3, <2>1 DEF Tidy, StepFits, VisitsRows, AnsweredRemoval, OInv, Visiting
  <2>8. \A q \in Procs : Orderly(q)'
    BY <1>1, <1>2, <2>3, ClosingFrame DEF IInv
  <2> QED BY <2>4, <2>6, <2>7, <2>8 DEF OInv
<1>6. CASE Call(p, n)
  <2>1. /\ step'[p] = "write" /\ UNCHANGED <<bind, seen, todo>>
        /\ \A q \in Procs \ {p} : step'[q] = step[q]
        /\ \A m \in Nodes \ {n} : panel'[m] = panel[m]
    <3>1. Answers(p, n) \/ Fails(p, n) => \A m \in Nodes \ {n} : panel'[m] = panel[m]
      BY DEF Answers, Fails, IInv, TypeOK
    <3> QED BY <1>6, <3>1, ControlFrame DEF Call, IInv, dbVars, Steps, LockedSteps
  <2>2. NoOrphanClient'
    BY <1>1, <2>1 DEF OInv, NoOrphanClient
  <2>3. AnsweredRemoval(p)'
    <3>1. CASE Answers(p, n)
      <4>1. /\ result'[p] = <<n, Answer(seen[p][n], n)>>
            /\ panel'[n] = Applied(seen[p][n], n, snap[p].plan)
        BY <3>1 DEF Answers, IInv, TypeOK
      <4> QED BY <2>1, <4>1 DEF AnsweredRemoval, Applied
    <3>2. CASE Fails(p, n)
      <4>1. PICK how \in Failures : result' = [result EXCEPT ![p] = <<n, how>>]
        BY <3>2 DEF Fails
      <4>2. result'[p] = <<n, how>> /\ how # "ok"
        BY <4>1, FailuresAssumption DEF IInv, TypeOK
      <4> QED BY <4>2 DEF AnsweredRemoval
    <3> QED BY <1>6, <3>1, <3>2 DEF Call
  <2>4. Tidy(p)'
    BY <1>1, <2>1, <2>3, FitsInPass DEF Tidy, VisitsRows, OInv, Visiting, Marking
  <2>5. \A q \in Procs \ {p} : Tidy(q)'
    BY <1>1, <1>3, <2>1 DEF Tidy, StepFits, VisitsRows, AnsweredRemoval, OInv, Visiting
  <2>6. Undisturbed
    BY <1>1, <2>1 DEF Undisturbed, KeepsNone, Unreconciled, Reconciling
  <2>7. \A q \in Procs : Orderly(q)'
    BY <1>1, <1>2, <2>6, ClosingFrame DEF IInv
  <2> QED BY <2>2, <2>4, <2>5, <2>7 DEF OInv
<1> QED BY <1>4, <1>5, <1>6

LEMMA WriteOrphans ==
  ASSUME IInv, OInv, NEW p \in Procs,
         \/ Finish(p) \/ FinishFails(p) \/ CutShort(p) \/ Abort(p) \/ EndOfVisit(p)
  PROVE  OInv'
<1>0. step[p] = "write" => /\ result[p][1] \in todo[p] /\ result[p][1] \in Nodes
  BY DEF IInv, TypeOK, AnsweredVisit
<1>1. /\ TypeOK' /\ step[p] \in {"visit", "write"} /\ UNCHANGED <<sub, panel, nodeActive>>
      /\ script' = script \/ Done(p)
  BY <1>0, WriteType DEF IInv, Finish, FinishFails, CutShort, Abort, EndOfVisit, Goto, dbVars,
                         envVars
<1>2. Moves(p) /\ Ends(p)
  BY <1>1, PassMoves DEF Marking
<1>3. CASE Abort(p) \/ EndOfVisit(p)
  <2>1. /\ OthersStay(p) /\ UNCHANGED bind
        /\ step'[p] = "idle" \/ (step'[p] = "rec_sub" /\ script' = script)
    BY <1>3, ControlFrame DEF Abort, EndOfVisit, OthersStay, IInv, Goto, Steps, LockedSteps, dbVars
  <2>2. Tidy(p)'
    BY <1>1, <2>1, IdleIsTidy, FitsInPass DEF Tidy, VisitsRows, AnsweredRemoval, Visiting, Marking
  <2> QED BY <1>1, <1>2, <2>1, <2>2, QuietFrame DEF Quietly, Reconciling
<1>4. CASE Finish(p) \/ FinishFails(p) \/ CutShort(p)
  <2>1. /\ OthersStay(p) /\ step'[p] = "visit" /\ script' = script
        /\ todo'[p] \subseteq todo[p] /\ todo[p] \subseteq Nodes
    BY <1>4, ControlFrame DEF Finish, FinishFails, CutShort, OthersStay, IInv, TypeOK, Goto, Steps,
                              LockedSteps
  <2>2. StepFits(p)' /\ AnsweredRemoval(p)'
    BY <1>1, <2>1, FitsInPass DEF AnsweredRemoval, Marking
  <2>3. CASE ~Finish(p)
    <3>1. UNCHANGED bind
      BY <1>4, <2>3 DEF FinishFails, CutShort, dbVars
    <3>2. VisitsRows(p)'
      BY <1>1, <2>1, <3>1 DEF OInv, Tidy, VisitsRows, Visiting
    <3> QED BY <1>1, <1>2, <2>1, <2>2, <3>1, <3>2, QuietFrame DEF Quietly, Reconciling, Tidy
  <2>4. CASE Finish(p)
    <3> DEFINE n == result[p][1]
               how == result[p][2]
    <3>1. /\ bind' = [bind EXCEPT ![n] = Written(@, seen[p][n], how)]
          /\ n \in Nodes /\ n \in todo[p] /\ step[p] = "write"
      BY <1>0, <2>4 DEF Finish
    <3>2. todo'[p] = todo[p] \ {n}
      BY <2>4, ControlFrame DEF Finish, IInv
    <3>3. bind'[n] = Written(bind[n], seen[p][n], how) /\ \A m \in Nodes \ {n} : bind'[m] = bind[m]
      BY <3>1 DEF IInv, TypeOK
    <3>4. VisitsRows(p) /\ AnsweredRemoval(p)
      BY DEF OInv, Tidy
    <3>5. VisitsRows(p)'
      BY <2>1, <3>1, <3>2, <3>3, <3>4 DEF VisitsRows, Visiting
    <3>6. UpdateRetry(bind[n], seen[p][n].tries, how).st = bind[n].st
      BY <3>1 DEF IInv, TypeOK, UpdateRetry, Rows
    <3>7. bind[n].st # "none"
      BY <3>1, <3>4 DEF VisitsRows, Visiting
    <3>8. bind'[n].st = "none" => how = "ok" /\ seen[p][n].st = "pending_remove"
      BY <3>3, <3>6, <3>7 DEF Written, SetStatus, Fresh
    <3>9. NoOrphanClient'
      BY <1>1, <3>1, <3>3, <3>4, <3>8 DEF OInv, NoOrphanClient, AnsweredRemoval
    <3>10. Undisturbed
      BY <1>1, <2>1, <3>3, <3>7
         DEF Undisturbed, KeepsNone, Unreconciled, OthersStay, Reconciling
    <3>11. \A q \in Procs : Orderly(q)'
      BY <1>1, <1>2, <3>10, ClosingFrame DEF IInv
    <3>12. ASSUME NEW q \in Procs \ {p} PROVE Tidy(q)'
      <4>1. step[q] \notin Visiting
        BY <1>1 DEF IInv, Exclusive, Locked, LockedSteps, Visiting
      <4> QED BY <2>1, <4>1 DEF Tidy, StepFits, VisitsRows, AnsweredRemoval, OInv, Visiting,
                 OthersStay
    <3> QED BY <2>2, <3>5, <3>9, <3>11, <3>12 DEF OInv, Tidy
  <2> QED BY <2>3, <2>4
<1> QED BY <1>3, <1>4

LEMMA ReconcileOrphans ==
  ASSUME IInv, OInv, NEW p \in Procs,
         \/ RecSub(p) \/ RecRows(p) \/ RecDone(p)
         \/ \E n \in Nodes : RecWrite(p, n)
  PROVE  OInv'
<1>1. /\ TypeOK' /\ UNCHANGED <<sub, panel, nodeActive>> /\ (script' = script \/ Done(p))
      /\ step[p] \in Reconciling \cup {"rec_sub"}
  BY ReconcileType DEF IInv, RecSub, RecRows, RecDone, RecWrite, Goto, dbVars, envVars, Reconciling
<1>2. Moves(p) /\ Ends(p)
  BY <1>1, PassMoves DEF Marking, Reconciling
<1>3. /\ OthersStay(p)
      /\ step'[p] = "idle" \/ (step'[p] \in Reconciling /\ script' = script)
  BY ControlFrame DEF IInv, TypeOK, RecSub, RecRows, RecWrite, RecDone, OthersStay, Goto, Steps,
                      LockedSteps, Reconciling
<1>4. Tidy(p)'
  <2>1. CASE step'[p] = "idle"
    BY <2>1, IdleIsTidy
  <2>2. CASE step'[p] \in Reconciling /\ script' = script
    BY <1>1, <2>2, FitsInPass DEF Tidy, VisitsRows, AnsweredRemoval, Visiting, Marking, Reconciling
  <2> QED BY <1>3, <2>1, <2>2
<1>5. KeepsRows
  <2>1. ASSUME NEW n \in Nodes, RecWrite(p, n) PROVE KeepsRows
    <3>1. bind' = [bind EXCEPT ![n] = ReconcileNode(n, snap[p].targets, seen[p][n], bind[n])]
      BY <2>1 DEF RecWrite
    <3>2. bind[n].st # "none" =>
            ReconcileNode(n, snap[p].targets, seen[p][n], bind[n]).st # "none"
      BY DEF ReconcileNode, UpsertPendingAdd, SetStatus, Fresh
    <3> QED BY <3>1, <3>2 DEF IInv, TypeOK, KeepsRows
  <2>2. CASE RecSub(p) \/ RecRows(p) \/ RecDone(p)
    BY <2>2 DEF RecSub, RecRows, RecDone, KeepsRows, dbVars
  <2> QED BY <2>1, <2>2
<1>6. Undisturbed
  <2>1. CASE RecSub(p)
    <3>1. sub.status = "active" \/ step'[p] = "idle"
      BY <2>1, ControlFrame DEF RecSub, IInv
    <3> QED BY <1>1, <1>3, <2>1, <3>1
            DEF RecSub, dbVars, Undisturbed, Unreconciled, KeepsNone, OthersStay, Reconciling
  <2>2. CASE ~RecSub(p)
    <3>1. RecRows(p) \/ RecDone(p) \/ \E n \in Nodes : RecWrite(p, n)
      BY <2>2
    <3>2. step[p] \in {"rec_rows", "rec_write"}
      BY <3>1 DEF RecRows, RecDone, RecWrite
    <3>3. ~Unreconciled
      BY <3>2 DEF Unreconciled, Reconciling
    <3> QED BY <1>1, <3>3 DEF Undisturbed
  <2> QED BY <2>1, <2>2
<1> QED BY <1>1, <1>2, <1>3, <1>4, <1>5, <1>6, OwnerFrame

LEMMA MarkOrphans ==
  ASSUME IInv, OInv, NEW p \in Procs,
         \/ MarkBegin(p) \/ MarkRows(p) \/ MarkDone(p)
         \/ \E n \in Nodes : MarkWrite(p, n)
  PROVE  OInv'
<1>1. TypeOK' /\ UNCHANGED <<sub, panel, nodeActive>> /\ script[p] \in Seq(Ops) /\ TypeOK
  BY MarkType DEF IInv, TypeOK, MarkBegin, MarkRows, MarkDone, MarkWrite, dbVars, envVars
<1>2. OthersStay(p)
  BY ControlFrame DEF IInv, TypeOK, MarkBegin, MarkRows, MarkWrite, MarkDone, OthersStay, Steps,
                      LockedSteps
<1>3. Head(script[p]) = "markall" /\ script[p] # <<>>
  BY DEF OInv, Tidy, StepFits, MarkBegin, MarkRows, MarkWrite, MarkDone, Next1, Marking
<1>4. CASE MarkBegin(p) \/ MarkRows(p)
  <2>1. step'[p] \in Marking /\ script' = script /\ UNCHANGED bind
    BY <1>1, <1>4, ControlFrame DEF MarkBegin, MarkRows, Goto, Steps, LockedSteps, dbVars, Marking
  <2>2. Tidy(p)' /\ Quietly(p) /\ Moves(p) /\ Ends(p)
    BY <1>1, <1>3, <2>1, OrdinaryEnd, ControlMoves
       DEF Tidy, StepFits, VisitsRows, AnsweredRemoval, Visiting, Quietly, Reconciling, Marking
  <2> QED BY <1>1, <1>2, <2>2, QuietFrame
<1>5. CASE MarkDone(p)
  <2>1. step'[p] = "idle" /\ Moves(p) /\ UNCHANGED bind /\ Locked(p)
    BY <1>1, <1>5, ControlMoves DEF MarkDone, dbVars, Locked, LockedSteps
  <2>2. Ends(p)
    <3>1. Unreconciled'
      BY <1>2, <2>1 DEF IInv, Exclusive, Locked, LockedSteps, Unreconciled, OthersStay, Reconciling
    <3> QED BY <1>3, <3>1 DEF Ends
  <2> QED BY <1>1, <1>2, <2>1, <2>2, IdleIsTidy, QuietFrame DEF Quietly, Reconciling
<1>6. ASSUME NEW n \in Nodes, MarkWrite(p, n) PROVE OInv'
  <2>1. CASE bind[n].st = "none"
    <3>1. GiveUp(p) /\ UNCHANGED bind
      BY <1>6, <2>1 DEF MarkWrite
    <3>2. Moves(p) /\ step'[p] = "idle" /\ script'[p] = <<>>
      BY <1>1, <3>1, ControlMoves
    <3>3. Ends(p) /\ Quietly(p)
      BY <1>1, <3>1, <3>2, OrdinaryEnd DEF Quietly, Reconciling
    <3> QED BY <1>1, <1>2, <3>2, <3>3, IdleIsTidy, QuietFrame
  <2>2. CASE bind[n].st # "none"
    <3>1. /\ bind' = [bind EXCEPT ![n] = SetStatus(@, "pending_remove")]
          /\ UNCHANGED <<script, step>> /\ step[p] = "mark_write"
      BY <1>6, <2>2 DEF MarkWrite
    <3>2. \A m \in Nodes : bind'[m].st = "none" <=> bind[m].st = "none"
      <4>1. SetStatus(bind[n], "pending_remove").st = "none" <=> bind[n].st = "none"
        BY DEF SetStatus, Fresh
      <4> QED BY <3>1, <4>1 DEF IInv, TypeOK
    <3>3. KeepsRows /\ Undisturbed
      BY <1>1, <3>1, <3>2 DEF KeepsRows, KeepsNone, Undisturbed, Unreconciled
    <3>4. Tidy(p)' /\ Moves(p) /\ Ends(p)
      BY <1>1, <1>3, <3>1, OrdinaryEnd, ControlMoves
         DEF Tidy, StepFits, VisitsRows, AnsweredRemoval, Visiting, Marking
    <3> QED BY <1>1, <1>2, <3>3, <3>4, OwnerFrame
  <2> QED BY <2>1, <2>2
<1> QED BY <1>4, <1>5, <1>6

LEMMA ApplyOrphans ==
  ASSUME IInv, OInv, NEW p \in Procs, ApplyBegin(p) \/ ApplySub(p) \/ ApplyMark(p)
  PROVE  OInv'
<1>1. TypeOK' /\ UNCHANGED <<sub, panel, nodeActive>> /\ script[p] \in Seq(Ops) /\ TypeOK
  BY ApplyType DEF IInv, TypeOK, ApplyBegin, ApplySub, ApplyMark, dbVars, envVars
<1>2. OthersStay(p) /\ step'[p] \in {"idle", "apply_sub", "apply_mark", "rec_sub"}
  BY ControlFrame DEF IInv, TypeOK, ApplyBegin, ApplySub, ApplyMark, OthersStay,
                      Steps, LockedSteps
<1>3. \A n \in Nodes : bind'[n].st = "none" <=> bind[n].st = "none"
  BY DEF ApplyBegin, ApplySub, ApplyMark, MarkActive, Fresh, dbVars
<1>4. KeepsRows /\ Undisturbed
  BY <1>1, <1>2, <1>3 DEF KeepsRows, KeepsNone, Undisturbed, Unreconciled, OthersStay, Reconciling
<1>5. Moves(p) /\ Ends(p) /\ StepFits(p)'
  <2>1. CASE ApplyBegin(p)
    <3>1. script' = script /\ script[p] # <<>> /\ Head(script[p]) = "apply" /\ step'[p] = "apply_sub"
      BY <1>1, <2>1, ControlFrame DEF ApplyBegin, Goto, Next1, Steps, LockedSteps
    <3> QED BY <1>1, <3>1, OrdinaryEnd, ControlMoves DEF StepFits, Marking
  <2>2. CASE ApplySub(p) \/ ApplyMark(p)
    <3>1. /\ step[p] \in {"apply_sub", "apply_mark"}
          /\ script' = script \/ (GiveUp(p) /\ step'[p] = "idle")
      BY <1>1, <2>2, ControlFrame DEF ApplySub, ApplyMark, Goto
    <3> QED BY <1>2, <3>1, PassMoves, FitsInPass DEF StepFits, Marking
  <2> QED BY <2>1, <2>2
<1>6. Tidy(p)'
  BY <1>2, <1>5 DEF Tidy, VisitsRows, AnsweredRemoval, Visiting
<1> QED BY <1>1, <1>2, <1>4, <1>5, <1>6, OwnerFrame

LEMMA LockTimeoutOrphans ==
  ASSUME IInv, OInv, NEW p \in Procs, LockTimeout(p) PROVE OInv'
<1>1. TypeOK' /\ TypeOK /\ script[p] \in Seq(Ops) /\ UNCHANGED <<sub, bind, panel, nodeActive>>
  BY LockTimeoutType DEF IInv, TypeOK, LockTimeout, dbVars, envVars
<1>2. OthersStay(p) /\ step'[p] = "idle" /\ Moves(p)
  BY ControlFrame, ControlMoves DEF IInv, LockTimeout
<1>3. Ends(p)
  <2>1. CASE Next1(p, "sync")
    BY <2>1, OrdinaryEnd DEF Next1
  <2>2. CASE GiveUp(p)
    BY <1>1, <2>2, ControlMoves, OrdinaryEnd
  <2>3. CASE step[p] = "scan" /\ Done(p)
    BY <2>3, PassMoves DEF Marking
  <2> QED BY <2>1, <2>2, <2>3 DEF LockTimeout
<1> QED BY <1>1, <1>2, <1>3, IdleIsTidy, QuietFrame DEF Quietly, Reconciling

LEMMA FlowOrphans ==
  ASSUME IInv, OInv, NEW p \in Callers, NEW f \in Flows[p], StartFlow(p, f) PROVE OInv'
<1>1. p \in Procs /\ f \in FlowNames /\ TypeOK /\ TypeOK'
  BY FlowsAssumption, FlowTypes DEF IInv, Procs
<1>2. /\ UNCHANGED <<sub, bind, panel, nodeActive, step, seen, todo, result>>
      /\ step[p] = "idle" /\ script' = [script EXCEPT ![p] = ScriptOf(f)]
  BY DEF StartFlow, dbVars, envVars
<1>3. script'[p] = ScriptOf(f) /\ \A q \in Procs \ {p} : script'[q] = script[q]
  BY <1>1, <1>2 DEF TypeOK
<1>4. NoOrphanClient'
  BY <1>2 DEF OInv, NoOrphanClient
<1>5. \A q \in Procs : Tidy(q)'
  BY <1>1, <1>2, <1>3 DEF OInv, Tidy, StepFits, VisitsRows, AnsweredRemoval, Visiting
<1>6. ASSUME NEW q \in Procs \ {p} PROVE Orderly(q)'
  <2>1. Scripted(q) /\ Closing(q) /\ script'[q] = script[q]
    BY <1>3 DEF OInv, Orderly
  <2>2. Scripted(q)'
    BY <2>1 DEF Scripted, SuffixOf
  <2>3. Closing(q)'
    BY <1>2, <2>1 DEF Closing, Deleting, Unreconciled
  <2> QED BY <2>2, <2>3 DEF Orderly
<1>7. Orderly(p)'
  <2>1. Scripted(p)'
    BY <1>1, <1>3, ScriptType DEF Scripted, SuffixOf
  <2>2. Deleting(p)' => Len(script'[p]) = 7
    <3>1. CASE f = "delete"
      BY <1>3, <3>1, DeleteScript
    <3>2. CASE f # "delete"
      <4>1. ScriptOf(f)[Len(ScriptOf(f))] = "sync"
        BY <1>1, <3>2, ScriptType
      <4>2. script'[p][Len(script'[p])] = "sync"
        BY <1>3, <4>1
      <4> QED BY <4>2 DEF Deleting
    <3> QED BY <3>1, <3>2
  <2> DEFINE k == Len(script'[p])
  <2>3. k = 7 => ~(k <= 5) /\ ~(k <= 4) /\ ~(k <= 2)
    OBVIOUS
  <2>4. Closing(p)'
    BY <2>2, <2>3 DEF Closing
  <2> QED BY <2>1, <2>4 DEF Orderly
<1> QED BY <1>4, <1>5, <1>6, <1>7 DEF OInv

LEMMA EnvironmentOrphans ==
  ASSUME IInv, OInv, \/ Crash
                     \/ \E n \in Nodes : RetryDue(n) \/ Flip(n) \/ Retire(n)
  PROVE  OInv'
<1>1. CASE Crash
  <2>1. NoOrphanClient'
    BY <1>1 DEF Crash, dbVars, envVars, OInv, NoOrphanClient
  <2>2. \A q \in Procs : Tidy(q)' /\ Orderly(q)'
    BY <1>1 DEF Crash, Tidy, StepFits, VisitsRows, AnsweredRemoval, Visiting, Orderly, Scripted,
                Closing, Deleting
  <2> QED BY <2>1, <2>2 DEF OInv
<1>2. CASE \E n \in Nodes : RetryDue(n) \/ Flip(n) \/ Retire(n)
  <2>1. /\ UNCHANGED <<sub, panel, procVars>>
        /\ \A n \in Nodes : /\ bind'[n].st = bind[n].st
                            /\ nodeActive'[n] => nodeActive[n]
    <3>1. ASSUME NEW n \in Nodes, RetryDue(n)
          PROVE  /\ UNCHANGED <<sub, panel, procVars, nodeActive>>
                 /\ \A m \in Nodes : bind'[m].st = bind[m].st
      <4>1. [bind[n] EXCEPT !.at = "now"].st = bind[n].st
        BY DEF IInv, TypeOK, Rows
      <4>2. bind' = [bind EXCEPT ![n] = [bind[n] EXCEPT !.at = "now"]]
        BY <3>1 DEF RetryDue
      <4> QED BY <3>1, <4>1, <4>2 DEF RetryDue, IInv, TypeOK, envVars
    <3>2. ASSUME NEW n \in Nodes, Flip(n) \/ Retire(n)
          PROVE  /\ UNCHANGED <<sub, panel, procVars, bind>>
                 /\ \A m \in Nodes : nodeActive'[m] => nodeActive[m]
      BY <3>2 DEF Flip, Retire, IInv, TypeOK, dbVars
    <3> QED BY <1>2, <3>1, <3>2
  <2>2. NoOrphanClient'
    BY <2>1 DEF OInv, NoOrphanClient
  <2>3. \A q \in Procs : Tidy(q)'
    BY <2>1 DEF procVars, OInv, IInv, TypeOK, Tidy, StepFits, VisitsRows, AnsweredRemoval
  <2>4. \A q \in Procs : Orderly(q)'
    BY <2>1 DEF procVars, OInv, Orderly, Scripted, SuffixOf, Closing, Deleting, Unreconciled
  <2> QED BY <2>2, <2>3, <2>4 DEF OInv
<1> QED BY <1>1, <1>2

LEMMA UnchangedOrphans == ASSUME OInv, UNCHANGED vars PROVE OInv'
<1>1. NoOrphanClient'
  BY DEF vars, OInv, NoOrphanClient
<1>2. \A q \in Procs : Tidy(q)' /\ Orderly(q)'
  BY DEF vars, OInv, Tidy, StepFits, VisitsRows, AnsweredRemoval, Orderly, Scripted, SuffixOf,
         Closing, Deleting, Unreconciled
<1> QED BY <1>1, <1>2 DEF OInv

(* Only a payment and a plan given by the administrator activate.          *)
LEMMA OnlyActivation ==
  ASSUME TypeOK, [Next]_vars, sub.status # "active", sub'.status = "active"
  PROVE  \E p \in Procs : Next1(p, "pay") \/ Next1(p, "setplan")
<1>1. ASSUME NEW p \in Procs, Unlocked(p) PROVE Next1(p, "pay") \/ Next1(p, "setplan")
  <2>1. CASE LoadSub(p) \/ Verify(p) \/ DelRows(p) \/ Downgrade(p)
    BY <2>1 DEF LoadSub, Verify, DelRows, Downgrade, dbVars
  <2>2. CASE Revoke(p) \/ Deactivate(p)
    BY <2>2 DEF Revoke, Deactivate, WriteCopy
  <2>3. CASE DelSub(p)
    BY <2>3 DEF DelSub, TypeOK
  <2> QED BY <1>1, <2>1, <2>2, <2>3 DEF Unlocked, Pay, SetPlan
<1>2. ASSUME NEW p \in Procs, Pass(p) PROVE sub' = sub
  BY <1>2 DEF Pass, SyncBegin, SyncRows, SyncSub, EndOfVisit, Finish, CutShort, RecSub, RecRows,
              RecDone, MarkBegin, MarkRows, MarkDone, ApplyBegin, ApplySub, ApplyMark, Requeue,
              DropBinding, Call, RecWrite, MarkWrite, dbVars
<1>3. CASE WorkerPass
  BY <1>3 DEF WorkerPass, WorkerRelease, WorkerHealth, WorkerScan, WorkerSub, WorkerRows, dbVars
<1>4. CASE Environment
  BY <1>4 DEF Environment, Crash, RetryDue, Flip, Retire, StartFlow, LockTimeout, FinishFails,
              Abort, dbVars
<1>5. CASE UNCHANGED vars
  BY <1>5 DEF vars
<1> QED BY <1>1, <1>2, <1>3, <1>4, <1>5 DEF Next

LEMMA StepOrphans == IInv /\ OInv /\ [Next]_vars /\ NoRevivalMidway => OInv'
<1> SUFFICES ASSUME IInv, OInv, [Next]_vars, NoRevivalMidway PROVE OInv'
  OBVIOUS
<1>1. ASSUME NEW p \in Procs, Unlocked(p) \/ Pass(p) PROVE OInv'
  <2>1. ASSUME NEW n \in Nodes, \/ Requeue(p, n) \/ DropBinding(p, n) \/ Call(p, n)
                                \/ RecWrite(p, n) \/ MarkWrite(p, n)
        PROVE  OInv'
    BY <2>1, VisitOrphans, ReconcileOrphans, MarkOrphans
  <2>2. CASE RecSub(p) \/ RecRows(p) \/ RecDone(p)
    BY <2>2, ReconcileOrphans
  <2>3. CASE MarkBegin(p) \/ MarkRows(p) \/ MarkDone(p)
    BY <2>3, MarkOrphans
  <2>4. CASE \/ SyncBegin(p) \/ SyncRows(p) \/ SyncSub(p) \/ EndOfVisit(p) \/ Finish(p)
             \/ CutShort(p) \/ ApplyBegin(p) \/ ApplySub(p) \/ ApplyMark(p)
    BY <2>4, SyncOrphans, WriteOrphans, ApplyOrphans
  <2>5. CASE Unlocked(p)
    BY <2>5, UnlockedOrphans
  <2> QED BY <1>1, <2>1, <2>2, <2>3, <2>4, <2>5 DEF Pass
<1>2. CASE WorkerPass
  BY <1>2, WorkerOrphans
<1>3. CASE Environment
  <2>1. ASSUME NEW p \in Callers, NEW f \in Flows[p], StartFlow(p, f) PROVE OInv'
    BY <2>1, FlowOrphans
  <2>2. ASSUME NEW p \in Procs, LockTimeout(p) \/ FinishFails(p) \/ Abort(p) PROVE OInv'
    BY <2>2, LockTimeoutOrphans, WriteOrphans
  <2> QED BY <1>3, <2>1, <2>2, EnvironmentOrphans DEF Environment
<1>4. CASE UNCHANGED vars
  BY <1>4, UnchangedOrphans
<1> QED BY <1>1, <1>2, <1>3, <1>4 DEF Next

(* No client of a node in service is without a row that can remove it, for *)
(* any nodes, plans, flows, failures and crashes, unless a payment or a    *)
(* plan of the administrator activates the subscription between the        *)
(* revocation and the deletion of its rows.  That one step is the only     *)
(* way to such a client (the hazard at subscription.go:496).               *)
THEOREM OrphansNeedRevival == Spec /\ [][NoRevivalMidway]_vars => []NoOrphanClient
<1>1. OInv => NoOrphanClient
  BY DEF OInv
<1>2. IInv /\ OInv /\ [Next]_vars /\ [NoRevivalMidway]_vars => OInv'
  <2>1. CASE UNCHANGED vars
    BY <2>1, UnchangedOrphans
  <2> QED BY <2>1, StepOrphans
<1>3. Spec /\ [][NoRevivalMidway]_vars => []OInv
  BY <1>2, InductiveInvariant, InitOrphans, PTL DEF Spec
<1> QED BY <1>1, <1>3, PTL

(* Flows in which nobody pays for a subscription, or gives it a plan,      *)
(* while another goroutine deletes it revive nothing.                      *)
LEMMA UndisturbedRevivesNothing ==
  ASSUME DeletionUndisturbed, IInv, OInv, [Next]_vars
  PROVE  NoRevivalMidway
<1> SUFFICES ASSUME NEW q \in Procs, Dismantling(q), sub'.status = "active" PROVE FALSE
  BY DEF NoRevivalMidway
<1>1. Deleting(q) /\ sub.status # "active"
  BY DEF OInv, Orderly, Closing, Dismantling
<1>2. \E p \in Procs : Next1(p, "pay") \/ Next1(p, "setplan")
  BY <1>1, OnlyActivation DEF IInv
<1>3. PICK p \in Procs : script[p] # <<>> /\ Head(script[p]) \in {"pay", "setplan"}
  BY <1>2 DEF Next1
<1>4. p \in Callers /\ Flows[p] \cap Activating # {}
  BY <1>3, HeadOfScript DEF IInv, OInv, Orderly
<1>5. q \in Callers /\ "delete" \in Flows[q] /\ Head(script[q]) \notin {"pay", "setplan"}
  BY <1>1, DeletingScript DEF IInv, OInv, Orderly
<1> QED BY <1>3, <1>4, <1>5 DEF DeletionUndisturbed

(* So there NoOrphanClient holds without more.                             *)
THEOREM EveryClientHasARow == ASSUME DeletionUndisturbed PROVE Spec => []NoOrphanClient
<1>1. OInv => NoOrphanClient
  BY DEF OInv
<1>2. IInv /\ OInv /\ [Next]_vars => OInv'
  BY StepOrphans, UndisturbedRevivesNothing
<1>3. Spec => []OInv
  BY <1>2, InductiveInvariant, InitOrphans, PTL DEF Spec
<1> QED BY <1>1, <1>3, PTL

--------------------------------------------------------------------------------
(* What the passes of this module do with lockSubscription is what          *)
(* KeyedMutex promises: one subscription is one key, and its holder is the  *)
(* goroutine inside the locked steps.                                       *)
Holding == {p \in Procs : Locked(p)}
Holders == [k \in {"subscription"} |-> Holding]
Mutex == INSTANCE KeyedMutex WITH Keys <- {"subscription"}, holders <- Holders

(* Only goroutine p moved, and it did not enter past a holder.              *)
TakesTurns(p) == LockKept(p) /\ \A q \in Procs \ {p} : step'[q] = step[q]

LEMMA TurnIsMutex ==
  ASSUME Exclusive, NEW p \in Procs, TakesTurns(p)
  PROVE  [Mutex!Next]_Holders
<1>1. Holding \ {p} = Holding' \ {p}
  BY DEF TakesTurns, Locked, Holding
<1>2. CASE p \in Holding <=> p \in Holding'
  <2>1. Holding' = Holding
    BY <1>1, <1>2
  <2> QED BY <2>1 DEF Holders
<1>3. CASE p \in Holding /\ p \notin Holding'
  <2>1. Holding = {p} /\ Holding' = {}
    BY <1>1, <1>3 DEF Exclusive, Holding
  <2>2. Mutex!GiveBack(p, "subscription")
    BY <2>1 DEF Mutex!GiveBack, Holders
  <2> QED BY <2>2 DEF Mutex!Next
<1>4. CASE p \notin Holding /\ p \in Holding'
  <2>1. Holding = {} /\ Holding' = {p}
    BY <1>1, <1>4 DEF TakesTurns, LockKept, Free, Holding, Locked
  <2>2. Mutex!Take(p, "subscription")
    BY <2>1 DEF Mutex!Take, Holders
  <2> QED BY <2>2 DEF Mutex!Next
<1> QED BY <1>2, <1>3, <1>4

LEMMA PassTakesTurns ==
  ASSUME step \in [Procs -> Steps], NEW p \in Procs, Unlocked(p) \/ Pass(p)
  PROVE  TakesTurns(p)
<1>1. ASSUME Unlocked(p) PROVE TakesTurns(p)
  BY <1>1
     DEF Unlocked, LoadSub, Pay, Downgrade, SetPlan, Revoke, Deactivate, Verify, DelRows,
         DelSub, WriteCopy, Proceed, Stop, TakesTurns, LockKept, Locked
<1>2. ASSUME SyncBegin(p) \/ MarkBegin(p) \/ ApplyBegin(p) PROVE TakesTurns(p)
  BY <1>2 DEF SyncBegin, MarkBegin, ApplyBegin, Goto, Done, TakesTurns, LockKept
<1>3. ASSUME \/ SyncRows(p) \/ SyncSub(p) \/ EndOfVisit(p) \/ Finish(p) \/ CutShort(p)
             \/ RecSub(p) \/ RecRows(p) \/ RecDone(p) \/ MarkRows(p) \/ MarkDone(p)
             \/ ApplySub(p) \/ ApplyMark(p)
      PROVE  TakesTurns(p)
  BY <1>3 DEF SyncRows, SyncSub, EndOfVisit, Finish, CutShort, RecSub, RecRows, RecDone,
              MarkRows, MarkDone, ApplySub, ApplyMark, Goto, Done, GiveUp, TakesTurns,
              LockKept, Locked, LockedSteps
<1>4. ASSUME NEW n \in Nodes, \/ Requeue(p, n) \/ DropBinding(p, n) \/ Call(p, n)
                              \/ RecWrite(p, n) \/ MarkWrite(p, n)
      PROVE  TakesTurns(p)
  BY <1>4 DEF Requeue, DropBinding, Call, RecWrite, MarkWrite, Goto, GiveUp, TakesTurns,
              LockKept, Locked, LockedSteps
<1> QED BY <1>1, <1>2, <1>3, <1>4 DEF Pass

LEMMA OthersTakeTurns ==
  ASSUME step \in [Procs -> Steps], [Next]_vars, ~\E p \in Procs : Unlocked(p) \/ Pass(p), ~Crash
  PROVE  \E p \in Procs : TakesTurns(p)
<1>1. Worker \in Procs
  BY DEF Procs
<1>2. ASSUME WorkerPass PROVE TakesTurns(Worker)
  BY <1>2 DEF WorkerPass, WorkerRelease, WorkerHealth, WorkerScan, WorkerSub, WorkerRows,
              Goto, Done, TakesTurns, LockKept, Locked, LockedSteps
<1>3. ASSUME NEW p \in Procs, \/ \E f : StartFlow(p, f)
                              \/ LockTimeout(p) \/ FinishFails(p) \/ Abort(p)
      PROVE  TakesTurns(p)
  BY <1>3 DEF StartFlow, LockTimeout, FinishFails, Abort, Goto, Done, GiveUp, TakesTurns,
              LockKept, Locked, LockedSteps
<1>4. ASSUME \/ UNCHANGED vars
             \/ \E n \in Nodes : RetryDue(n) \/ Flip(n) \/ Retire(n)
      PROVE  TakesTurns(Worker)
  BY <1>4 DEF RetryDue, Flip, Retire, procVars, vars, TakesTurns, LockKept, Locked
<1>5. \A p \in Callers : p \in Procs
  BY DEF Procs
<1> QED BY <1>1, <1>2, <1>3, <1>4, <1>5 DEF Next, Environment

LEMMA CrashIsMutex ==
  ASSUME Exclusive, Crash
  PROVE  [Mutex!Next]_Holders
<1>1. Holding' = {}
  BY DEF Crash, Locked, LockedSteps, Holding
<1>2. CASE Holding = {}
  BY <1>1, <1>2 DEF Holders
<1>3. CASE Holding # {}
  <2>1. PICK p \in Procs : Holding = {p}
    BY <1>3 DEF Exclusive, Holding
  <2>2. Mutex!GiveBack(p, "subscription")
    BY <1>1, <2>1 DEF Mutex!GiveBack, Holders
  <2> QED BY <2>2 DEF Mutex!Next
<1> QED BY <1>2, <1>3

(* Detailed passes, scans, timeouts and restarts implement the abstract     *)
(* lock: whatever fails or gives up, the subscription is held by one        *)
(* goroutine at most, taken only when free and given back by its holder.    *)
THEOREM LockImplemented == Spec => Mutex!Spec
<1>1. Init => Mutex!Init
  BY DEF Init, Mutex!Init, Locked, LockedSteps, Holding, Holders
<1>2. IInv /\ [Next]_vars => [Mutex!Next]_Holders
  BY TurnIsMutex, PassTakesTurns, OthersTakeTurns, CrashIsMutex DEF IInv, TypeOK, ControlOK
<1> QED BY <1>1, <1>2, InitInv, StepInv, PTL DEF Spec, Mutex!Spec

--------------------------------------------------------------------------------
(* What becomes of a row: where it goes, the client has gone before.        *)

(* The rows a pass forgets are those whose removal was answered.            *)
RemovalsAnswered == \A p \in Procs : AnsweredRemoval(p)

(* Only a call moves the panel or begins a write.                           *)
NoCall ==
  /\ UNCHANGED panel
  /\ \A q \in Procs : step'[q] = "write" =>
        step[q] = "write" /\ result'[q] = result[q] /\ seen'[q] = seen[q]

LEMMA OnlyCallsCall ==
  ASSUME TypeOK, [Next]_vars
  PROVE  NoCall \/ \E p \in Procs, n \in Nodes : Call(p, n)
<1>1. ASSUME NEW p \in Procs, Unlocked(p) PROVE NoCall
  BY <1>1
     DEF Unlocked, LoadSub, Pay, Downgrade, SetPlan, Revoke, Deactivate, Verify, DelRows,
         DelSub, WriteCopy, Proceed, Stop, NoCall
<1>2. ASSUME NEW p \in Procs, step'[p] # "write", UNCHANGED panel,
             \A q \in Procs \ {p} : UNCHANGED <<step[q], result[q], seen[q]>>
      PROVE  NoCall
  BY <1>2 DEF NoCall
<1>3. ASSUME NEW p \in Procs, \/ SyncBegin(p) \/ MarkBegin(p) \/ ApplyBegin(p)
                              \/ RecSub(p) \/ RecDone(p) \/ MarkDone(p) \/ ApplySub(p)
                              \/ ApplyMark(p) \/ EndOfVisit(p) \/ SyncSub(p)
      PROVE  NoCall
  <2>1. step'[p] # "write" /\ UNCHANGED panel
    BY <1>3 DEF SyncBegin, MarkBegin, ApplyBegin, RecSub, RecDone, MarkDone, ApplySub, ApplyMark,
                EndOfVisit, SyncSub, Goto, Done, GiveUp, TypeOK
  <2>2. \A q \in Procs \ {p} : UNCHANGED <<step[q], result[q], seen[q]>>
    BY <1>3 DEF SyncBegin, MarkBegin, ApplyBegin, RecSub, RecDone, MarkDone, ApplySub, ApplyMark,
                EndOfVisit, SyncSub, Goto, Done, GiveUp, Forget, TypeOK
  <2> QED BY <1>2, <2>1, <2>2
<1>4. ASSUME NEW p \in Procs, \/ SyncRows(p) \/ RecRows(p) \/ MarkRows(p)
                              \/ Finish(p) \/ CutShort(p) \/ LockTimeout(p) \/ FinishFails(p)
                              \/ Abort(p) \/ \E f : StartFlow(p, f)
      PROVE  NoCall
  <2>1. (step'[p] # "write" \/ \E f : StartFlow(p, f)) /\ UNCHANGED panel
    BY <1>4 DEF SyncRows, RecRows, MarkRows, Finish, CutShort, LockTimeout, FinishFails, Abort,
                StartFlow, Goto, Done, GiveUp, TypeOK
  <2>2. \A q \in Procs \ {p} : UNCHANGED <<step[q], result[q], seen[q]>>
    BY <1>4 DEF SyncRows, RecRows, MarkRows, Finish, CutShort, LockTimeout, FinishFails, Abort,
                StartFlow, Goto, Done, GiveUp, Load, Forget, TypeOK
  <2>3. (\E f : StartFlow(p, f)) => step'[p] # "write"
    BY DEF StartFlow
  <2> QED BY <1>2, <2>1, <2>2, <2>3
<1>5. ASSUME NEW p \in Procs, NEW n \in Nodes,
             Requeue(p, n) \/ DropBinding(p, n) \/ RecWrite(p, n) \/ MarkWrite(p, n)
      PROVE  NoCall
  <2>1. step'[p] # "write" /\ UNCHANGED panel
    BY <1>5 DEF Requeue, DropBinding, RecWrite, MarkWrite, GiveUp, TypeOK
  <2>2. \A q \in Procs \ {p} : UNCHANGED <<step[q], result[q], seen[q]>>
    BY <1>5 DEF Requeue, DropBinding, RecWrite, MarkWrite, GiveUp, Forget, TypeOK
  <2> QED BY <1>2, <2>1, <2>2
<1>6. CASE WorkerPass
  <2>1. Worker \in Procs
    BY DEF Procs
  <2>2. step'[Worker] # "write" /\ UNCHANGED panel
    BY <1>6, <2>1 DEF WorkerPass, WorkerRelease, WorkerHealth, WorkerScan, WorkerSub, WorkerRows,
                      Goto, Done, TypeOK
  <2>3. \A q \in Procs \ {Worker} : UNCHANGED <<step[q], result[q], seen[q]>>
    BY <1>6, <2>1 DEF WorkerPass, WorkerRelease, WorkerHealth, WorkerScan, WorkerSub, WorkerRows,
                      Goto, Done, Load, Forget, TypeOK
  <2> QED BY <1>2, <2>1, <2>2, <2>3
<1>7. CASE Crash \/ UNCHANGED vars \/ \E n \in Nodes : RetryDue(n) \/ Flip(n) \/ Retire(n)
  BY <1>7 DEF Crash, RetryDue, Flip, Retire, procVars, vars, NoCall
<1>8. \A p \in Callers : p \in Procs
  BY DEF Procs
<1> QED BY <1>1, <1>3, <1>4, <1>5, <1>6, <1>7, <1>8 DEF Next, Pass, Environment

(* Whoever holds the lock calls alone: no other removal is being answered.  *)
LEMMA CallsAnswer ==
  ASSUME IInv, RemovalsAnswered, NEW p \in Procs, NEW n \in Nodes, Call(p, n)
  PROVE  RemovalsAnswered'
<1>1. step[p] = "visit" /\ step'[p] = "write" /\ seen' = seen
  BY ControlFrame DEF Call, IInv, Steps, LockedSteps
<1>2. \A q \in Procs \ {p} : step'[q] # "write"
  <2>1. \A q \in Procs \ {p} : step[q] # "write"
    BY <1>1 DEF IInv, Exclusive, Locked, LockedSteps
  <2> QED BY <2>1, ControlFrame DEF Call, IInv, Steps, LockedSteps
<1>3. AnsweredRemoval(p)'
  <2>1. CASE Answers(p, n)
    <3>1. /\ result'[p] = <<n, Answer(seen[p][n], n)>>
          /\ panel'[n] = Applied(seen[p][n], n, snap[p].plan)
      BY <2>1 DEF Answers, IInv, TypeOK
    <3> QED BY <1>1, <3>1 DEF AnsweredRemoval, Applied
  <2>2. CASE Fails(p, n)
    <3>1. PICK how \in Failures : result' = [result EXCEPT ![p] = <<n, how>>]
      BY <2>2 DEF Fails
    <3>2. result'[p] = <<n, how>> /\ how # "ok"
      BY <3>1, FailuresAssumption DEF IInv, TypeOK
    <3> QED BY <3>2 DEF AnsweredRemoval
  <2> QED BY <2>1, <2>2 DEF Call
<1> QED BY <1>2, <1>3 DEF RemovalsAnswered, AnsweredRemoval

LEMMA StepAnswers == IInv /\ RemovalsAnswered /\ [Next]_vars => RemovalsAnswered'
<1>1. NoCall /\ RemovalsAnswered => RemovalsAnswered'
  BY DEF NoCall, RemovalsAnswered, AnsweredRemoval
<1> QED BY <1>1, CallsAnswer, OnlyCallsCall DEF IInv

(* The steps that keep every row there is.                                  *)
LEMMA RowsAreKept ==
  ASSUME TypeOK, [Next]_vars
  PROVE  \/ KeepsRows
         \/ \E p \in Procs : DelRows(p) \/ Finish(p) \/ \E n \in Nodes : DropBinding(p, n)
<1>1. ASSUME bind' = bind PROVE KeepsRows
  BY <1>1 DEF KeepsRows
<1>0. ASSUME NEW targets, bind' \in {bind, ApplyPlan(bind, targets)} PROVE KeepsRows
  <2> SUFFICES ASSUME NEW n \in Nodes, bind[n].st # "none" PROVE bind'[n].st # "none"
    BY DEF KeepsRows
  <2>1. ApplyPlan(bind, targets)[n].st # "none"
    BY ApplyPlanKeepsRows DEF TypeOK
  <2> QED BY <1>0, <2>1
<1>2. ASSUME NEW p \in Procs, Unlocked(p), ~DelRows(p) PROVE KeepsRows
  <2>1. CASE \/ LoadSub(p) \/ Revoke(p) \/ Deactivate(p) \/ Verify(p) \/ DelSub(p)
             \/ \E plan \in Plans : SetPlan(p, plan)
    BY <2>1, <1>1 DEF LoadSub, Revoke, Deactivate, Verify, DelSub, SetPlan, dbVars
  <2>2. CASE Downgrade(p)
    <3>1. bind' \in {bind, ApplyPlan(bind, Targets(FreePlan))}
      BY <2>2 DEF Downgrade, dbVars
    <3> QED BY <1>0, <3>1
  <2>3. ASSUME NEW plan \in Plans \ {FreePlan}, Pay(p, plan) PROVE KeepsRows
    <3>1. bind' \in {bind, ApplyPlan(bind, Targets(plan))}
      BY <2>3 DEF Pay, dbVars
    <3> QED BY <1>0, <3>1
  <2> QED BY <1>2, <2>1, <2>2, <2>3 DEF Unlocked
<1>3. ASSUME NEW n \in Nodes, NEW row, row.st # "none" \/ row = bind[n],
             bind' = [bind EXCEPT ![n] = row]
      PROVE  KeepsRows
  BY <1>3 DEF KeepsRows, TypeOK
<1>4. ASSUME NEW p \in Procs, NEW n \in Nodes,
             Requeue(p, n) \/ Call(p, n) \/ RecWrite(p, n) \/ MarkWrite(p, n)
      PROVE  KeepsRows
  <2>1. CASE Call(p, n)
    BY <2>1, <1>1 DEF Call, dbVars
  <2>2. CASE Requeue(p, n) \/ MarkWrite(p, n)
    <3>1. \/ bind' = bind
          \/ bind' = [bind EXCEPT ![n] = SetStatus(bind[n], "pending_remove")]
      BY <2>2 DEF Requeue, MarkWrite
    <3>2. SetStatus(bind[n], "pending_remove").st # "none" \/ SetStatus(bind[n], "pending_remove") = bind[n]
      BY DEF SetStatus, Fresh
    <3> QED BY <1>1, <1>3, <3>1, <3>2
  <2>3. CASE RecWrite(p, n)
    <3> DEFINE row == ReconcileNode(n, snap[p].targets, seen[p][n], bind[n])
    <3>1. bind' = [bind EXCEPT ![n] = row]
      BY <2>3 DEF RecWrite
    <3>2. row.st # "none" \/ row = bind[n]
      BY DEF ReconcileNode, SetStatus, UpsertPendingAdd, Fresh
    <3> QED BY <1>3, <3>1, <3>2
  <2> QED BY <1>4, <2>1, <2>2, <2>3
<1>5. ASSUME NEW p \in Procs, ApplyMark(p) PROVE KeepsRows
  BY <1>5 DEF ApplyMark, MarkActive, Fresh, KeepsRows
<1>6. ASSUME NEW p \in Procs,
             \/ SyncBegin(p) \/ SyncRows(p) \/ SyncSub(p) \/ EndOfVisit(p) \/ CutShort(p)
             \/ RecSub(p) \/ RecRows(p) \/ RecDone(p) \/ MarkBegin(p) \/ MarkRows(p)
             \/ MarkDone(p) \/ ApplyBegin(p) \/ ApplySub(p)
      PROVE  KeepsRows
  BY <1>6, <1>1
     DEF SyncBegin, SyncRows, SyncSub, EndOfVisit, CutShort, RecSub, RecRows, RecDone, MarkBegin,
         MarkRows, MarkDone, ApplyBegin, ApplySub, dbVars
<1>7. CASE WorkerPass
  <2>1. CASE WorkerRelease
    BY <2>1 DEF WorkerRelease, Fresh, KeepsRows
  <2>2. CASE WorkerHealth \/ WorkerScan \/ WorkerSub \/ WorkerRows
    BY <2>2, <1>1 DEF WorkerHealth, WorkerScan, WorkerSub, WorkerRows, dbVars
  <2> QED BY <1>7, <2>1, <2>2 DEF WorkerPass
<1>8. CASE Environment \/ UNCHANGED vars
  <2>1. ASSUME NEW n \in Nodes, RetryDue(n) PROVE KeepsRows
    BY <2>1 DEF RetryDue, KeepsRows, TypeOK, Rows
  <2>2. CASE bind' = bind
    BY <1>1, <2>2
  <2> QED BY <1>8, <2>1, <2>2
      DEF Environment, Crash, Flip, Retire, StartFlow, LockTimeout, FinishFails, Abort, dbVars, vars
<1> QED BY <1>2, <1>4, <1>5, <1>6, <1>7, <1>8 DEF Next, Pass

(* A row is forgotten after its client: its removal was answered, or the    *)
(* node is out of service, or a deletion that found no row left clears the  *)
(* table.                                                                   *)
Forgotten(n) == bind[n].st # "none" /\ bind'[n].st = "none"
ClientFirst(n) ==
  panel[n] = NoClient \/ ~nodeActive[n] \/ \E p \in Procs : Next1(p, "delrows")
ForgottenAfterClient == \A n \in Nodes : Forgotten(n) => ClientFirst(n)

LEMMA StepForgets == IInv /\ RemovalsAnswered /\ [Next]_vars => ForgottenAfterClient
<1> SUFFICES ASSUME IInv, RemovalsAnswered, [Next]_vars, NEW n \in Nodes, Forgotten(n)
             PROVE  ClientFirst(n)
  BY DEF ForgottenAfterClient
<1>1. PICK p \in Procs : DelRows(p) \/ Finish(p) \/ \E m \in Nodes : DropBinding(p, m)
  BY RowsAreKept DEF IInv, KeepsRows, Forgotten
<1>2. CASE DelRows(p)
  BY <1>2 DEF DelRows, ClientFirst
<1>3. ASSUME NEW m \in Nodes, DropBinding(p, m) PROVE ClientFirst(n)
  <2>1. bind' = [bind EXCEPT ![m] = NoRow] /\ ~nodeActive[m]
    BY <1>3 DEF DropBinding
  <2>2. n = m
    BY <2>1 DEF Forgotten, IInv, TypeOK
  <2> QED BY <2>1, <2>2 DEF ClientFirst
<1>4. CASE Finish(p)
  <2> DEFINE m == result[p][1]
             how == result[p][2]
             row == Written(bind[m], seen[p][m], how)
  <2>1. bind' = [bind EXCEPT ![m] = row] /\ step[p] = "write"
    BY <1>4 DEF Finish
  <2>2. n = m /\ row.st = "none"
    BY <2>1 DEF Forgotten, IInv, TypeOK
  <2>3. UpdateRetry(bind[m], seen[p][m].tries, how).st = bind[m].st
    BY <2>2 DEF IInv, TypeOK, UpdateRetry, Rows
  <2>4. how = "ok" /\ seen[p][m].st = "pending_remove"
    BY <2>2, <2>3 DEF Written, SetStatus, Fresh, Forgotten
  <2> QED BY <2>1, <2>2, <2>4 DEF RemovalsAnswered, AnsweredRemoval, ClientFirst
<1> QED BY <1>1, <1>2, <1>3, <1>4

(* While payments and plan changes rewrite the rows in the middle of a      *)
(* pass, and calls fail, hang or take effect without an answer, no step of  *)
(* a pass forgets the row of a client that is still on the panel of a node  *)
(* in service: the row goes only after the client (processPendingRemove,    *)
(* handleSyncError).  What remains is the deletion's own statement, which   *)
(* has verified that there are no rows and is the subject of                *)
(* OrphansNeedRevival.                                                      *)
THEOREM RowsOutliveClients == Spec => [][ForgottenAfterClient]_vars
<1>1. Init => RemovalsAnswered
  BY DEF Init, RemovalsAnswered, AnsweredRemoval
<1>2. Spec => [](IInv /\ RemovalsAnswered)
  BY <1>1, StepAnswers, InductiveInvariant, PTL DEF Spec
<1>3. Spec => [][Next]_vars
  BY PTL DEF Spec
<1>4. IInv /\ RemovalsAnswered /\ [Next]_vars => [ForgottenAfterClient]_vars
  BY StepForgets
<1> QED BY <1>2, <1>3, <1>4, PTL
================================================================================
