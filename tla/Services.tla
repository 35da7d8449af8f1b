------------------------------ MODULE Services ------------------------------
(***************************************************************************)
(* The parts of the bot that share no state a property looks at: the        *)
(* per-key locks, trials and their admission, traffic, reminders, the calls *)
(* of a panel, the life of a subscription, backups and the process. A       *)
(* behaviour follows one of them; the others stay as they begin.            *)
(***************************************************************************)
EXTENDS KeyedLock, Sequences

CONSTANTS
  NoUser, Followers, Binders, MaxBinds, MaxTrialFaults,
  Visitors, RateLimit, Hour, Second, LastRequest,
  Nodes, Limit, Denominator, MaxCycles, MaxTrafficFaults,
  Leads, HalfTick, Interval, Expiries, LastReminder, MaxReminderFaults,
  Inbounds, FlowOf, MaxTries, MaxCallFaults, MaxEdits,
  Creators, Free, Paid, PlanNodes, MaxRetries, MaxFlows, MaxSubscriptionFaults,
  Pages, Keep, MaxDays, MaxCommits,
  Workers, MaxHandlers, MaxBackoff, MaxUpdates, MaxPanics, MaxLaunches

ASSUME AdmissionAssumption ==
  RateLimit \in Nat /\ Hour \in Nat /\ Second \in Nat \ {0} /\ LastRequest \in Nat

(* A window is at least as wide as two ticks of the worker: both are made of *)
(* half hours in the code.                                                   *)
ASSUME RemindersAssumption ==
  /\ Leads \in Seq(Nat) /\ Len(Leads) > 0 /\ Expiries \in Seq(Nat) /\ Len(Expiries) > 0
  /\ HalfTick \in Nat /\ Interval \in Nat \ {0} /\ Interval <= HalfTick
  /\ LastReminder \in Nat /\ MaxReminderFaults \in Nat

(* RotateBackups keeps one file at least.                                    *)
ASSUME BackupAssumption ==
  Pages \in Nat \ {0} /\ Keep \in Nat \ {0} /\ MaxDays \in Nat /\ MaxCommits \in Nat

ASSUME PanelAssumption ==
  /\ IsFiniteSet(Inbounds) /\ FlowOf \in [Inbounds -> STRING] /\ \A i \in Inbounds : FlowOf[i] # "off"
  /\ MaxTries \in Nat /\ MaxCallFaults \in Nat /\ MaxEdits \in Nat

ASSUME TrafficAssumption ==
  Limit \in Nat /\ MaxCycles \in Nat /\ MaxTrafficFaults \in Nat

ASSUME SubscriptionAssumption ==
  MaxRetries \in Nat /\ PlanNodes \in [{Free, Paid} -> SUBSET Nodes]

ASSUME ProcessAssumption ==
  MaxHandlers \in Nat /\ MaxBackoff \in Nat /\ MaxLaunches \in Nat

VARIABLES
  part,
  trial, owner, client, over, creator, binder, cleaner, follower, binds, trialFaults,
  requestTime, records, admitted, mutex, visitor,
  mode, used, enabled, marks, trafficPc, trafficCopy, seen, unread, mark, cycles, trafficFaults,
  now, date, since, sent, told, confirmed, repeated, window, step, reminderCopy, next, reminderFaults,
  failed, spoilt,
  op, requested, email, ours, on, groups, applied, tries, panelPc, result, panelFaults, edits,
  row, bind, at, copy, todo, flows, subFaults,
  committed, main, stage, temp, began, base, rotated, days, published, everRotated,
  phase, cancelled, held, handlers, worker, backoff, background, web, updates, panics, launches

Trials == INSTANCE TrialLifecycle WITH MaxFaults <- MaxTrialFaults, faults <- trialFaults

Admission == INSTANCE TrialAdmission WITH
  MaxTime <- LastRequest, now <- requestTime, at <- visitor

Traffic == INSTANCE TrafficQuota WITH
  MaxFaults <- MaxTrafficFaults,
  pc <- trafficPc, copy <- trafficCopy, todo <- unread, faults <- trafficFaults

Reminders == INSTANCE ExpiryReminders WITH
  MaxTime <- LastReminder, MaxFaults <- MaxReminderFaults,
  copy <- reminderCopy, faults <- reminderFaults

Panel == INSTANCE PanelCalls WITH
  MaxRetries <- MaxTries, MaxFaults <- MaxCallFaults, pc <- panelPc, faults <- panelFaults

Subscriptions == INSTANCE SubscriptionLifecycle WITH
  MaxFaults <- MaxSubscriptionFaults, faults <- subFaults

Backup == INSTANCE DatabaseBackup

Process == INSTANCE ProcessLifecycle

Parts == {"locks", "trial", "admission", "traffic", "reminders", "panel", "subscription",
          "backup", "process"}

ServicesInit ==
  /\ part \in Parts
  /\ Init /\ (part # "locks" => key = [p \in Procs |-> CHOOSE k \in Keys : TRUE])
  /\ Trials!Init /\ Admission!Init
  /\ Traffic!Init /\ (mode = "unlimited" <=> part # "traffic")
  /\ Reminders!Init /\ (part # "reminders" => next = 0)
  /\ IF part = "panel" THEN Panel!Init
     ELSE Panel!Init /\ op = "add" /\ requested = Inbounds /\ email = "none"
  /\ Subscriptions!Init /\ (part # "subscription" => row.status = "absent")
  /\ Backup!Init
  /\ Process!Init /\ (phase = "exited" <=> part # "process")

(* The variables of a part, under the names they have here.                  *)
trialVars == <<trial, owner, client, over, creator, binder, cleaner, follower, binds, trialFaults>>
admissionVars == <<requestTime, records, admitted, mutex, visitor>>
trafficVars == <<mode, used, enabled, marks, trafficPc, trafficCopy, seen, unread, mark, cycles, trafficFaults>>
remindersVars == <<now, date, since, sent, told, confirmed, repeated, window, step, reminderCopy, next, reminderFaults,
                    failed, spoilt>>
panelVars == <<op, requested, email, ours, on, groups, applied, tries, panelPc, result, panelFaults, edits>>
subscriptionVars == <<row, bind, at, copy, todo, flows, subFaults>>
backupVars == <<committed, main, stage, temp, began, base, rotated, days, published, everRotated>>
processVars == <<phase, cancelled, held, handlers, worker, backoff, background, web, updates, panics,
                    launches>>

Frozen ==
  /\ UNCHANGED part
  /\ IF part = "locks" THEN TRUE ELSE UNCHANGED vars
  /\ IF part = "trial" THEN TRUE ELSE UNCHANGED trialVars
  /\ IF part = "admission" THEN TRUE ELSE UNCHANGED admissionVars
  /\ IF part = "traffic" THEN TRUE ELSE UNCHANGED trafficVars
  /\ IF part = "reminders" THEN TRUE ELSE UNCHANGED remindersVars
  /\ IF part = "panel" THEN TRUE ELSE UNCHANGED panelVars
  /\ IF part = "subscription" THEN TRUE ELSE UNCHANGED subscriptionVars
  /\ IF part = "backup" THEN TRUE ELSE UNCHANGED backupVars
  /\ IF part = "process" THEN TRUE ELSE UNCHANGED processVars

ServicesNext ==
  /\ \/ part = "locks" /\ Next
     \/ part = "trial" /\ Trials!Next
     \/ part = "admission" /\ Admission!Next
     \/ part = "traffic" /\ Traffic!Next
     \/ part = "reminders" /\ Reminders!Next
     \/ part = "panel" /\ Panel!Next
     \/ part = "subscription" /\ Subscriptions!Next
     \/ part = "backup" /\ Backup!Next
     \/ part = "process" /\ Process!Next
  /\ Frozen

allVars == <<part, vars, trialVars, admissionVars, trafficVars, remindersVars, panelVars,
             subscriptionVars, backupVars, processVars>>

(* No fair action of a part is enabled where another one is followed.        *)
ServicesSpec == /\ ServicesInit /\ [][ServicesNext]_allVars
          /\ Fairness /\ Trials!Fairness /\ Traffic!Fairness
          /\ Subscriptions!Fairness /\ Process!Fairness

TypesOK ==
  /\ TypeOK /\ Trials!TypeOK /\ Admission!TypeOK /\ Traffic!TypeOK /\ Reminders!TypeOK
  /\ Panel!TypeOK /\ Subscriptions!TypeOK /\ Backup!TypeOK /\ Process!TypeOK

BoundKeepsAccess == Trials!BoundKeepsAccess
ExpiredTrialGoes == Trials!ExpiredTrialGoes
HourlyLimit == Admission!HourlyLimit
AccessRecovers == Traffic!AccessRecovers
RemindedOnceInTime == Reminders!RemindedOnceInTime
FullMembership == Panel!FullMembership
ActiveIsServed == Subscriptions!ActiveIsServed
RestoreLosesNothing == Backup!RestoreLosesNothing
WorksUntilStopped == Process!WorksUntilStopped
=============================================================================
