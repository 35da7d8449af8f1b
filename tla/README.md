# A TLA+ model of rs8kvn_bot

rs8kvn_bot is a Telegram bot that sells VPN subscriptions. It keeps
subscriptions, orders and node bindings in SQLite, creates and removes clients
on the panels of VPN nodes (3x-ui and proxman), takes payments through Platega,
and serves the subscription links. This directory holds TLA+ modules that model
its core logic, TLC configurations that check them, and proofs for TLAPS.

## 1. Inventory

The process is one Go binary (`cmd/bot`) around one SQLite database. Goroutines:
the Telegram update loop with a handler per update, HTTP handlers, and the
scheduler's workers: sync every 5 min, expiry every hour, traffic every hour,
trial cleanup every 3 h, reminders every 30 min, orphan reconciliation 30 s
after the start and then every 8 h, order reconciliation every hour, backup
daily. They share the database (WAL: one writer at a time, readers see
committed data), the panels, and a few in-memory maps.

| Component | State | Operations | Talks to | What is hard | What makes it correct |
|---|---|---|---|---|---|
| Per-key locks (`service/sync.go`, `service/order.go`) | map id -> {channel with one token, waiters} | lock with timeout, unlock, dropWaiter | SyncService, OrderService | timeouts racing returns, entries deleted and recreated | exclusion, no leaked entry, token conserved |
| SyncService (`service/sync.go`, `sync_tx.go`, `plan_reconcile.go`) | `subscription_nodes` rows (status, retry_count, retry_at), health snapshot | SyncSubscription, SyncPendingNodes, MarkAllForRemoval, ApplyPlanToSubscription (plain and in a transaction), reconciliation | panels, database, all flows below | rows are read, a panel is called, rows are written, while transactions rewrite them; timeouts, crashes, retries | rows and panels agree; revocation is final; retries end; convergence |
| SubscriptionService (`service/subscription*.go`) | `subscriptions` | Create, trials, AdminSetPlan, DeleteByID, revocation, reanimation, expiry, orphan reconciliation | SyncService, panels | whole-row writes of stale copies; several steps without a transaction | no lost entitlement, no client without a row |
| OrderService (`service/order.go`, `database/orders.go`) | `orders`, `subscriptions` | RequestPayment, ConfirmPayment, CancelPaymentByProvider, ReconcilePendingOrders, SyncProviderFees | Platega, SyncService | duplicated, late and crossing callbacks, lost answers of link creation | paid once, activated once, chargeback never removes paid coverage |
| Trials (`database/trials.go`, `web/web.go`) | trial rows, requests per address | create, bind, clean up, admit | panels | panel first, row second, rollback; the counting of requests races | a bound trial keeps its client; at most the limit per hour |
| Traffic quota (`service/subscription_traffic_notifications.go`) | marks per subscription | notify, recover | panels, Telegram | the panels reset on their own; half of a re-enabling fails | a reset gives access back |
| Reminders (`service/subscription_reminders.go`) | marks per subscription | one pass per window | Telegram | a renewal between claim and send, restarts | each date is announced, once per window |
| Broadcasts (`bot/broadcast_*.go`) | campaigns, recipients with leases, a draft in memory | prepare, launch, send, cancel, retry | Telegram | restarts in the middle, lapsed leases, cancellation while sending | all reached or on record as failed; nothing on record sent again |
| Subscription server (`subserver`) | cache, flights, device lists, log queue | serve, invalidate, merge, log | nodes, database | invalidation during a fetch, a panic of the fetching request, a shutdown that gives up | nobody served who is not entitled; every request ends |
| Panel client (`xui/client.go`, `utils/retry.go`) | - | add, update, rename, delete, verify, repeat | 3x-ui | a call is several requests, each of which may be lost or answered late | success means every inbound, each with its flow |
| Supervisor, lifecycle (`cmd/bot`) | running workers, handlers | start, restart with backoff, shut down | everything | panics, hanging handlers, order of shutdown | no worker stays down while the process runs; nothing outlives the database |
| Backup (`backup`) | database file, log, copies | checkpoint, copy, verify, publish, rotate, prune | SQLite | a stop between any two of them | the copies left hold what was committed |
| Bot caches, rate limiters | LRU maps, buckets | get, set, allow | - | - | not modelled |
| Bot texts, health pages, config, logger, metrics, heartbeat, formats | - | - | - | - | input and output; not modelled |

`PROJECT.json` lists every component with its status, and under `hazards` the
places where the code is hard to test, each at its line.

## 2. Modules

| Module | Role |
|---|---|
| `KeyedMutex` | abstract specification: one caller at a time per key |
| `KeyedLock` | `lockSubscription`/`dropWaiter` and `lockPayment`/`dropPaymentWaiter`, which implement it |
| `PlanTable` | rows of `subscription_nodes`, their transitions, the transition table of `plan_reconcile.go` as operators |
| `SyncMachine` | one subscription, its rows, the panels, the worker and the flows around them |
| `OrderLedger` | abstract specification: what orders and entitlement of a subscription promise, without provider, goroutines or statements |
| `PaymentOrders` | orders of one subscription, the provider's transactions, purchases, callbacks, reconciliation; implements it |
| `SubscriptionLifecycle` | one user's row of `subscriptions` and its bindings: creation, reanimation, deletion, plan changes, payments, expiry, the orphan reconciler |
| `TrialLifecycle`, `TrialAdmission` | an anonymous trial from creation to binding or cleanup; the limit of trials per address |
| `TrafficQuota` | the hourly pass over a limited plan, with the panels' counters beside it |
| `ExpiryReminders` | the passes of the reminder worker over the dates of a subscription |
| `PanelCalls` | one call of a 3x-ui panel: its requests, repetitions and verification |
| `BroadcastDraft`, `BroadcastDelivery` | the dialogue that prepares a campaign; its delivery |
| `SubserverCache`, `SubscriptionRendering`, `AccessLog` | the subscription server: cached answers and flights, merging of the nodes' answers, the access log's queue |
| `DatabaseBackup` | the daily backup and the versions its files hold |
| `ProcessLifecycle` | start, event loop, supervised workers, shutdown |
| `Services`, `Broadcasts`, `Subserver` | compositions of parts that share no variable, with the assumptions on their constants |
| `MCSyncMachine`, `MCPaymentOrders`, `MCSubserver`, `MCServices` | instances for TLC |
| `KeyedLockProofs`, `SyncMachineProofs`, `PaymentOrdersProofs`, `TrialLifecycleProofs`, `TrialAdmissionProofs`, `ServicesProofs`, `BroadcastsProofs`, `SubserverProofs` | theorems |

`SyncMachine` extends `PlanTable` and uses the lock as `KeyedMutex` describes it:
a goroutine may begin a pass when no other is in one. `PaymentOrders` uses it the
same way, with the transaction's id as the key (`Locked`). That both do is proved
(`LockImplemented`, `PaymentLockImplemented`). A payment's effect on
the bindings is the flow `payment` of `SyncMachine`.

### KeyedLock

`locks` is the map, `token` the channel's content, `waiters` the field of the
same name, `mine` a goroutine's local pointer. The critical sections under
`locksMu` are one action each (`Enter`, `DropWaiter`); the select's two arms are
`Acquire` and `GiveUp`, and both may be enabled at once, as in Go. Objects come
from a finite heap and are reused when nothing references them, which is what
the garbage collector may do.

### PlanTable

A row is `[st, tries, at]`. `retry_at` is kept as far as the scans tell values
apart: due (`now`), a rung of the ladder (`later`), year 9999 (`parked`).
`ReconcileNode` is the table for one node; it takes the row that was loaded and
the row as it is when the statement runs, since outside a transaction they may
differ. `Reconcile` and `ApplyPlan` are the same inside a transaction.

### SyncMachine

Variables: `sub` (status and plan), `bind` (rows), `panel` (per node the plan whose
limits the client has, or `NoClient`), `nodeActive`, `reach`, `known` (the health
snapshot), per goroutine the rest of its flow (`script`) and the local variables
of the pass it is in (`step`, `snap`, `seen`, `todo`, `result`), and `drained`,
a history variable for `RevocationSticks`.

Each database statement, transaction and panel call is an action. A pass is
`SyncBegin, SyncRows, SyncSub` (a caller) or `WorkerRelease, WorkerHealth,
WorkerScan, WorkerSub, WorkerRows` (the worker), then per row `Requeue`,
`DropBinding` or `Call` followed by `Finish`, `FinishFails`, `CutShort` or
`Abort`, and for the worker `RecSub, RecRows, RecWrite*, RecDone`. The flows are
sequences of such operations:

| Flow | Code | Operations |
|---|---|---|
| payment | ConfirmPayment | `ConfirmOrderPaidCAS` (transaction, no lock), sync |
| downgrade | ExpireSubscription, chargeback | transaction, sync |
| adminPlan | AdminSetPlan | load, whole-row write, ApplyPlanToSubscription, sync |
| deactivate | DeactivateBlockedBroadcastRecipients | load, whole-row write, MarkAllForRemoval, sync |
| delete | DeleteByID | load, whole-row write, MarkAllForRemoval, sync, check, delete rows, delete subscription |

Abstractions and their reasons:

- One subscription: passes of different subscriptions share nothing but the
  scan. (What that leaves out: a lock timeout of one subscription ends the whole
  worker pass, see the hazard at `sync.go:1012`.)
- A panel call either takes effect before it returns or not at all; a failure
  does not tell which. Outcomes are grouped by what the code distinguishes:
  retryable (`retry`, which includes "no client for the node"), refused
  (`refuse`: parks at once), the HTTP client's timeout (`hang`: taken for the end
  of the context).
- The order in which a pass visits its rows is arbitrary: the query has no
  ORDER BY.
- The worker's branch that purges the rows of a missing subscription is left
  out: the foreign key added by migration 032, enforced by the connection
  string, makes it unreachable.
- `ReconcilePlanNodes` (exported) has no caller outside the tests.
- A failed write of `pending_remove` in `Requeue` is not modelled; failures of
  the writes after a call are (`FinishFails`).
- `Quiet` is a set of steps during which no transaction commits. The code has
  no such thing, and `Quiet = {}` in every run but SyncConverge, which uses it to
  ask what the pipeline achieves when transactions do not fall inside a pass.

### PaymentOrders

Variables: `now`; `orders` (status, product, `payment_creation_uncertain`,
`provider_payment_id`, `payment_expires_at`, `expires_at`); `sub` (plan, status
active or not, `expires_at`); `txns`, the provider's transactions with the order
in their payload; `call`, per goroutine the step it is at and what it has read;
`alerts`, the confirmations an administrator was alerted to.

Each statement or transaction of the database and each request to the provider
is an action, in the order of the code:

| Operation | Actions |
|---|---|
| RequestPayment | `RequestPayment` (lookup), `FindPendingPaymentOrder` (conditional expiry and reload), `FindOrCreatePendingPaymentOrder`, `ClaimCreation`, `CreateTransaction` or `RefuseTransaction` and `ClearUncertain`, `SavePaymentDetails`; `Decline` where a product is no longer sold |
| ConfirmPayment | `ConfirmPayment` (lock, lookup by id), `OrderByCallbackPayload`, `AttachProviderPaymentID`, `CheckConfirmation`, `ConfirmOrderPaidCAS` |
| CancelPaymentByProvider | one action with `CancelOrderCAS` or `CancelPaidOrderAndDowngradeCAS` |
| ReconcilePendingOrders | `ReconcilePendingOrder` (list and ask), then `ReconcileConfirmed` and ConfirmPayment's steps, or `ExpirePendingOrder` |
| provider, customer | `Pay`, `Close`, `TakeBack` |
| others | `ExpireSubscription`, `Revoke`, `Tick` |

`Fail` ends any goroutine at any step: a failed statement, a lost answer, a
restart. A lost answer of `CreateTransaction` leaves the transaction at the
provider and the order uncertain. Callbacks are not messages with a state of
their own: a hook may process what the transaction's state allows at any time,
any number of times, or never, which covers delay, duplication, loss and
reordering.

Abstractions and their reasons:

- Dates are naturals. The link's life, the grace periods and the durations keep
  their order, not their proportions; a unit of time is longer than a database
  transaction, hence no `Tick` while a goroutine is at `confirm`: the code takes
  the activation time just before that transaction.
- `SavePaymentDetails` computes the deadline from when the answer arrived, which is
  any moment since the provider started the link's life.
- Amounts and currency are left out: the provider echoes what was asked. So are
  the audit journal (best effort, or inside the same transaction), commissions
  (`SyncProviderFees`), the 30 days after which reconciliation gives up, and the
  deletion of products and subscriptions.
- `payment_url` is set and read only together with `payment_expires_at`.
- Row ids are naturals in order of creation (`IsNext`), as AUTOINCREMENT gives them.

### SubscriptionLifecycle

One user's row of `subscriptions` as a whole record and its rows of `bind`.
`copy` is the row a goroutine loaded: `Save` (`UpdateSubscription`) writes all of
it back. Creators run `GetOrCreateSubscription` (`GetByTelegramID`,
`GetAnyByTelegramID`, `CreateSubscription` or `WipeBindings` and `Reanimate`, then
`LoadMissing`, `UpsertNode` per node, `SyncSubscription`); administrators delete
or change the plan; payments and expiry commit their transactions in between;
the orphan reconciler (`LoadActive`, `CheckBindings`, `RevokeOrphan`) and the
worker (`SyncPendingNodes`) run beside them. `SyncMachine` has the panels and the
steps inside a pass; here a pass is one action with an outcome for each row
(`Outcomes`): settled, parked, left for another try, or not reached, and
`ReleaseRecovered` puts a parked row back. The rungs of the ladder are not told
apart from "due": a pass that leaves a row pending uses up one of `MaxFaults`,
which stands for the ladder's length.

### TrialLifecycle, TrialAdmission

`client` is the email of the trial's client on the panel, which decides what a
rename or a deletion finds: a trial's email, or a user's (whose client is
endless). Each panel call either takes effect and is answered, or fails with or
without effect; a transaction may have committed when it reports an error.
`TrialAdmission` is `HandleInvite`: the cookie is read first, requests of the
address are counted and recorded under `trialRateMu`, and the cleanup deletes
old records at any time. `admitted` is a history variable.

### TrafficQuota

`used` and `enabled` are the panels' own; `marks` is `traffic_reminders_sent`; a
pass loads the row (`copy`), reads each node (`seen`), decides, claims a mark,
sends, releases it when the send fails, or re-enables clients node by node and
forgets the marks. The pass of the hour is `notify` or `recovery`.

### ExpiryReminders

A pass visits the windows in their order; in each it queries the date, claims
the bit, sends, and releases on failure. `told` records what Telegram accepted,
`confirmed` the part of it whose sending reported success: a send may end in an
error with the message accepted, the bit is released all the same, and the
reminder goes out again. `spoilt` holds the reminders that two failed calls, or
one that left the bit claimed, were in the way of. A change of plan by an
administrator, which moves the date as well, is not modelled here.

### PanelCalls

One call (`add`, `update`, `rename`, `delete`) of `xui.Client` as the requests it
makes: inbounds grouped by the flow they need, one request per group, each
repeated after failures that `IsRetryable` admits, then `verifyClientInbounds`. The panel
processes a request at any moment until the call has given up, in full or in
part, and its answer may be lost; an administrator edits the client meanwhile.

### BroadcastDraft, BroadcastDelivery

The draft is a session per chat that overlapping updates read, edit and write
back, and the last one launches. The delivery is the worker's pass as the code
runs it: a claimed campaign is snapshotted, stale leases are recovered, batches
are claimed with a lease (`lease`, the attempt number that each later write must
still match), up to `Concurrency` senders go part by part (`next` on record, `got`
at the recipient), and the verdict is written from statistics read before.
Cancel and retry are buttons of the administrator's card; a crash ends all
goroutines and leaves the table. `StrayTaps` allows taps on an outdated card.

### SubserverCache, SubscriptionRendering, AccessLog

A request looks into the cache, revalidates the row, takes part in a flight or
leads one, and stores what it fetched; a change of the row is followed by its
invalidation, later. `content` numbers the changes, which is all a cached answer
is compared by; a list of devices drops the first of its oldest entries, as the
code's loop does. A change is a transaction that leaves the devices alone
(`Transact`) or a service that writes back every column of a row it loaded at any
time before (`UpdateSubscription`, from the lists in `past`). `SubscriptionRendering` folds the answers of the nodes into one,
for every combination of formats: `Merge` collects the servers and the ready
JSON configurations and an expiry (`NoExpiry` is a header that is missing or
unreadable, other than 0), `RenderNext` converts one server, and when all are known the tags are given. The tags that the code counts
up are the constant `Positional`, the name reserved for a proxy's address is
`AddressName`. `AccessLog` is the bounded queue with its writer and `Sync`; a write to the open
file may fail (`broken`), and one to the closed file does (`failed`).

### DatabaseBackup, ProcessLifecycle

A file is the version of each piece that is read, so that a copy torn by a
checkpoint between two reads differs from one of a single moment. Actions are
the steps of `BackupDatabase`, `RotateBackups` and the scheduler; a restart may
fall between any two.

`phase` is where `main` is. Workers panic and are restarted after a backoff;
handlers hold slots of the loop and may start goroutines of their own; the
signal cancels, and each wait of the shutdown ends with what it waits for or
with its timeout. The loop's branch for a closed channel of updates is left out:
only `StopReceivingUpdates` closes it, and its only call is after the loop
(`lifecycle.go:189`).

### Where documents and code disagree

Each finding of `PROJECT.json` has a run. Beside them, met while modelling and
left without a run (the models follow the code):

- Late confirmations: doc/api.md:133, doc/handover.md:378, doc/security.md:125 and
  doc/platega-T3.md:57 say that one never moves an expired order to paid, while
  confirmPayment accepts it within five minutes of the deadline
  (`WithinSettlementGrace`); the comment at `orders.go:606` says that paid orders
  are counted before the order charged back is canceled, while the code cancels
  first and asks for more than zero.
- Sync: a timeout of the HTTP client is taken for the end of the caller's
  context, although the comment of syncNodes says that processing continues past
  a failed node. A node that times out whenever it is asked, the usual way to be
  down, cuts every pass that visits it first and climbs no ladder, so that nodes
  behind it may wait for ever: this is the exception `[]<>Hangs` of
  `FailedNodeBlocksNoOther` and `LadderEnds`, both of which fail without it. A
  binding
  parked between two healthy checks is not released (`RecoveryReleases`); the
  continue after lockSubscription in the worker's loop is never taken.
- Orders: a confirmation that arrives while the transaction's id is being saved
  is taken for an unknown one (`PendingIsNotTurnedAway`).
- Subscriptions: whole-row writes of a copy loaded earlier undo a payment that
  committed in between; reanimation deletes rows queued for removal, with the
  clients they stood for left behind; a deletion whose check precedes a payment
  destroys the payment's rows. The comment at `subscription.go:1006-1009` says that
  subscriptions without rows are left untouched; the code queues the nodes of
  their plan (`:1038-1063`). A parked row counts as live, so that an active
  subscription whose only panel refuses stays without access, and is not
  revoked, until the panel's recovery or a command (`Parked` in
  `ActiveIsServed`).
- Trials: renaming a client on a node with two flows fails on the second group,
  since the first has already moved the client (`RenameCompletes`); after a lost
  answer the repetition finds no client under the old email.
- Reminders: a send that failed although Telegram has the message gives its bit
  back, and the user is reminded again. The comment at `subscriptions.go:98-101`
  takes writing reminders_sent back for a no-op because callers load the row
  first; a bit claimed after that is undone.
- Traffic: where the notice cannot be delivered the exhausted mark is released,
  and a reset is never noticed, though the comment on ProcessTrafficReset calls
  recovery independent of Telegram; re-enabling counts as done when one of
  several nodes answered; the reset mark is never released, so that a second
  reset is not announced; use is summed over the nodes while each panel enforces
  the whole limit.
- Broadcasts: a draft that a late write-back put back after its launch can be
  launched by a second final tap, against the comment at `broadcast_flow.go:528`
  (`LaunchedOnce` excepts such drafts). A cancel pressed while finishCampaign writes its verdict is
  overwritten (`CanceledSticks`). With two button presses `CompleteIsFinal` fails:
  after a crash and a failed query the worker has loaded the campaign again to
  schedule its retry; the administrator cancels it and presses retry, whose reset
  of the rows is still to come; the worker writes "running" over the cancel; the
  next pass collects its statistics, then the rows are reset, and the verdict
  "completed" is written over pending recipients. A tap on an outdated card
  (`StrayTaps`) reaches the same end sooner.
- Subscription server: a fetch that began before an invalidation stores the old
  content after it; who is no longer entitled is still turned away, since the row
  is read again on every hit. `UpdateSubscription`, whose comment
  (`subscriptions.go:98-101`) speaks of lifecycle fields, also writes devices and
  ips of a copy loaded before, and takes away a device recorded in between. The
  comment of updateMinExpire promises the earliest expiry seen, but a node that
  reports 0 makes the dates before it forgotten, so that what is shown depends on
  the order of the nodes. The comment at `clashout.go:337` reserves the names of
  the profile, but a node with the remark DIRECT or REJECT takes the name of a
  policy that the rules refer to.
- Backups: an automatic checkpoint between two reads of a copy tears it
  (`OneMoment`); only verification may notice. Temporary files of a process that
  stopped are not removed.
- Process: WaitForBackgroundGoroutines has no timeout; the web server takes
  callbacks until after the workers have stopped.

## 3. Runs

| Run | Expect | Shows |
|---|---|---|
| Services | pass | each smaller part by itself: `NoLeak`, `ImplementsMutex`, `StuckHolderDoesNotBlock` (locks), `BoundKeepsAccess`, `ExpiredTrialGoes`, `HourlyLimit` (trials), `AccessRecovers` (traffic), `RemindedOnceInTime` (reminders), `FullMembership` (panel calls), `ActiveIsServed` (subscriptions), `RestoreLosesNothing` (backup), `WorksUntilStopped` (process) |
| SyncRace | pass | `ActiveHasClient`, `NoOrphanClient`, `RevocationSticks` with two concurrent callers and the worker, refusals and timeouts, a crash, a node taken out of service |
| SyncLive | pass | `TypeOK`, `LadderEnds`, `FailedNodeBlocksNoOther` with a node down for ever that fails or, not every time, times out |
| SyncConverge | pass | `Converges`: panels hold exactly the entitlement once the environment is quiet |
| SyncPaidNodesLost | violation | a plan change committed inside the worker's reconciliation loses its nodes |
| SyncPay | violation | paying for the same plan does not reactivate a revoked subscription's nodes |
| PayRace | pass | two purchases, callbacks, reconciliation, expiry and revocation: `OneLivePayment`, `PaidIsCharged`, `NoDaySoldTwice`, `PaidIsServed`, refinement of `OrderLedger` |
| PayLive | pass | `LostCallbackRepaired`: reconciliation ends every order whose link is over |
| PaySilent | violation | a lost callback and a second purchase: money taken, order expired, nobody alerted |
| Broadcast | pass | `SentInFull`, `NoRepeatOfRecorded`, `CompleteIsFinal`, `CampaignEnds` of a delivery with crashes, lapsed leases, failed sends, cancel and retry; `LaunchedAsConfirmed` of the dialogue |
| Subserver | pass | `ServedWhileEntitled`, `NoNeedlessFanOut`, `DevicesInOrder`, `EveryRequestEnds` of concurrent requests; `RenderedSoundly` of every mixture of answers; `FlushedOnClose` of the log |
| TrialOrphan | violation | binding and cleanup cross, no call fails, and an endless client stays on the panel with no row that names it |

`Services`, `Broadcasts` and `Subserver` put modules that share no variable
side by side: the variable `part` is chosen in the initial state, only that part
moves, and the others stay in one initial state. This checks each part over all
its own behaviours, and claims nothing about the parts together. The theorems
about these runs' properties are theorems about the same compositions.

Bounds. SyncMachine: two nodes, one in both plans (a plan change updates it) and
one in the paid plan only (a plan change adds or removes it), which between them
take every branch of the table; two callers where the question is their
interleaving, one elsewhere; `MaxFlows` flows, `MaxFaults` failures of a working
system (a call failing on a reachable panel, a failed statement, a crash, a
cancelled context), `MaxFlips` changes of reachability; `MaxRetries` 1 or 2
instead of 10, which is enough for a first, a middle and a last rung. In
SyncRace the first caller may start any flow and the second only `deactivate`:
deletion against a payment or a plan change is the window listed as the hazard
at `subscription.go:496`, where `NoOrphanClient` does not hold.
PaymentOrders: two orders and two transactions (one replaces the other, or a
renewal follows a purchase), two buyers in PayRace since their race is the
question (they are interchangeable, hence the symmetry), one hook and the worker
(two confirmations), links of one unit and dates up to two, so that a link
lives, is at its deadline and is past it. PayLive has one order's transaction
and dates up to three, past the grace period.
Broadcast: two recipients and two parts (one sender is between parts while
another is recovered), one fault and one button; two overlapping callbacks over
two drafts. Subserver: two requests, two formats, one change of the row, one
fault; three nodes, for which six positional names are enough whatever the
nodes call their servers; six servers, among them some that a format skips, with equal remarks and with
the name of a Clash policy; expiries 0, 1, 2 or none;
three records for a queue of one.
Services: locks with three goroutines (one holds, one waits, one times out), two
keys and as many objects as goroutines; a trial with two users, two binders and
two faults, so that one binder may fail twice or each once; three visitors for a
limit of one in an hour of four moments; two nodes, one reset and two faults of
traffic; two leads whose windows overlap a renewal; a panel with three inbounds in two
flow groups, two repetitions, two faults and one foreign edit; a subscription
with two creators, two nodes, two flows and two faults (a pass that leaves a row
for another try, and a crash), from an empty row or one left half deleted; four backups of two reads with two copies kept; two
workers that panic three times, three updates for two slots.

Deadlock is checked except where the system really stops: a campaign, a request,
a trial or the process comes to its end (Services, TrialOrphan, Broadcast,
Subserver).

Fairness (`FairSpec`). Strong fairness of a goroutine's next step: a runnable
goroutine runs, and one waiting for the lock's channel or for SQLite's write
lock is served in the end (receivers queue first in first out). Weak fairness
of the worker's pass (a ticker) and of `RetryDue` (time passes). None for
failures, crashes, reachability or new flows. In `PaymentOrders`, runnable
goroutines go on (weak fairness of `Request` and `Handle`), a statement tried
again and again does not fail for ever (strong fairness of the steps of a
confirmation, per goroutine and transaction, and of reconciliation, which the
scheduler repeats every hour), and the provider ends a link at its deadline.
None for callbacks, payments and new purchases. In the other modules: the
trial cleanup, the traffic pass, the orphan reconciler, the sync worker and the
campaign worker run because a ticker starts them; a request's goroutine runs; a
supervisor restarts after its backoff; the shutdown goes on after its timeouts,
and the handler's own goroutines end once their context is cancelled (the code
waits for them without a timeout). Failures are bounded in number there, so that
no fairness is asked of a call's success; only refusals by a panel in
`SubscriptionLifecycle` are not.

## 4. What is proved

`KeyedLockProofs`: for any finite set of goroutines, any keys and objects, the
inductive invariant `IInv` (types; an entry's object is shared by exactly the
goroutines using the key; its count is their number; its token is in the channel
exactly when nobody holds) gives `MutualExclusion`, `NoLeak`, `TokenConserved`, and
the refinement of `KeyedMutex`. The count is needed: exclusion fails as soon as an
entry can be deleted under a waiter.

`SyncMachineProofs`: for any nodes, plans, callers, flows, failures and bounds:

- the transition table: reconciliation leaves rows that agree with the plan
  (`ReconcileAgrees`), a plan change leaves nothing active with old limits
  (`ApplyPlanRequeuesActive`), and reconciling is idempotent;
- `TypeOK` and `ActiveHasClient`. The latter is not inductive. `IInv` adds
  `Exclusive` (passes exclude each other), `VisitedInactive` (a row on the list of
  a running pass does not become active under it: only passes activate rows) and
  `AnsweredVisit` (a pass about to record success of an add or update called a
  panel that now has the client). A row becomes active only by `Finish` after such
  an answer; a client disappears only by a removal call, whose row is on the list
  of the only running pass and hence not active; transactions never activate a row;
- `RevocationSticks`, with `RInv` on top: once every removal of a revoked
  subscription is queued, no pass and no reconciliation brings a node back until
  something activates the subscription. A pass that is running when the removals
  are queued is the difficulty, since it holds rows as they were: `Removing` says
  what it has still to visit and may still write;
- `NoOrphanClient`, with `OInv`: every goroutine is `Tidy` (a pass calls a panel
  only for a row that exists, and a removal about to be recorded has removed the
  client) and `Orderly` (each flow is at a place of its script, and `Closing` says
  what a deletion has achieved by the operations it has left: no active
  subscription, no reconciliation under way, no rows). The
  theorem `OrphansNeedRevival` has a hypothesis about the steps taken,
  `NoRevivalMidway`: no step activates a subscription between its revocation and
  its deletion. Without it the property is false (the hazard at
  `subscription.go:496`), so a revival in that window is the only way a client can
  be orphaned. Where nobody else may pay or change the plan while one caller may
  delete (`DeletionUndisturbed`, which SyncRace's `Flows` satisfy) no such step
  exists: `EveryClientHasARow`;
- `ForgottenAfterClient` (`RowsOutliveClients`), without any hypothesis: a row goes
  only when the panel has no such client any more, or the node is out of service, or
  a deletion that found no row left clears the table. The invariant
  (`RemovalsAnswered`) is that while a pass is about to record an answered removal
  the client is still gone: nobody else may call that panel meanwhile;
- `LockImplemented`: the passes are a behaviour of `KeyedMutex` over one key, with
  the goroutine inside the locked steps as its holder (`Holders`). A crash is what
  makes this more than exclusion: it empties the lock in the same step as it ends
  the pass.

One lemma per group of actions, each split into the conjuncts it can disturb.

`PaymentOrdersProofs`: for any orders, transactions, buyers, hooks, products,
durations and dates, the type invariant, all four safety properties of PayRace
and the implementation of `OrderLedger`. The inductive invariants come in layers,
each proved with one lemma per action, on top of the one before:

1. `Fit`: types; what a goroutine holds fits its step (a claimed order exists, a
   transaction on its way to be saved has been started); rows and transactions
   refer to each other. From it alone follow `LedgerImplemented` and, with
   `Entitled` (the two properties about periods prove each other: a confirmation
   starts at the subscription's end only because that end is not before any paid
   order's), `PaidServed` and `DaysSoldOnce`.
2. `Single`: an order has at most one transaction. Whoever is between the claim
   and the saved details is alone and the order is marked uncertain; everybody
   else holds a confirmed transaction that belongs to its order. This is what the
   flag `payment_creation_uncertain` is for: it survives the goroutine that set it.
3. `Charge`: a paid order names a confirmed transaction; hence `PaidCharged`.
4. `Live`: while a link can be paid its order is pending (or has expired at the
   link's deadline); at most one order per product is pending; a saved deadline
   is not before the provider's. Hence `OneLink`.
5. `Exclusive` (goroutines inside the lock of one transaction are one), hence the
   refinement of `KeyedMutex` (`PaymentLockImplemented`), and with it `Settling`:
   whoever has found an order unsettled and is about to confirm it finds it so, for
   only a holder of the transaction's lock settles an order, and an order has one
   transaction. Hence `ConfirmationWins`: the conditional update of
   `ConfirmOrderPaidCAS` never misses.

`OrdersMoveForward` follows from the ledger's steps: an order's status only moves
along `Forward`, and the end a payment bought is written once, by the step that
pays it.

`TrialLifecycleProofs`: for any followers, binders and bounds, the type invariant
and `BoundKeepsAccess`. The invariant adds `Alone`: only one binder at a time is
between renaming the client and writing the row (or taking the rename back),
because only one can have found the client under the trial's email; while it is
there the client carries its follower's email. A binder restores the trial's
email only after it has seen that the row is not bound, and nobody else can bind
it meanwhile.

`RemovedWithItsClient` is the other side of the run TrialOrphan, which finds a
client that outlives its trial: `NoOrphanedClient` holds as long as
`BindsUndisturbed` does (no fault in a binder's renaming, verification or undoing,
and neither the cleaner's removal nor a crash while a binder holds the client
renamed). TLC finds an orphan when any one of these is left out. The invariant
(`Removal`) says whose email the client carries when nobody is renaming it, and
that the cleaner deletes a row only when the client is gone.

`TrialAdmissionProofs`: for any visitors, limit, hour and second (`Bounds`, an
assumption of the theorem: naturals, a second is positive), `TypeOK` and
`HourlyLimit`. Between
a visitor's count and its record the lock keeps everybody else from recording;
what it counted is every trial any window that reaches the present contains,
because the cleanup spares those; windows that have passed gain nothing.

`ServicesProofs`: the theorems of locks, trials and admission hold of the
composition, through their instances; and for any value of the constants:

- `RemindedOnceInTime`. `RemindersInv` relates the saved bits, the messages sent
  and the worker's clock: a saved bit means that its message is out, is being sent
  or was lost to failures (`BitMeans`); what is being sent is not known to be out
  (`NotYetConfirmed`); and the next attempt at a window that is due (`Attempt`, `Due`)
  is not too late for it, with one interval more after a failure (`Slack`). The assumption
  Interval <= HalfTick is what makes a tick fall into each window: both are thirty
  minutes in the code (`subscription_reminder_worker.go:32`,
  `subscription_reminders.go:41`).
- `FullMembership`. `PanelInv` adds what a call still has to send (`LeftToApply`):
  an inbound that holds the client with the wrong flow is in a flow group still on
  the list, so that only missing ones are left for the verification to find.
- `RestoreLosesNothing`. `BackupInv`: every piece of a file is at least as new as
  the start of its backup (`BackupFaithful`), the file at the base path is the
  newest published one (`BackupOrder`), and what rotation keeps contains the newest
  of all that were ever rotated; `Keep` is positive because `RotateBackups`
  replaces less by its default (`backup.go:322`).
- `CutOffStaysOnRecord` of the traffic pass: the record of an exhausted quota that
  a pass found is cleared only by a pass that has read or made a client enabled.
  `TrafficRecord` relates the loaded marks to those in the database: nothing that
  was loaded is gone before the pass decides, so that a mark the pass claims, and
  may have to give back, is never the record it found. It is the safety half of
  `AccessRecovers`: whoever is cut off is looked at again.
- `ClosedAfterItsUsers` of the process: nothing a handler launched runs when the
  database closes, if no handler was left when the wait for handlers ended
  (`HandlersDrain`). `ShutdownTimeout` ends that wait as well, and a handler left
  may launch a broadcast after the last wait: without the hypothesis it is false.
- the types of all parts (`ServicesAreTyped`), and all safety properties of the
  composition together (`ServicesKeepTheirPromises`).

`BroadcastsProofs`: for any audience, message length, batch, failures, crashes,
updates and drafts:

- `SentInFull` and `NoRepeatOfRecorded`. The invariant follows one recipient
  (`Shape`, `Good`): the parts on record were delivered, so were those behind its
  sender, and the sender is never behind the record, because a claim starts from
  it and only the sender moves it. Steps that leave a recipient alone are dealt
  with once (`Elsewhere`, `Restated`).
- `CompleteIsFinal`, for any number of presses on any cards, as long as no step
  resets failed rows between the reading of the statistics and the write of the
  verdict (`NoResetBeforeVerdict`, `ReportedUnlessReset`); a reset there makes it
  false, see above. `FinalInv`: senders exist only in a pass that waits for them, and
  statistics in hand say how many rows were left when they were read. With one press
  on a current card (`OneButton`) the hypothesis always holds, for the press comes
  before the statistics (`Pressed`): `ReportedInFull`.
- `LaunchedAsConfirmed` of the dialogue: the audience of a counted draft is the one
  counted, a callback on its way carries a number already given, and a draft is
  launched once.
- the types of both parts.

`SubserverProofs`: for any requests, formats, nodes, servers, names and bounds:

- `ServedWhileEntitled`, `NoNeedlessFanOut`, `DevicesInOrder`. A flight has one
  leader until it is published, and a leader fetches only when its second look
  found the cache empty; a request that goes on after reading the row was entitled
  then; the list of devices does not change between a request's reading of it and
  its writing, for both are under the subscription's lock, unless a service
  writes the whole row back between them (`rewritten`).
- `RenderedSoundly`. A name given is the server's own, if it was free, or the first
  positional name that is free. That there is one is a pigeonhole argument
  (`FreeTag`): names given are as many as servers seen, and positional names are
  more. The expiry is the earliest of those that count so far (`Dated`).
- `FlushedOnClose`: the entrance closes before the file does, and the file closes
  only when the queue is empty or the deadline has passed, so that a record
  accepted before a timely end is lost only by the failure of its own write.
- the types of the three parts; for the cache, that dropping the oldest of a full
  list of devices leaves a list of devices.

Assumptions, beside those the theorems that need them state (`Bounds`,
`DeletionUndisturbed` and `OneButton` about constants; `NoRevivalMidway`,
`NoResetBeforeVerdict`, `BindsUndisturbed` and `HandlersDrain` about steps, where TLC
finds the property violated without them and kept with them): those of the modules. `NoObj` is no object;
finitely many goroutines; `FreePlan` is a plan and no product's plan; the worker is
not a caller; NULL is no value; durations are positive; bounds are naturals;
`Flows` and `Failures` take their documented values; flow groups are names other
than "off"; the lists of leads and dates are not empty; a file holds at least one
read; positional names differ from each other and from the names a profile uses
(`NamesAssumption`: the code counts them up) and are at least twice as many as
nodes. TLC evaluates each of them on the instances of the runs.

Every safety property of the passing runs is a theorem. Model-checked only is
liveness, which is out of the proof system's reach: `StuckHolderDoesNotBlock`,
`LadderEnds`, `FailedNodeBlocksNoOther`, `Converges`, `LostCallbackRepaired`,
`ExpiredTrialGoes`, `AccessRecovers`, `ActiveIsServed`, `WorksUntilStopped`,
`CampaignEnds`, `EveryRequestEnds`.

## 5. Not modelled

- Format converters, request and response bodies, flat JSON configurations, pins
  and transports of the subscription server: their difficulty is in data, not in
  states or interleavings. `SubscriptionRendering` keeps which servers survive
  under which names, and the expiry.
- The bot's texts and commands other than the broadcast dialogue and the binding
  of trials: message text around calls of the services that are modelled.
- Bot caches and rate limiters: an LRU of messages, a counter of referrals
  reloaded from the database, token buckets over floating-point time; each under
  one mutex, and a stale value decides nothing that lasts.
- Platega's HTTP client and the fees (`SyncProviderFees`): the provider is modelled
  by what PaymentOrders needs of it. The same holds for proxman, whose calls do
  nothing or fail at once.
- `DowngradeToFreePlan` and `ReconcilePlanNodes` (exported): only tests call them.
- Audit log, migrations, queries that only read, health pages, heartbeat,
  metrics, logging, configuration, test helpers.
- Traffic figures shown to users, and clients missing on a node in the quota's
  pass.
- The order in which a worker pass visits several subscriptions (the hazard at
  `sync.go:1012`), calls that take effect on a panel after their caller has
  returned (`sync.go:774`), the age of the health snapshot (`sync.go:1133`):
  listed as hazards without a property. `PanelCalls` has late effects within one
  call.
- Composition: each module is checked against the environment it meets, not
  against the other modules' detail. The lock appears in `SyncMachine` and
  `PaymentOrders` as its abstract specification (that `KeyedLock` implements it and
  that both modules keep to it is proved), a pass appears in
  `SubscriptionLifecycle` as its outcomes, a payment in `SyncMachine` as its
  transaction.

Left for later: safety theorems beyond types for `SubscriptionLifecycle`, whose
statements race by design and are repaired by the reconcilers, so that what it
promises is `ActiveIsServed`.
