------------------------- MODULE BroadcastDelivery -------------------------
(***************************************************************************)
(* One broadcast campaign of the bot: the row of table broadcasts, whose    *)
(* JSON column keeps every recipient's delivery state, the worker that      *)
(* claims recipients in batches and sends them the message part by part,    *)
(* and the administrator who cancels the campaign or retries what failed.   *)
(* (internal/bot/broadcast_worker.go, internal/database/                    *)
(* broadcast_recipients.go, broadcasts.go)                                  *)
(*                                                                          *)
(* The row survives a crash of the process; the worker's position, its      *)
(* copies of what it read and its sending goroutines do not.                *)
(***************************************************************************)
EXTENDS Naturals, FiniteSets

CONSTANTS Users,       \* the audience at the time of the snapshot
          Chunks,      \* parts the message text is split into
          Batch,       \* broadcastBatchSize
          Concurrency, \* broadcastConcurrency
          Retries,     \* broadcastRetries
          MaxFaults,   \* database errors, crashes and timeouts of a behaviour
          MaxTaps,     \* buttons the administrator presses
          StrayTaps    \* whether buttons of outdated cards are pressed too

ASSUME DeliveryAssumption ==
  /\ IsFiniteSet(Users)
  /\ Chunks \in Nat /\ Batch \in Nat /\ Concurrency \in Nat
  /\ Retries \in Nat /\ MaxFaults \in Nat /\ MaxTaps \in Nat
  /\ StrayTaps \in BOOLEAN

VARIABLES
  status,    \* broadcasts.status
  delayed,   \* retry_at lies in the future
  filterOK,  \* the row's filter can be parsed
  report,    \* the delivery report and counters last written to the row
  st,        \* recipient: status, "absent" before the snapshot
  lease,     \* recipient: attempts, the number of its claims
  next,      \* recipient: parts on record as delivered (next_chunk)
  lapsed,    \* recipient: updated_at is older than the lease
  got,       \* the parts Telegram delivered to a user
  waiting,   \* goroutines at the mutex of processCampaign
  who,       \* the goroutine inside it
  pc,        \* where that one is
  seen,      \* its copy of the row
  tally,     \* its copy of the recipients' states
  ended,     \* its context is cancelled or timed out
  detached,  \* it finishes on a context that cannot be
  errs,      \* a sender of the batch returned an error
  step,      \* sender goroutine of a recipient: its place, or the outcome to record
  held,      \* sender: attempts of the claimed copy
  chunk,     \* sender: parts it has behind it
  try,       \* sender: repeated attempts at the current part
  tapped,    \* the administrator's button between its two steps
  faults, taps

card == <<status, delayed, filterOK, report>>
rcpt == <<st, lease, next, lapsed>>
ctx == <<ended, detached, errs>>
run == <<waiting, who, pc, seen, tally, ctx>>
senders == <<step, held, chunk, try>>
admin == <<tapped, taps>>
vars == <<card, rcpt, got, run, senders, admin, faults>>

Ended == {"completed", "failed", "canceled"}
Statuses == {"scheduled", "running"} \cup Ended
Outcomes == {"sent", "blocked", "unreachable", "failed"}
RcptStatuses == {"absent", "pending", "sending"} \cup Outcomes
Goroutines == {"tick", "launch"}
Pcs == {"idle", "load", "claim", "parse", "markFailed", "snapshot", "recover",
        "batch", "send", "final", "stats", "write", "retryLoad", "retryWrite"}
Steps == {"none", "queued", "send", "save"} \cup Outcomes
Copies == [status : Statuses, delayed : BOOLEAN]

(* The row, its recipients, and the goroutines' positions have their types. *)
TypeOK ==
  /\ status \in Statuses /\ delayed \in BOOLEAN /\ filterOK \in BOOLEAN
  /\ report \in [Users -> RcptStatuses]
  /\ st \in [Users -> RcptStatuses]
  /\ lease \in [Users -> Nat]
  /\ next \in [Users -> 0 .. Chunks]
  /\ lapsed \in [Users -> BOOLEAN]
  /\ got \in [Users -> SUBSET (1 .. Chunks)]
  /\ waiting \subseteq Goroutines /\ who \in Goroutines \cup {"none"}
  /\ pc \in Pcs /\ seen \in Copies /\ tally \in [Users -> RcptStatuses]
  /\ ended \in BOOLEAN /\ detached \in BOOLEAN /\ errs \in BOOLEAN
  /\ step \in [Users -> Steps]
  /\ held \in [Users -> Nat]
  /\ chunk \in [Users -> 0 .. Chunks]
  /\ try \in [Users -> 0 .. Retries]
  /\ tapped \in {"none", "cancel", "retry"} /\ taps \in 0 .. MaxTaps
  /\ faults \in 0 .. MaxFaults

Blank == [u \in Users |-> "absent"]
NoCopy == [status |-> "scheduled", delayed |-> FALSE]
Card == [status |-> status, delayed |-> delayed]

Init ==
  /\ status = "scheduled" /\ delayed = FALSE /\ filterOK \in BOOLEAN
  /\ report = Blank /\ st = Blank
  /\ lease = [u \in Users |-> 0]
  /\ next = [u \in Users |-> 0]
  /\ lapsed = [u \in Users |-> FALSE]
  /\ got = [u \in Users |-> {}]
  /\ waiting \in {{}, {"launch"}} /\ who = "none"
  /\ pc = "idle" /\ seen = NoCopy /\ tally = Blank
  /\ ended = FALSE /\ detached = FALSE /\ errs = FALSE
  /\ step = [u \in Users |-> "none"]
  /\ held = [u \in Users |-> 0]
  /\ chunk = [u \in Users |-> 0]
  /\ try = [u \in Users |-> 0]
  /\ tapped = "none" /\ taps = 0 /\ faults = 0

-----------------------------------------------------------------------------
(* The worker's pass over the campaign, processCampaign                      *)

(* The deferred unlock, cancel and removal from the map of active passes.    *)
Leave ==
  /\ pc' = "idle" /\ who' = "none" /\ seen' = NoCopy /\ tally' = Blank
  /\ ended' = FALSE /\ detached' = FALSE /\ errs' = FALSE
  /\ UNCHANGED waiting

Goto(place) ==
  /\ pc' = place
  /\ UNCHANGED <<waiting, who, seen, tally, ctx>>

Fault ==
  /\ faults < MaxFaults
  /\ faults' = faults + 1

Alive == ~ended \/ detached

(* The worker's ticker finds the campaign runnable.                          *)
Tick ==
  /\ "tick" \notin waiting \cup {who}
  /\ status \in {"scheduled", "running"} /\ ~delayed
  /\ waiting' = waiting \cup {"tick"}
  /\ UNCHANGED <<card, rcpt, got, who, pc, seen, tally, ctx, senders, admin, faults>>

Enter(g) ==
  /\ g \in waiting /\ who = "none"
  /\ waiting' = waiting \ {g} /\ who' = g /\ pc' = "load"
  /\ UNCHANGED <<card, rcpt, got, seen, tally, ctx, senders, admin, faults>>

Load ==
  /\ pc = "load" /\ Alive
  /\ \/ status \in Ended /\ Leave
     \/ status = "scheduled" /\ Goto("claim")
     \/ status = "running" /\ Goto("parse")
  /\ UNCHANGED <<card, rcpt, got, senders, admin, faults>>

ClaimCampaign ==
  /\ pc = "claim" /\ Alive
  /\ \/ /\ status = "scheduled"
        /\ status' = "running"
        /\ Goto("parse")
     \/ /\ status # "scheduled"
        /\ Leave
        /\ UNCHANGED status
  /\ UNCHANGED <<delayed, filterOK, report, rcpt, got, senders, admin, faults>>

ParseFilter ==
  /\ pc = "parse"
  /\ Goto(IF filterOK THEN "snapshot" ELSE "markFailed")
  /\ UNCHANGED <<card, rcpt, got, senders, admin, faults>>

MarkFailed ==
  /\ pc = "markFailed" /\ Alive
  /\ status' = "failed" /\ delayed' = FALSE /\ report' = Blank
  /\ Goto("retryLoad")
  /\ UNCHANGED <<filterOK, rcpt, got, senders, admin, faults>>

(* The audience is fixed once: a later snapshot finds it and keeps it.       *)
Snapshot ==
  /\ pc = "snapshot" /\ Alive
  /\ st' = [u \in Users |-> IF st[u] = "absent" THEN "pending" ELSE st[u]]
  /\ Goto("recover")
  /\ UNCHANGED <<card, lease, next, lapsed, got, senders, admin, faults>>

(* Mutant: what a crashed worker claimed stays claimed. *)
RecoverNothing ==
  /\ pc = "recover" /\ Alive
  /\ Goto("batch")
  /\ UNCHANGED <<card, rcpt, got, senders, admin, faults>>

Recover ==
  /\ pc = "recover" /\ Alive
  /\ st' = [u \in Users |-> IF st[u] = "sending" /\ lapsed[u] THEN "pending" ELSE st[u]]
  /\ lapsed' = [u \in Users |-> lapsed[u] /\ st[u] # "sending"]
  /\ Goto("batch")
  /\ UNCHANGED <<card, lease, next, got, senders, admin, faults>>

Pending == {u \in Users : st[u] = "pending"}
Batches ==
  {B \in SUBSET Pending :
     /\ Cardinality(B) <= Batch
     /\ Cardinality(B) = Batch \/ B = Pending}

(* Mutant: every claim begins with the first part. *)
ResumeFromStart(u) == 0

(* claimed recipients keep next_chunk *)
Resume(u) == next[u]

(* A claim takes the lease of every recipient of the batch and starts from   *)
(* the parts already on record.                                              *)
ClaimBatch ==
  /\ pc = "batch" /\ ~ended
  /\ status = "running"
  /\ \E B \in Batches \ {{}} :
       /\ st' = [u \in Users |-> IF u \in B THEN "sending" ELSE st[u]]
       /\ lease' = [u \in Users |-> IF u \in B THEN lease[u] + 1 ELSE lease[u]]
       /\ lapsed' = [u \in Users |-> lapsed[u] /\ u \notin B]
       /\ step' = [u \in Users |-> IF u \in B THEN "queued" ELSE step[u]]
       /\ held' = [u \in Users |-> IF u \in B THEN lease[u] + 1 ELSE held[u]]
       /\ chunk' = [u \in Users |-> IF u \in B THEN Resume(u) ELSE chunk[u]]
       /\ try' = [u \in Users |-> IF u \in B THEN 0 ELSE try[u]]
  /\ pc' = "send" /\ errs' = FALSE
  /\ UNCHANGED <<card, next, got, waiting, who, seen, tally, ended, detached, admin, faults>>

NothingToClaim ==
  /\ pc = "batch"
  /\ ended \/ status # "running" \/ Pending = {}
  /\ Goto("final")
  /\ UNCHANGED <<card, rcpt, got, senders, admin, faults>>

BatchDone ==
  /\ pc = "send"
  /\ \A u \in Users : step[u] = "none"
  /\ Goto(IF errs /\ ~ended THEN "retryLoad" ELSE "batch")
  /\ UNCHANGED <<card, rcpt, got, senders, admin, faults>>

(* A cut-off pass leaves a running campaign to the next one; only a canceled *)
(* one is finished then, on a context that is not cancelled.                 *)
Finalize ==
  /\ pc = "final"
  /\ \/ /\ ended /\ status # "canceled"
        /\ Leave
     \/ /\ ended => status = "canceled"
        /\ pc' = "stats" /\ seen' = Card /\ detached' = ended
        /\ UNCHANGED <<waiting, who, tally, ended, errs>>
  /\ UNCHANGED <<card, rcpt, got, senders, admin, faults>>

Stats ==
  /\ pc = "stats" /\ Alive
  /\ pc' = "write" /\ tally' = st
  /\ UNCHANGED <<card, rcpt, got, waiting, who, seen, ctx, senders, admin, faults>>

(* Mutant: a recipient still leased counts as finished. *)
VerdictIgnoringLeases ==
  IF seen.status = "canceled" THEN "canceled"
  ELSE IF \E u \in Users : tally[u] = "pending" THEN "running" ELSE "completed"

(* The status written follows from the copies alone.                         *)
Verdict ==
  IF seen.status = "canceled" THEN "canceled"
  ELSE IF \E u \in Users : tally[u] \notin Outcomes THEN "running" ELSE "completed"

WriteVerdict ==
  /\ pc = "write" /\ Alive
  /\ status' = Verdict
  /\ delayed' = (seen.delayed /\ Verdict = "running")
  /\ report' = tally
  /\ Leave
  /\ UNCHANGED <<filterOK, rcpt, got, senders, admin, faults>>

(* scheduleRetry: the second half of a failed pass.                          *)
RetryLoad ==
  /\ pc = "retryLoad"
  /\ \/ status \in Ended /\ Leave
     \/ /\ status \notin Ended
        /\ pc' = "retryWrite" /\ seen' = Card
        /\ UNCHANGED <<waiting, who, tally, ctx>>
  /\ UNCHANGED <<card, rcpt, got, senders, admin, faults>>

RetryWrite ==
  /\ pc = "retryWrite"
  /\ status' = IF seen.status = "scheduled" THEN "running" ELSE seen.status
  /\ delayed' = TRUE
  /\ Leave
  /\ UNCHANGED <<filterOK, report, rcpt, got, senders, admin, faults>>

(* A query on an ended context fails with the context's error, after which   *)
(* no retry is scheduled.                                                    *)
CutOff ==
  /\ pc \in {"load", "claim", "markFailed", "snapshot", "recover", "stats", "write"}
  /\ ~Alive
  /\ IF pc = "markFailed" THEN Goto("retryLoad") ELSE Leave
  /\ UNCHANGED <<card, rcpt, got, senders, admin, faults>>

(* A query fails for another reason.                                         *)
QueryFails ==
  /\ Fault
  /\ \/ /\ pc \in {"load", "claim", "markFailed", "snapshot", "recover", "batch",
                   "final", "stats", "write"}
        /\ Goto("retryLoad")
     \/ /\ pc \in {"retryLoad", "retryWrite"}
        /\ Leave
  /\ UNCHANGED <<card, rcpt, got, senders, admin>>

Timeout ==
  /\ who # "none" /\ ~ended
  /\ Fault
  /\ ended' = TRUE
  /\ UNCHANGED <<card, rcpt, got, waiting, who, pc, seen, tally, detached, errs, senders, admin>>

-----------------------------------------------------------------------------
(* The sender goroutines of a batch, processRecipient                        *)

SetStep(u, s) == step' = [step EXCEPT ![u] = s] /\ UNCHANGED held
Gone(u) ==
  /\ step' = [step EXCEPT ![u] = "none"] /\ held' = [held EXCEPT ![u] = 0]
  /\ chunk' = [chunk EXCEPT ![u] = 0] /\ try' = [try EXCEPT ![u] = 0]
LeaseHolds(u) == st[u] = "sending" /\ lease[u] = held[u]
Active == {u \in Users : step[u] \notin {"none", "queued"}}

(* Mutant: the last part is taken for sent. *)
OnwardEarly(n) == IF n + 1 >= Chunks THEN "sent" ELSE "send"

(* After a part comes the next, or the outcome. *)
Onward(n) == IF n = Chunks THEN "sent" ELSE "send"

Launch(u) ==
  /\ step[u] = "queued" /\ Cardinality(Active) < Concurrency
  /\ SetStep(u, Onward(chunk[u]))
  /\ UNCHANGED <<card, rcpt, got, run, chunk, try, admin, faults>>

(* The launch loop ends with the context: the rest of the batch keeps its    *)
(* leases and is left to a later pass.                                       *)
Abandon(u) ==
  /\ step[u] = "queued" /\ ended
  /\ Gone(u)
  /\ UNCHANGED <<card, rcpt, got, run, admin, faults>>

Deliver(u) ==
  /\ step[u] = "send"
  /\ got' = [got EXCEPT ![u] = @ \cup {chunk[u] + 1}]
  /\ SetStep(u, "save")
  /\ UNCHANGED <<card, rcpt, run, chunk, try, admin, faults>>

Refuse(u) ==
  /\ step[u] = "send"
  /\ \E outcome \in {"blocked", "unreachable"} : SetStep(u, outcome)
  /\ UNCHANGED <<card, rcpt, got, run, chunk, try, admin, faults>>

(* Mutant: one attempt too many. *)
SendFailsOnce(u) ==
  /\ step[u] = "send"
  /\ \/ /\ try[u] <= Retries /\ ~ended
        /\ try' = [try EXCEPT ![u] = @ + 1]
        /\ UNCHANGED <<step, held>>
     \/ /\ try[u] = Retries
        /\ SetStep(u, "failed")
        /\ UNCHANGED try
  /\ UNCHANGED <<card, rcpt, got, run, chunk, admin, faults>>

(* Any other error, the flood waits of one attempt included.                 *)
SendFails(u) ==
  /\ step[u] = "send"
  /\ \/ /\ try[u] < Retries /\ ~ended
        /\ try' = [try EXCEPT ![u] = @ + 1]
        /\ UNCHANGED <<step, held>>
     \/ /\ try[u] = Retries
        /\ SetStep(u, "failed")
        /\ UNCHANGED try
  /\ UNCHANGED <<card, rcpt, got, run, chunk, admin, faults>>

(* The pause before another attempt ends with the context.                   *)
Interrupted(u) ==
  /\ step[u] = "send" /\ ended
  /\ Gone(u) /\ errs' = TRUE
  /\ UNCHANGED <<card, rcpt, got, waiting, who, pc, seen, tally, ended, detached,
                 admin, faults>>

(* The part is put on record before the next one is sent, unless the lease   *)
(* is gone; an error of the database does not hold the next part back.       *)
SavePart(u) ==
  /\ step[u] = "save"
  /\ \/ /\ LeaseHolds(u)
        /\ next' = [next EXCEPT ![u] = chunk[u] + 1]
        /\ lapsed' = [lapsed EXCEPT ![u] = FALSE]
        /\ SetStep(u, Onward(chunk[u] + 1))
        /\ chunk' = [chunk EXCEPT ![u] = @ + 1]
        /\ try' = [try EXCEPT ![u] = 0]
        /\ UNCHANGED faults
     \/ /\ Fault
        /\ SetStep(u, Onward(chunk[u] + 1))
        /\ chunk' = [chunk EXCEPT ![u] = @ + 1]
        /\ try' = [try EXCEPT ![u] = 0]
        /\ UNCHANGED <<next, lapsed>>
     \/ /\ ~LeaseHolds(u)
        /\ Gone(u)
        /\ UNCHANGED <<next, lapsed, faults>>
  /\ UNCHANGED <<card, st, lease, got, run, admin>>

Record(u) ==
  /\ step[u] \in Outcomes
  /\ \/ /\ LeaseHolds(u)
        /\ st' = [st EXCEPT ![u] = step[u]]
        /\ UNCHANGED <<errs, faults>>
     \/ /\ ~LeaseHolds(u)
        /\ UNCHANGED <<st, errs, faults>>
     \/ /\ Fault
        /\ errs' = TRUE
        /\ UNCHANGED st
  /\ Gone(u)
  /\ UNCHANGED <<card, lease, next, lapsed, got, waiting, who, pc, seen, tally, ended,
                 detached, admin>>

-----------------------------------------------------------------------------
(* The administrator's buttons, time, and crashes                            *)

EndRun == ended' = (ended \/ who # "none")

(* Cancel commits to the row and only then cancels a pass that is active.    *)
TapCancel ==
  /\ tapped = "none" /\ taps < MaxTaps
  /\ StrayTaps \/ status \notin Ended
  /\ status' = IF status \in Ended THEN status ELSE "canceled"
  /\ tapped' = "cancel" /\ taps' = taps + 1
  /\ UNCHANGED <<delayed, filterOK, report, rcpt, got, run, senders, faults>>

CancelRun ==
  /\ tapped = "cancel"
  /\ EndRun /\ tapped' = "none"
  /\ UNCHANGED <<card, rcpt, got, waiting, who, pc, seen, tally, detached, errs, senders,
                 taps, faults>>

(* RetryFailed does it the other way round.                                  *)
TapRetry ==
  /\ tapped = "none" /\ taps < MaxTaps
  /\ StrayTaps \/ (status \in Ended /\ \E u \in Users : report[u] = "failed")
  /\ EndRun
  /\ tapped' = "retry" /\ taps' = taps + 1
  /\ UNCHANGED <<card, rcpt, got, waiting, who, pc, seen, tally, detached, errs, senders,
                 faults>>

ResetFailed ==
  /\ tapped = "retry"
  /\ st' = [u \in Users |-> IF st[u] \in {"failed", "sending"} THEN "pending" ELSE st[u]]
  /\ lapsed' = [u \in Users |-> lapsed[u] /\ st[u] \notin {"failed", "sending"}]
  /\ status' = IF status \in Ended THEN "running" ELSE status
  /\ delayed' = FALSE
  /\ tapped' = "none"
  /\ UNCHANGED <<filterOK, report, lease, next, got, run, senders, taps, faults>>

(* Time passes. It is only looked at when no goroutine sends to u any more.  *)
LeaseLapses(u) ==
  /\ st[u] = "sending" /\ ~lapsed[u] /\ step[u] = "none"
  /\ lapsed' = [lapsed EXCEPT ![u] = TRUE]
  /\ UNCHANGED <<card, st, lease, next, got, run, senders, admin, faults>>

DelayOver ==
  /\ delayed
  /\ delayed' = FALSE
  /\ UNCHANGED <<status, filterOK, report, rcpt, got, run, senders, admin, faults>>

Crash ==
  /\ Fault
  /\ waiting' = {} /\ who' = "none" /\ pc' = "idle" /\ seen' = NoCopy /\ tally' = Blank
  /\ ended' = FALSE /\ detached' = FALSE /\ errs' = FALSE
  /\ step' = [u \in Users |-> "none"] /\ held' = [u \in Users |-> 0]
  /\ chunk' = [u \in Users |-> 0] /\ try' = [u \in Users |-> 0]
  /\ tapped' = "none"
  /\ UNCHANGED <<card, rcpt, got, taps>>

-----------------------------------------------------------------------------
Pass ==
  \/ Load \/ ClaimCampaign \/ ParseFilter \/ MarkFailed \/ Snapshot \/ Recover
  \/ ClaimBatch \/ NothingToClaim \/ BatchDone \/ Finalize \/ Stats \/ WriteVerdict
  \/ RetryLoad \/ RetryWrite \/ CutOff

Sender(u) ==
  \/ Launch(u) \/ Abandon(u) \/ Deliver(u) \/ Refuse(u) \/ SendFails(u) \/ Interrupted(u)
  \/ SavePart(u) \/ Record(u)

Next ==
  \/ Tick \/ \E g \in Goroutines : Enter(g)
  \/ Pass \/ QueryFails \/ Timeout
  \/ \E u \in Users : Sender(u) \/ LeaseLapses(u)
  \/ TapCancel \/ CancelRun \/ TapRetry \/ ResetFailed
  \/ DelayOver \/ Crash

Spec == Init /\ [][Next]_vars

(* The ticker goes on as long as the process runs; goroutines, timers and    *)
(* callbacks that have begun go on too.                                      *)
Fairness ==
  /\ WF_vars(Tick) /\ \A g \in Goroutines : WF_vars(Enter(g))
  /\ WF_vars(Pass)
  /\ \A u \in Users : WF_vars(Sender(u)) /\ WF_vars(LeaseLapses(u))
  /\ WF_vars(CancelRun) /\ WF_vars(ResetFailed) /\ WF_vars(DelayOver)

FairSpec == Spec /\ Fairness

-----------------------------------------------------------------------------
(* Properties                                                                *)

(* A recipient counts as reached only if every part of the message was       *)
(* delivered to it, however many workers, crashes and lost records were on   *)
(* the way (processRecipient's checkpoints, FinishBroadcastRecipient).       *)
SentInFull == \A u \in Users : st[u] = "sent" => got[u] = 1 .. Chunks

(* No goroutine ever sends a part again whose delivery is on record: not     *)
(* after a crash, a recovered lease or a manual retry.                       *)
NoRepeatOfRecorded ==
  \A u \in Users : step[u] \in {"queued", "send"} => next[u] <= chunk[u]

(* A campaign is reported complete only when the outcome of every recipient  *)
(* is on record, and its report says what the record says (finishCampaign's  *)
(* copies are not stale).                                                    *)
CompleteIsFinal ==
  status = "completed" => \A u \in Users : st[u] \in Outcomes /\ report[u] = st[u]

(* A canceled campaign stays canceled until the administrator retries it:    *)
(* what the comments on Cancel and CancelBroadcast say.                      *)
CanceledSticks ==
  [][status = "canceled" /\ status' # status => tapped = "retry"]_vars

(* Every campaign comes to an end, in spite of crashes, timeouts, database   *)
(* errors and abandoned leases.                                              *)
CampaignEnds == <>[](status \in Ended)
=============================================================================
