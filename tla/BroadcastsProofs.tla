-------------------------- MODULE BroadcastsProofs --------------------------
(***************************************************************************)
(* Facts about broadcasts for any audience, message, batch, goroutines and   *)
(* number of failures, taps and crashes. What a campaign's records say of a  *)
(* recipient is what Telegram delivered: the invariant follows one recipient *)
(* (the parts on record were delivered, those behind its sender too, and the *)
(* sender is never behind the record, because a claim starts from it and     *)
(* only the sender moves it). A campaign reported complete is complete, and  *)
(* what the dialogue launches is what was confirmed.                         *)
(***************************************************************************)
EXTENDS Broadcasts, TLAPS

Shape ==
  /\ st = [u \in Users |-> st[u]] /\ next = [u \in Users |-> next[u]]
  /\ got = [u \in Users |-> got[u]] /\ step = [u \in Users |-> step[u]]
  /\ chunk = [u \in Users |-> chunk[u]]

Bounded(u) == next[u] \in 0 .. Chunks /\ chunk[u] \in 0 .. Chunks /\ got[u] \subseteq 1 .. Chunks
Recorded(u) == 1 .. next[u] \subseteq got[u]

(* A sender has parts behind it that were delivered, on record or not.       *)
Behind(u) == step[u] # "none" => 1 .. chunk[u] \subseteq got[u] /\ next[u] <= chunk[u]
Sending(u) == step[u] \in {"send", "save"} => chunk[u] < Chunks
Saving(u) == step[u] = "save" => chunk[u] + 1 \in got[u]
Full(u) == step[u] = "sent" \/ st[u] = "sent" => got[u] = 1 .. Chunks

Good(u) == Bounded(u) /\ Recorded(u) /\ Behind(u) /\ Sending(u) /\ Saving(u) /\ Full(u)

IInv == Shape /\ \A u \in Users : Good(u)

LEMMA InitHolds == Init => IInv
<1> SUFFICES ASSUME Init PROVE IInv
  OBVIOUS
<1>1. Shape
  BY DEF Init, Shape, Blank
<1>2. ASSUME NEW u \in Users PROVE Good(u)
  <2>1. st[u] = "absent" /\ next[u] = 0 /\ got[u] = {} /\ step[u] = "none" /\ chunk[u] = 0
    BY DEF Init, Blank
  <2> QED
    BY <2>1, DeliveryAssumption DEF Good, Bounded, Recorded, Behind, Sending, Saving, Full
<1> QED
  BY <1>1, <1>2 DEF IInv

(* A step that moves neither records, nor deliveries, nor senders.           *)
Elsewhere == UNCHANGED <<st, next, got, step, chunk>>

LEMMA ElsewhereKeeps == IInv /\ Elsewhere => IInv'
BY DEF IInv, Elsewhere, Shape, Good, Bounded, Recorded, Behind, Sending, Saving, Full

(* A change of the recipients' states alone, none of them to "sent".         *)
Restated ==
  /\ UNCHANGED <<next, got, step, chunk>>
  /\ st' = [u \in Users |-> st'[u]]
  /\ \A u \in Users : st'[u] = "sent" => st[u] = "sent"

LEMMA RestatedKeeps == IInv /\ Restated => IInv'
BY DEF IInv, Restated, Shape, Good, Bounded, Recorded, Behind, Sending, Saving, Full

LEMMA WorkerElsewhere ==
  \/ Tick \/ (\E g \in Goroutines : Enter(g)) \/ Load \/ ClaimCampaign \/ ParseFilter \/ MarkFailed
  \/ NothingToClaim \/ BatchDone \/ Finalize \/ Stats \/ WriteVerdict \/ RetryLoad \/ RetryWrite
  \/ CutOff \/ QueryFails \/ Timeout
  => Elsewhere
BY DEF Elsewhere, Tick, Enter, Load, ClaimCampaign, ParseFilter, MarkFailed, NothingToClaim,
       BatchDone, Finalize, Stats, WriteVerdict, RetryLoad, RetryWrite, CutOff, QueryFails,
       Timeout, rcpt, senders

LEMMA ButtonsElsewhere ==
  TapCancel \/ CancelRun \/ TapRetry \/ DelayOver \/ (\E u \in Users : LeaseLapses(u)) => Elsewhere
BY DEF Elsewhere, TapCancel, CancelRun, TapRetry, DelayOver, LeaseLapses, rcpt, senders

LEMMA TableRestated == Snapshot \/ Recover \/ ResetFailed => Restated
BY DEF Restated, Snapshot, Recover, ResetFailed, senders

(* A claim starts from the parts on record.                                  *)
LEMMA ClaimKeeps == IInv /\ ClaimBatch => IInv'
<1> SUFFICES ASSUME IInv, ClaimBatch PROVE IInv'
  OBVIOUS
<1>1. PICK B \in Batches \ {{}} :
        /\ st' = [u \in Users |-> IF u \in B THEN "sending" ELSE st[u]]
        /\ step' = [u \in Users |-> IF u \in B THEN "queued" ELSE step[u]]
        /\ chunk' = [u \in Users |-> IF u \in B THEN Resume(u) ELSE chunk[u]]
  BY DEF ClaimBatch
<1>2. UNCHANGED <<next, got>>
  BY DEF ClaimBatch
<1>3. Shape'
  BY <1>1, <1>2 DEF IInv, Shape
<1>4. ASSUME NEW u \in Users PROVE Good(u)'
  <2>1. CASE u \in B
    <3>1. st'[u] = "sending" /\ step'[u] = "queued" /\ chunk'[u] = next[u]
      BY <2>1, <1>1 DEF Resume
    <3> QED
      BY <3>1, <1>2, DeliveryAssumption
      DEF IInv, Good, Bounded, Recorded, Behind, Sending, Saving, Full
  <2>2. CASE u \notin B
    <3>1. st'[u] = st[u] /\ step'[u] = step[u] /\ chunk'[u] = chunk[u]
      BY <2>2, <1>1
    <3> QED
      BY <3>1, <1>2 DEF IInv, Good, Bounded, Recorded, Behind, Sending, Saving, Full
  <2> QED
    BY <2>1, <2>2
<1> QED
  BY <1>3, <1>4 DEF IInv

LEMMA CrashKeeps == IInv /\ Crash => IInv'
<1> SUFFICES ASSUME IInv, Crash PROVE IInv'
  OBVIOUS
<1>1. UNCHANGED <<st, next, got>>
  BY DEF Crash, rcpt
<1>2. step' = [u \in Users |-> "none"] /\ chunk' = [u \in Users |-> 0]
  BY DEF Crash
<1>3. Shape'
  BY <1>1, <1>2 DEF IInv, Shape
<1>4. ASSUME NEW u \in Users PROVE Good(u)'
  <2>1. step'[u] = "none" /\ chunk'[u] = 0
    BY <1>2
  <2> QED
    BY <2>1, <1>1, DeliveryAssumption
    DEF IInv, Good, Bounded, Recorded, Behind, Sending, Saving, Full
<1> QED
  BY <1>3, <1>4 DEF IInv

-----------------------------------------------------------------------------
(* A sender's step leaves the other recipients alone.                        *)

Only(u) ==
  /\ Shape'
  /\ \A v \in Users \ {u} : /\ st'[v] = st[v] /\ next'[v] = next[v] /\ got'[v] = got[v]
                            /\ step'[v] = step[v] /\ chunk'[v] = chunk[v]

LEMMA OnlyOne == \A u \in Users : Shape /\ Sender(u) => Only(u)
<1> SUFFICES ASSUME NEW u \in Users, Shape, Sender(u) PROVE Only(u)
  OBVIOUS
<1>1. CASE Launch(u)
  BY <1>1 DEF Only, Shape, Launch, SetStep, rcpt
<1>2. CASE Abandon(u)
  BY <1>2 DEF Only, Shape, Abandon, Gone, rcpt
<1>3. CASE Deliver(u)
  BY <1>3 DEF Only, Shape, Deliver, SetStep, rcpt
<1>4. CASE Refuse(u)
  BY <1>4 DEF Only, Shape, Refuse, SetStep, rcpt
<1>5. CASE SendFails(u)
  BY <1>5 DEF Only, Shape, SendFails, SetStep, rcpt
<1>6. CASE Interrupted(u)
  BY <1>6 DEF Only, Shape, Interrupted, Gone, rcpt
<1>7. CASE SavePart(u)
  BY <1>7 DEF Only, Shape, SavePart, SetStep, Gone
<1>8. CASE Record(u)
  BY <1>8 DEF Only, Shape, Record, Gone
<1> QED
  BY <1>1, <1>2, <1>3, <1>4, <1>5, <1>6, <1>7, <1>8 DEF Sender

LEMMA OnlyKeeps ==
  ASSUME NEW u \in Users, IInv, Only(u), Good(u)' PROVE IInv'
<1>1. ASSUME NEW v \in Users, v # u PROVE Good(v)'
  BY <1>1 DEF IInv, Only, Good, Bounded, Recorded, Behind, Sending, Saving, Full
<1> QED
  BY <1>1 DEF IInv, Only

(* A sender that ends leaves the record where it is.                         *)
LEMMA GoneKeeps ==
  ASSUME NEW u \in Users, IInv, Gone(u), next'[u] = next[u], got'[u] = got[u],
         st'[u] = "sent" => st[u] = "sent" \/ step[u] = "sent"
  PROVE  Good(u)'
<1>1. step'[u] = "none" /\ chunk'[u] = 0
  BY DEF IInv, Shape, Gone
<1> QED
  BY <1>1, DeliveryAssumption DEF IInv, Good, Bounded, Recorded, Behind, Sending, Saving, Full

LEMMA LaunchKeeps == \A u \in Users : IInv /\ Launch(u) => Good(u)'
<1> SUFFICES ASSUME NEW u \in Users, IInv, Launch(u) PROVE Good(u)'
  OBVIOUS
<1>1. step'[u] = Onward(chunk[u]) /\ step[u] = "queued" /\ UNCHANGED <<st, next, got, chunk>>
  BY DEF Launch, SetStep, IInv, Shape, rcpt
<1>2. chunk[u] \in 0 .. Chunks /\ got[u] \subseteq 1 .. Chunks /\ 1 .. chunk[u] \subseteq got[u]
  BY <1>1 DEF IInv, Good, Bounded, Behind
<1>3. CASE chunk[u] = Chunks
  <2>1. step'[u] = "sent" /\ got[u] = 1 .. Chunks
    BY <1>1, <1>2, <1>3 DEF Onward
  <2> QED
    BY <1>1, <2>1 DEF IInv, Good, Bounded, Recorded, Behind, Sending, Saving, Full
<1>4. CASE chunk[u] # Chunks
  <2>1. step'[u] = "send" /\ chunk[u] < Chunks
    BY <1>1, <1>2, <1>4, DeliveryAssumption DEF Onward
  <2> QED
    BY <1>1, <2>1 DEF IInv, Good, Bounded, Recorded, Behind, Sending, Saving, Full
<1> QED
  BY <1>3, <1>4

LEMMA DeliverKeeps == \A u \in Users : IInv /\ Deliver(u) => Good(u)'
<1> SUFFICES ASSUME NEW u \in Users, IInv, Deliver(u) PROVE Good(u)'
  OBVIOUS
<1>1. /\ step[u] = "send" /\ step'[u] = "save" /\ got'[u] = got[u] \cup {chunk[u] + 1}
      /\ UNCHANGED <<st, next, chunk>>
  BY DEF Deliver, SetStep, IInv, Shape, rcpt
<1> QED
  BY <1>1, DeliveryAssumption DEF IInv, Good, Bounded, Recorded, Behind, Sending, Saving, Full

LEMMA RefuseKeeps == \A u \in Users : IInv /\ (Refuse(u) \/ SendFails(u)) => Good(u)'
<1> SUFFICES ASSUME NEW u \in Users, IInv, Refuse(u) \/ SendFails(u) PROVE Good(u)'
  OBVIOUS
<1>1. /\ step[u] = "send" /\ step'[u] \in {"send", "blocked", "unreachable", "failed"}
      /\ UNCHANGED <<st, next, got, chunk>>
  BY DEF Refuse, SendFails, SetStep, IInv, Shape, rcpt
<1> QED
  BY <1>1 DEF IInv, Good, Bounded, Recorded, Behind, Sending, Saving, Full

(* A part that was delivered is behind its sender, on record or not.         *)
LEMMA SaveKeeps == \A u \in Users : IInv /\ SavePart(u) => Good(u)'
<1> SUFFICES ASSUME NEW u \in Users, IInv, SavePart(u) PROVE Good(u)'
  OBVIOUS
<1>1. step[u] = "save" /\ UNCHANGED <<st, got>>
  BY DEF SavePart
<1>2. CASE Gone(u) /\ UNCHANGED next
  BY <1>1, <1>2, GoneKeeps
<1>3. CASE /\ SetStep(u, Onward(chunk[u] + 1)) /\ chunk' = [chunk EXCEPT ![u] = @ + 1]
           /\ next' = next \/ next' = [next EXCEPT ![u] = chunk[u] + 1]
  <2>1. /\ step'[u] = Onward(chunk[u] + 1) /\ chunk'[u] = chunk[u] + 1
        /\ next'[u] = next[u] \/ next'[u] = chunk[u] + 1
    BY <1>3 DEF SetStep, IInv, Shape
  <2>2. /\ chunk[u] \in Nat /\ chunk[u] < Chunks /\ next[u] <= chunk[u] /\ next[u] \in Nat
        /\ 1 .. chunk[u] \subseteq got[u] /\ chunk[u] + 1 \in got[u] /\ got[u] \subseteq 1 .. Chunks
        /\ st[u] = "sent" => got[u] = 1 .. Chunks
    BY <1>1, DeliveryAssumption DEF IInv, Good, Bounded, Recorded, Behind, Sending, Saving, Full
  <2>3. 1 .. (chunk[u] + 1) \subseteq got[u]
    BY <2>2
  <2>4. Bounded(u)' /\ Recorded(u)' /\ Behind(u)'
    BY <1>1, <2>1, <2>2, <2>3, DeliveryAssumption DEF IInv, Good, Bounded, Recorded, Behind
  <2>5. CASE chunk[u] + 1 = Chunks
    <3>1. step'[u] = "sent" /\ got[u] = 1 .. Chunks
      BY <2>1, <2>2, <2>3, <2>5 DEF Onward
    <3> QED
      BY <1>1, <2>4, <3>1 DEF Good, Sending, Saving, Full
  <2>6. CASE chunk[u] + 1 # Chunks
    <3>1. step'[u] = "send" /\ chunk'[u] < Chunks
      BY <2>1, <2>2, <2>6, DeliveryAssumption DEF Onward
    <3> QED
      BY <1>1, <2>2, <2>4, <3>1 DEF Good, Sending, Saving, Full
  <2> QED
    BY <2>5, <2>6
<1> QED
  BY <1>2, <1>3 DEF SavePart

LEMMA RecordKeeps == \A u \in Users : IInv /\ Record(u) => Good(u)'
<1> SUFFICES ASSUME NEW u \in Users, IInv, Record(u) PROVE Good(u)'
  OBVIOUS
<1>1. Gone(u) /\ UNCHANGED <<next, got>> /\ (st'[u] = "sent" => st[u] = "sent" \/ step[u] = "sent")
  BY DEF Record, IInv, Shape
<1> QED
  BY <1>1, GoneKeeps

LEMMA LeavesKeep == \A u \in Users : IInv /\ (Abandon(u) \/ Interrupted(u)) => Good(u)'
<1> SUFFICES ASSUME NEW u \in Users, IInv, Abandon(u) \/ Interrupted(u) PROVE Good(u)'
  OBVIOUS
<1>1. Gone(u) /\ UNCHANGED <<st, next, got>>
  BY DEF Abandon, Interrupted, rcpt
<1> QED
  BY <1>1, GoneKeeps

LEMMA SenderKeeps == \A u \in Users : IInv /\ Sender(u) => IInv'
<1> SUFFICES ASSUME NEW u \in Users, IInv, Sender(u) PROVE IInv'
  OBVIOUS
<1>1. Only(u)
  BY OnlyOne DEF IInv
<1>2. Good(u)'
  BY LaunchKeeps, DeliverKeeps, RefuseKeeps, SaveKeeps, RecordKeeps, LeavesKeep DEF Sender
<1> QED
  BY <1>1, <1>2, OnlyKeeps

LEMMA Invariance == Spec => []IInv
<1>1. UNCHANGED vars => Elsewhere
  BY DEF vars, Elsewhere, rcpt, senders
<1>2. IInv /\ [Next]_vars => IInv'
  BY <1>1, WorkerElsewhere, ButtonsElsewhere, ElsewhereKeeps, TableRestated, RestatedKeeps,
     ClaimKeeps, CrashKeeps, SenderKeeps DEF Next, Pass
<1> QED
  BY <1>2, InitHolds, PTL DEF Spec

-----------------------------------------------------------------------------
(* Whoever counts as reached has received every part of the message, in      *)
(* spite of any number of crashes, lapsed leases, retries and lost records   *)
(* (processRecipient, FinishBroadcastRecipient).                             *)
THEOREM ReachedInFull == Spec => []SentInFull
<1>1. IInv => SentInFull
  BY DEF IInv, Good, Full, SentInFull
<1> QED
  BY <1>1, Invariance, PTL

(* No part whose delivery is on record is ever sent again                    *)
(* (UpdateBroadcastRecipientProgress, ClaimBroadcastRecipients).             *)
THEOREM RecordedNotRepeated == Spec => []NoRepeatOfRecorded
<1>1. IInv => NoRepeatOfRecorded
  BY DEF IInv, Good, Behind, NoRepeatOfRecorded
<1> QED
  BY <1>1, Invariance, PTL

-----------------------------------------------------------------------------
(* Types of the delivery                                                    *)

(* The types that IInv does not already give.                                *)
CardTyped == /\ status \in Statuses /\ delayed \in BOOLEAN /\ filterOK \in BOOLEAN
             /\ report \in [Users -> RcptStatuses]
RcptTyped == /\ st \in [Users -> RcptStatuses] /\ lease \in [Users -> Nat]
             /\ lapsed \in [Users -> BOOLEAN]
RunTyped == /\ waiting \subseteq Goroutines /\ who \in Goroutines \cup {"none"}
            /\ pc \in Pcs /\ seen \in Copies /\ tally \in [Users -> RcptStatuses]
            /\ ended \in BOOLEAN /\ detached \in BOOLEAN /\ errs \in BOOLEAN
SenderTyped == /\ step \in [Users -> Steps] /\ held \in [Users -> Nat]
               /\ try \in [Users -> 0 .. Retries]
AdminTyped == /\ tapped \in {"none", "cancel", "retry"} /\ taps \in 0 .. MaxTaps
              /\ faults \in 0 .. MaxFaults
Typed == CardTyped /\ RcptTyped /\ RunTyped /\ SenderTyped /\ AdminTyped

USE DEF card, rcpt, ctx, run, senders, admin

LEMMA CopyTypes ==
  /\ NoCopy \in Copies /\ Blank \in [Users -> RcptStatuses]
  /\ CardTyped => Card \in Copies
BY DEF NoCopy, Copies, Statuses, Blank, RcptStatuses, Card, CardTyped

LEMMA LeaveTyped == RunTyped /\ Leave => RunTyped'
BY CopyTypes DEF RunTyped, Leave, Pcs

LEMMA GotoTyped == ASSUME NEW place \in Pcs, RunTyped, Goto(place) PROVE RunTyped'
BY DEF RunTyped, Goto, ctx

LEMMA FaultTyped == faults \in 0 .. MaxFaults /\ Fault => faults' \in 0 .. MaxFaults
BY DeliveryAssumption DEF Fault

(* What a pass leaves alone.                                                 *)
LEMMA PassFrame ==
  Typed /\ UNCHANGED <<rcpt, senders, admin, faults>> => RcptTyped' /\ SenderTyped' /\ AdminTyped'
BY DEF Typed, RcptTyped, SenderTyped, AdminTyped, rcpt, senders, admin

LEMMA CardFrame == Typed /\ UNCHANGED card => CardTyped'
BY DEF Typed, CardTyped, card

LEMMA RunFrame == Typed /\ UNCHANGED run => RunTyped'
BY DEF Typed, RunTyped, run, ctx

LEMMA TickTyped == Typed /\ Tick => Typed'
BY DeliveryAssumption DEF Typed, CardTyped, RcptTyped, RunTyped, SenderTyped, AdminTyped,
   Statuses, Ended, RcptStatuses, Outcomes, Goroutines, Pcs, Steps, Tick

LEMMA LoadTyped == Typed /\ Load => Typed'
<1> SUFFICES ASSUME Typed, Load PROVE Typed'
  OBVIOUS
<1>1. RcptTyped' /\ SenderTyped' /\ AdminTyped'
  BY PassFrame DEF Load
<1>2. CardTyped'
  BY CardFrame DEF Load
<1>3. RunTyped'
  BY LeaveTyped, GotoTyped DEF Typed, Load, Pcs
<1> QED BY <1>1, <1>2, <1>3 DEF Typed

LEMMA ClaimCampaignTyped == Typed /\ ClaimCampaign => Typed'
<1> SUFFICES ASSUME Typed, ClaimCampaign PROVE Typed'
  OBVIOUS
<1>1. RcptTyped' /\ SenderTyped' /\ AdminTyped'
  BY PassFrame DEF ClaimCampaign
<1>2. CardTyped'
  BY DEF Typed, CardTyped, ClaimCampaign, Statuses
<1>3. RunTyped'
  BY LeaveTyped, GotoTyped DEF Typed, ClaimCampaign, Pcs
<1> QED BY <1>1, <1>2, <1>3 DEF Typed

LEMMA ParseFilterTyped == Typed /\ ParseFilter => Typed'
BY DeliveryAssumption DEF Typed, CardTyped, RcptTyped, RunTyped, SenderTyped, AdminTyped,
   Statuses, Ended, RcptStatuses, Outcomes, Goroutines, Pcs, Steps, ParseFilter, Goto

LEMMA MarkFailedTyped == Typed /\ MarkFailed => Typed'
BY DeliveryAssumption DEF Typed, CardTyped, RcptTyped, RunTyped, SenderTyped, AdminTyped,
   Statuses, Ended, RcptStatuses, Outcomes, Goroutines, Pcs, Steps, MarkFailed, Goto, Blank

LEMMA SnapshotTyped == Typed /\ Snapshot => Typed'
BY DeliveryAssumption DEF Typed, CardTyped, RcptTyped, RunTyped, SenderTyped, AdminTyped,
   Statuses, Ended, RcptStatuses, Outcomes, Goroutines, Pcs, Steps, Snapshot, Goto

LEMMA RecoverTyped == Typed /\ Recover => Typed'
BY DeliveryAssumption DEF Typed, CardTyped, RcptTyped, RunTyped, SenderTyped, AdminTyped,
   Statuses, Ended, RcptStatuses, Outcomes, Goroutines, Pcs, Steps, Recover, Goto

LEMMA ClaimBatchTyped == Typed /\ ClaimBatch => Typed'
<1> SUFFICES ASSUME Typed, ClaimBatch PROVE Typed'
  OBVIOUS
<1>1. PICK B \in Batches \ {{}} :
       /\ st' = [u \in Users |-> IF u \in B THEN "sending" ELSE st[u]]
       /\ lease' = [u \in Users |-> IF u \in B THEN lease[u] + 1 ELSE lease[u]]
       /\ lapsed' = [u \in Users |-> lapsed[u] /\ u \notin B]
       /\ step' = [u \in Users |-> IF u \in B THEN "queued" ELSE step[u]]
       /\ held' = [u \in Users |-> IF u \in B THEN lease[u] + 1 ELSE held[u]]
       /\ try' = [u \in Users |-> IF u \in B THEN 0 ELSE try[u]]
  BY DEF ClaimBatch
<1>2. CardTyped' /\ AdminTyped'
  BY DEF Typed, CardTyped, AdminTyped, ClaimBatch, card, admin
<1>3. RunTyped'
  BY DEF Typed, RunTyped, ClaimBatch, Pcs
<1>4. st' \in [Users -> RcptStatuses] /\ lease' \in [Users -> Nat]
  BY <1>1 DEF Typed, RcptTyped, RcptStatuses
<1>5. lapsed' \in [Users -> BOOLEAN]
  BY <1>1 DEF Typed, RcptTyped
<1>6. SenderTyped'
  BY <1>1, DeliveryAssumption DEF Typed, RcptTyped, SenderTyped, Steps
<1> QED BY <1>2, <1>3, <1>4, <1>5, <1>6 DEF Typed, RcptTyped

LEMMA NothingToClaimTyped == Typed /\ NothingToClaim => Typed'
BY DeliveryAssumption DEF Typed, CardTyped, RcptTyped, RunTyped, SenderTyped, AdminTyped,
   Statuses, Ended, RcptStatuses, Outcomes, Goroutines, Pcs, Steps, NothingToClaim, Goto

LEMMA BatchDoneTyped == Typed /\ BatchDone => Typed'
BY DeliveryAssumption DEF Typed, CardTyped, RcptTyped, RunTyped, SenderTyped, AdminTyped,
   Statuses, Ended, RcptStatuses, Outcomes, Goroutines, Pcs, Steps, BatchDone, Goto

LEMMA FinalizeTyped == Typed /\ Finalize => Typed'
<1> SUFFICES ASSUME Typed, Finalize PROVE Typed'
  OBVIOUS
<1>1. RcptTyped' /\ SenderTyped' /\ AdminTyped'
  BY PassFrame DEF Finalize
<1>2. CardTyped'
  BY CardFrame DEF Finalize
<1>3. RunTyped'
  BY LeaveTyped, CopyTypes DEF Typed, RunTyped, Finalize, Pcs
<1> QED BY <1>1, <1>2, <1>3 DEF Typed

LEMMA StatsTyped == Typed /\ Stats => Typed'
BY DeliveryAssumption DEF Typed, CardTyped, RcptTyped, RunTyped, SenderTyped, AdminTyped,
   Statuses, Ended, RcptStatuses, Outcomes, Goroutines, Pcs, Steps, Stats

LEMMA WriteVerdictTyped == Typed /\ WriteVerdict => Typed'
<1> SUFFICES ASSUME Typed, WriteVerdict PROVE Typed'
  OBVIOUS
<1>1. RcptTyped' /\ SenderTyped' /\ AdminTyped'
  BY PassFrame DEF WriteVerdict
<1>2. CardTyped'
  BY DEF Typed, CardTyped, RunTyped, WriteVerdict, Verdict, Statuses, Ended, Copies
<1>3. RunTyped'
  BY LeaveTyped DEF Typed, WriteVerdict
<1> QED BY <1>1, <1>2, <1>3 DEF Typed

LEMMA RetryLoadTyped == Typed /\ RetryLoad => Typed'
<1> SUFFICES ASSUME Typed, RetryLoad PROVE Typed'
  OBVIOUS
<1>1. RcptTyped' /\ SenderTyped' /\ AdminTyped'
  BY PassFrame DEF RetryLoad
<1>2. CardTyped'
  BY CardFrame DEF RetryLoad
<1>3. RunTyped'
  BY LeaveTyped, CopyTypes DEF Typed, RunTyped, RetryLoad, Pcs, ctx
<1> QED BY <1>1, <1>2, <1>3 DEF Typed

LEMMA RetryWriteTyped == Typed /\ RetryWrite => Typed'
<1> SUFFICES ASSUME Typed, RetryWrite PROVE Typed'
  OBVIOUS
<1>1. RcptTyped' /\ SenderTyped' /\ AdminTyped'
  BY PassFrame DEF RetryWrite
<1>2. CardTyped'
  BY DEF Typed, CardTyped, RunTyped, RetryWrite, Statuses, Copies
<1>3. RunTyped'
  BY LeaveTyped DEF Typed, RetryWrite
<1> QED BY <1>1, <1>2, <1>3 DEF Typed

LEMMA CutOffTyped == Typed /\ CutOff => Typed'
<1> SUFFICES ASSUME Typed, CutOff PROVE Typed'
  OBVIOUS
<1>1. RcptTyped' /\ SenderTyped' /\ AdminTyped'
  BY PassFrame DEF CutOff
<1>2. CardTyped'
  BY CardFrame DEF CutOff
<1>3. RunTyped'
  BY LeaveTyped, GotoTyped DEF Typed, CutOff, Pcs
<1> QED BY <1>1, <1>2, <1>3 DEF Typed

LEMMA QueryFailsTyped == Typed /\ QueryFails => Typed'
<1> SUFFICES ASSUME Typed, QueryFails PROVE Typed'
  OBVIOUS
<1>1. RcptTyped' /\ SenderTyped' /\ CardTyped' /\ AdminTyped'
  BY FaultTyped DEF Typed, RcptTyped, SenderTyped, CardTyped, AdminTyped, QueryFails, rcpt,
     senders, card, admin
<1>2. RunTyped'
  BY LeaveTyped, GotoTyped DEF Typed, QueryFails, Pcs
<1> QED BY <1>1, <1>2 DEF Typed

LEMMA TimeoutTyped == Typed /\ Timeout => Typed'
BY DeliveryAssumption DEF Typed, CardTyped, RcptTyped, RunTyped, SenderTyped, AdminTyped,
   Statuses, Ended, RcptStatuses, Outcomes, Goroutines, Pcs, Steps, Timeout, Fault

LEMMA TapCancelTyped == Typed /\ TapCancel => Typed'
BY DeliveryAssumption DEF Typed, CardTyped, RcptTyped, RunTyped, SenderTyped, AdminTyped,
   Statuses, Ended, RcptStatuses, Outcomes, Goroutines, Pcs, Steps, TapCancel

LEMMA CancelRunTyped == Typed /\ CancelRun => Typed'
BY DeliveryAssumption DEF Typed, CardTyped, RcptTyped, RunTyped, SenderTyped, AdminTyped,
   Statuses, Ended, RcptStatuses, Outcomes, Goroutines, Pcs, Steps, CancelRun, EndRun

LEMMA TapRetryTyped == Typed /\ TapRetry => Typed'
BY DeliveryAssumption DEF Typed, CardTyped, RcptTyped, RunTyped, SenderTyped, AdminTyped,
   Statuses, Ended, RcptStatuses, Outcomes, Goroutines, Pcs, Steps, TapRetry, EndRun

LEMMA ResetFailedTyped == Typed /\ ResetFailed => Typed'
<1> SUFFICES ASSUME Typed, ResetFailed PROVE Typed'
  OBVIOUS
<1>1. CardTyped'
  BY DEF Typed, CardTyped, ResetFailed, Statuses
<1>2. st' \in [Users -> RcptStatuses] /\ lease' \in [Users -> Nat]
  BY DEF Typed, RcptTyped, RcptStatuses, ResetFailed
<1>3. lapsed' \in [Users -> BOOLEAN]
  BY DEF Typed, RcptTyped, ResetFailed
<1>4. SenderTyped' /\ AdminTyped'
  BY DEF Typed, SenderTyped, AdminTyped, ResetFailed, senders
<1>5. RunTyped'
  BY RunFrame DEF ResetFailed
<1> QED BY <1>1, <1>2, <1>3, <1>4, <1>5 DEF Typed, RcptTyped

LEMMA DelayOverTyped == Typed /\ DelayOver => Typed'
<1> SUFFICES ASSUME Typed, DelayOver PROVE Typed'
  OBVIOUS
<1>1. CardTyped'
  BY DEF Typed, CardTyped, DelayOver
<1>2. RcptTyped' /\ SenderTyped' /\ AdminTyped' /\ RunTyped'
  BY RunFrame, PassFrame DEF DelayOver
<1> QED BY <1>1, <1>2 DEF Typed

LEMMA CrashTyped == Typed /\ Crash => Typed'
<1> SUFFICES ASSUME Typed, Crash PROVE Typed'
  OBVIOUS
<1>1. CardTyped' /\ RcptTyped'
  BY DEF Typed, CardTyped, RcptTyped, Crash, card, rcpt
<1>2. AdminTyped'
  BY FaultTyped DEF Typed, AdminTyped, Crash
<1>3. SenderTyped'
  BY DeliveryAssumption DEF SenderTyped, Crash, Steps
<1>4. RunTyped'
  BY CopyTypes DEF Typed, RunTyped, Crash, Pcs
<1> QED BY <1>1, <1>2, <1>3, <1>4 DEF Typed

LEMMA LaunchTyped == \A u \in Users : Typed /\ Launch(u) => Typed'
BY DeliveryAssumption DEF Typed, CardTyped, RcptTyped, RunTyped, SenderTyped, AdminTyped,
   Statuses, Ended, RcptStatuses, Outcomes, Goroutines, Pcs, Steps, Launch, SetStep, Onward

LEMMA AbandonTyped == \A u \in Users : Typed /\ Abandon(u) => Typed'
BY DeliveryAssumption DEF Typed, CardTyped, RcptTyped, RunTyped, SenderTyped, AdminTyped,
   Statuses, Ended, RcptStatuses, Outcomes, Goroutines, Pcs, Steps, Abandon, Gone

LEMMA DeliverTyped == \A u \in Users : Typed /\ Deliver(u) => Typed'
BY DeliveryAssumption DEF Typed, CardTyped, RcptTyped, RunTyped, SenderTyped, AdminTyped,
   Statuses, Ended, RcptStatuses, Outcomes, Goroutines, Pcs, Steps, Deliver, SetStep

LEMMA RefuseTyped == \A u \in Users : Typed /\ Refuse(u) => Typed'
BY DeliveryAssumption DEF Typed, CardTyped, RcptTyped, RunTyped, SenderTyped, AdminTyped,
   Statuses, Ended, RcptStatuses, Outcomes, Goroutines, Pcs, Steps, Refuse, SetStep

LEMMA SendFailsTyped == \A u \in Users : Typed /\ SendFails(u) => Typed'
BY DeliveryAssumption DEF Typed, CardTyped, RcptTyped, RunTyped, SenderTyped, AdminTyped,
   Statuses, Ended, RcptStatuses, Outcomes, Goroutines, Pcs, Steps, SendFails, SetStep

LEMMA InterruptedTyped == \A u \in Users : Typed /\ Interrupted(u) => Typed'
BY DeliveryAssumption DEF Typed, CardTyped, RcptTyped, RunTyped, SenderTyped, AdminTyped,
   Statuses, Ended, RcptStatuses, Outcomes, Goroutines, Pcs, Steps, Interrupted, Gone

LEMMA SavePartTyped == \A u \in Users : Typed /\ SavePart(u) => Typed'
<1> SUFFICES ASSUME NEW u \in Users, Typed, SavePart(u) PROVE Typed'
  OBVIOUS
<1>1. CardTyped' /\ RunTyped'
  BY CardFrame, RunFrame DEF SavePart
<1>2. st' \in [Users -> RcptStatuses] /\ lease' \in [Users -> Nat]
  BY DEF Typed, RcptTyped, SavePart
<1>3. lapsed' \in [Users -> BOOLEAN]
  BY DEF Typed, RcptTyped, SavePart
<1>4. AdminTyped'
  BY FaultTyped DEF Typed, AdminTyped, SavePart, admin
<1>5. SenderTyped'
  BY DeliveryAssumption DEF Typed, SenderTyped, SavePart, SetStep, Onward, Gone, Steps, Outcomes
<1> QED BY <1>1, <1>2, <1>3, <1>4, <1>5 DEF Typed, RcptTyped

LEMMA RecordTyped == \A u \in Users : Typed /\ Record(u) => Typed'
<1> SUFFICES ASSUME NEW u \in Users, Typed, Record(u) PROVE Typed'
  OBVIOUS
<1>1. CardTyped'
  BY CardFrame DEF Record
<1>2. st' \in [Users -> RcptStatuses] /\ UNCHANGED <<lease, lapsed>>
  BY DEF Typed, RcptTyped, RcptStatuses, Record
<1>3. AdminTyped'
  BY FaultTyped DEF Typed, AdminTyped, Record, admin
<1>4. SenderTyped'
  BY DeliveryAssumption DEF Typed, SenderTyped, Record, Gone, Steps
<1>5. RunTyped'
  BY DEF Typed, RunTyped, Record
<1> QED BY <1>1, <1>2, <1>3, <1>4, <1>5 DEF Typed, RcptTyped

LEMMA LeaseLapsesTyped == \A u \in Users : Typed /\ LeaseLapses(u) => Typed'
BY DeliveryAssumption DEF Typed, CardTyped, RcptTyped, RunTyped, SenderTyped, AdminTyped,
   Statuses, Ended, RcptStatuses, Outcomes, Goroutines, Pcs, Steps, LeaseLapses

LEMMA InitTyped == Init => Typed
<1> SUFFICES ASSUME Init PROVE Typed
  OBVIOUS
<1>1. CardTyped /\ RcptTyped
  BY CopyTypes DEF Init, CardTyped, RcptTyped, Statuses
<1>2. RunTyped
  BY CopyTypes DEF Init, RunTyped, Goroutines, Pcs
<1>3. SenderTyped /\ AdminTyped
  BY DeliveryAssumption DEF Init, SenderTyped, AdminTyped, Steps
<1> QED BY <1>1, <1>2, <1>3 DEF Typed

LEMMA EnterTyped == \A g \in Goroutines : Typed /\ Enter(g) => Typed'
<1> SUFFICES ASSUME NEW g \in Goroutines, Typed, Enter(g) PROVE Typed'
  OBVIOUS
<1>1. CardTyped' /\ RcptTyped' /\ SenderTyped' /\ AdminTyped'
  BY PassFrame, CardFrame DEF Enter
<1>2. RunTyped'
  BY DEF Typed, RunTyped, Enter, Pcs, ctx
<1> QED BY <1>1, <1>2 DEF Typed

LEMMA StepTyped == Typed /\ [Next]_vars => Typed'
<1> SUFFICES ASSUME Typed, [Next]_vars PROVE Typed'
  OBVIOUS
<1>1. CASE UNCHANGED vars
  BY <1>1, CardFrame, PassFrame, RunFrame DEF vars, Typed
<1>2. CASE Pass \/ QueryFails \/ Timeout \/ Tick \/ \E g \in Goroutines : Enter(g)
  BY <1>2, EnterTyped, TickTyped, LoadTyped, ClaimCampaignTyped, ParseFilterTyped,
     MarkFailedTyped, SnapshotTyped, RecoverTyped, ClaimBatchTyped, NothingToClaimTyped,
     BatchDoneTyped, FinalizeTyped, StatsTyped, WriteVerdictTyped, RetryLoadTyped,
     RetryWriteTyped, CutOffTyped, QueryFailsTyped, TimeoutTyped
  DEF Pass
<1>3. ASSUME NEW u \in Users, Sender(u) \/ LeaseLapses(u) PROVE Typed'
  BY <1>3, LaunchTyped, AbandonTyped, DeliverTyped, RefuseTyped, SendFailsTyped, InterruptedTyped,
     SavePartTyped, RecordTyped, LeaseLapsesTyped DEF Sender
<1>4. CASE TapCancel \/ CancelRun \/ TapRetry \/ ResetFailed \/ DelayOver \/ Crash
  BY <1>4, TapCancelTyped, CancelRunTyped, TapRetryTyped, ResetFailedTyped, DelayOverTyped,
     CrashTyped
<1> QED BY <1>1, <1>2, <1>3, <1>4 DEF Next

(* Types of the campaign's row, its recipients, the pass, its senders and    *)
(* the buttons (broadcast_worker.go), for any audience and bounds.           *)
THEOREM TypeCorrect == Spec => []TypeOK
<1>1. IInv /\ Typed => TypeOK
  <2> SUFFICES ASSUME IInv, Typed PROVE TypeOK
    OBVIOUS
  <2>1. \A u \in Users : next[u] \in 0 .. Chunks /\ chunk[u] \in 0 .. Chunks /\ got[u] \in SUBSET (1 .. Chunks)
    BY DEF IInv, Good, Bounded
  <2>2. /\ next \in [Users -> 0 .. Chunks] /\ chunk \in [Users -> 0 .. Chunks]
        /\ got \in [Users -> SUBSET (1 .. Chunks)]
    BY <2>1 DEF IInv, Shape
  <2> QED BY <2>2 DEF Typed, CardTyped, RcptTyped, RunTyped, SenderTyped, AdminTyped, TypeOK
<1>2. Init /\ [][Next]_vars => []Typed
  BY InitTyped, StepTyped, PTL
<1> QED BY <1>1, <1>2, Invariance, PTL DEF Spec

-----------------------------------------------------------------------------
(* The administrator's reset does not land between a pass's statistics and   *)
(* its verdict.                                                              *)
NoResetBeforeVerdict == pc = "write" => ~ResetFailed

(* Senders live within a pass; a completed campaign is not passed over again; *)
(* the verdict is about the recipients as they are.                          *)
SendersInPass == (who = "none" => pc = "idle") /\ \A u \in Users : step[u] # "none" => pc = "send"
Final ==
  /\ status = "completed" =>
       /\ pc \in {"idle", "load", "retryLoad"}
       /\ \A u \in Users : st[u] \in Outcomes /\ report[u] = st[u]
  /\ pc = "write" => \A u \in Users : tally[u] = st[u]
  /\ pc = "retryWrite" => seen.status \notin Ended

FinalInv == Typed /\ SendersInPass /\ Final

LEMMA InitFinal == Init => FinalInv
BY InitTyped DEF Init, FinalInv, SendersInPass, Final, NoCopy

(* A step that moves none of what the three are about.                       *)
LEMMA UntouchedKeeps ==
  ASSUME SendersInPass, Final,
         UNCHANGED <<status, report, st, who, pc, seen, tally, step>>
  PROVE  (SendersInPass /\ Final)'
BY DEF SendersInPass, Final

(* A step of the pass outside the sending of a batch: no sender is under way. *)
LEMMA LeaveKeeps == SendersInPass /\ Leave /\ UNCHANGED step /\ pc # "send" => SendersInPass'
BY DEF SendersInPass, Leave

LEMMA LoadFinal == FinalInv /\ Load => (SendersInPass /\ Final)'
BY DEF FinalInv, SendersInPass, Final, Load, Leave, NoCopy, Goto, Ended

LEMMA ClaimCampaignFinal == FinalInv /\ ClaimCampaign => (SendersInPass /\ Final)'
BY DEF FinalInv, SendersInPass, Final, ClaimCampaign, Leave, NoCopy, Goto, Ended

LEMMA ParseFilterFinal == FinalInv /\ ParseFilter => (SendersInPass /\ Final)'
BY DEF FinalInv, SendersInPass, Final, ParseFilter, Goto, Ended

LEMMA MarkFailedFinal == FinalInv /\ MarkFailed => (SendersInPass /\ Final)'
BY DEF FinalInv, SendersInPass, Final, MarkFailed, Goto, Blank, Ended

LEMMA SnapshotFinal == FinalInv /\ Snapshot => (SendersInPass /\ Final)'
BY DEF FinalInv, SendersInPass, Final, Snapshot, Goto, Ended

LEMMA RecoverFinal == FinalInv /\ Recover => (SendersInPass /\ Final)'
BY DEF FinalInv, SendersInPass, Final, Recover, Goto, Ended

LEMMA ClaimBatchFinal == FinalInv /\ ClaimBatch => (SendersInPass /\ Final)'
BY DEF FinalInv, SendersInPass, Final, ClaimBatch, Ended

LEMMA NothingToClaimFinal == FinalInv /\ NothingToClaim => (SendersInPass /\ Final)'
BY DEF FinalInv, SendersInPass, Final, NothingToClaim, Goto, Ended

LEMMA BatchDoneFinal == FinalInv /\ BatchDone => (SendersInPass /\ Final)'
BY DEF FinalInv, SendersInPass, Final, BatchDone, Goto, Ended

LEMMA FinalizeFinal == FinalInv /\ Finalize => (SendersInPass /\ Final)'
BY DEF FinalInv, SendersInPass, Final, Finalize, Leave, NoCopy, Card, Ended

LEMMA StatsFinal == FinalInv /\ Stats => (SendersInPass /\ Final)'
BY DEF FinalInv, SendersInPass, Final, Stats, Ended

LEMMA WriteVerdictFinal == FinalInv /\ WriteVerdict => (SendersInPass /\ Final)'
BY DEF FinalInv, SendersInPass, Final, WriteVerdict, Leave, NoCopy, Verdict, Outcomes,
   Ended

LEMMA RetryLoadFinal == FinalInv /\ RetryLoad => (SendersInPass /\ Final)'
BY DEF FinalInv, SendersInPass, Final, RetryLoad, Leave, NoCopy, Card, Ended

LEMMA RetryWriteFinal == FinalInv /\ RetryWrite => (SendersInPass /\ Final)'
BY DEF FinalInv, SendersInPass, Final, RetryWrite, Leave, NoCopy, Ended

LEMMA CutOffFinal == FinalInv /\ CutOff => (SendersInPass /\ Final)'
BY DEF FinalInv, SendersInPass, Final, CutOff, Leave, NoCopy, Goto, Ended

LEMMA QueryFailsFinal == FinalInv /\ QueryFails => (SendersInPass /\ Final)'
BY DEF FinalInv, SendersInPass, Final, QueryFails, Leave, NoCopy, Goto, Ended

LEMMA ResetFailedFinal == FinalInv /\ NoResetBeforeVerdict /\ ResetFailed => (SendersInPass /\ Final)'
BY DEF FinalInv, SendersInPass, Final, ResetFailed, Ended, NoResetBeforeVerdict

LEMMA CrashFinal == FinalInv /\ Crash => (SendersInPass /\ Final)'
BY DEF FinalInv, SendersInPass, Final, Crash, NoCopy, Ended

(* A sender is under way, hence the campaign neither complete nor judged.    *)
LEMMA SenderFinal == \A u \in Users : FinalInv /\ Sender(u) => (SendersInPass /\ Final)'
<1> SUFFICES ASSUME NEW u \in Users, FinalInv, Sender(u) PROVE (SendersInPass /\ Final)'
  OBVIOUS
<1>1. step[u] # "none"
  BY DEF Sender, Launch, Abandon, Deliver, Refuse, SendFails, Interrupted, SavePart, Record,
     Outcomes
<1>2. pc = "send" /\ status # "completed" /\ who # "none"
  BY <1>1 DEF FinalInv, SendersInPass, Final
<1>3. UNCHANGED <<status, report, who, pc, seen, tally, tapped, taps>>
  BY DEF Sender, Launch, Abandon, Deliver, Refuse, SendFails, Interrupted, SavePart, Record,
     card, run, ctx, admin
<1> QED BY <1>2, <1>3 DEF FinalInv, SendersInPass, Final

(* Buttons leave a completed campaign alone, but for the reset: that opens   *)
(* it again.                                                                 *)
LEMMA ButtonsFinal == FinalInv /\ (TapCancel \/ CancelRun \/ TapRetry) => (SendersInPass /\ Final)'
BY DEF FinalInv, SendersInPass, Final, TapCancel, CancelRun, TapRetry, Ended, card, rcpt, run, ctx,
   senders

LEMMA EnterFinal == \A g \in Goroutines : FinalInv /\ Enter(g) => (SendersInPass /\ Final)'
BY DEF FinalInv, SendersInPass, Final, Enter, Ended, Goroutines

LEMMA OthersFinal ==
  FinalInv /\ (UNCHANGED vars \/ Tick \/ Timeout \/ DelayOver \/ \E u \in Users : LeaseLapses(u))
    => (SendersInPass /\ Final)'
<1> SUFFICES ASSUME FinalInv, UNCHANGED vars \/ Tick \/ Timeout \/ DelayOver \/ \E u \in Users : LeaseLapses(u)
             PROVE  (SendersInPass /\ Final)'
  OBVIOUS
<1>1. UNCHANGED <<status, report, st, who, pc, seen, tally, step>>
  BY DEF vars, Tick, Timeout, DelayOver, LeaseLapses, card, rcpt, run, ctx, senders, admin
<1> QED BY <1>1, UntouchedKeeps DEF FinalInv

LEMMA StepFinal == FinalInv /\ NoResetBeforeVerdict /\ [Next]_vars => FinalInv'
<1> SUFFICES ASSUME FinalInv, NoResetBeforeVerdict, [Next]_vars PROVE FinalInv'
  OBVIOUS
<1>1. Typed'
  BY StepTyped DEF FinalInv
<1>2. (SendersInPass /\ Final)'
  BY EnterFinal, OthersFinal, ButtonsFinal, SenderFinal, LoadFinal, ClaimCampaignFinal,
     ParseFilterFinal, MarkFailedFinal, SnapshotFinal, RecoverFinal, ClaimBatchFinal,
     NothingToClaimFinal, BatchDoneFinal, FinalizeFinal, StatsFinal, WriteVerdictFinal,
     RetryLoadFinal, RetryWriteFinal, CutOffFinal, QueryFailsFinal, ResetFailedFinal,
     CrashFinal
  DEF Next, Pass
<1> QED BY <1>1, <1>2 DEF FinalInv

LEMMA FinalReports == FinalInv => CompleteIsFinal
BY DEF FinalInv, Final, CompleteIsFinal

(* The administrator sees a campaign reported complete only when every       *)
(* recipient's outcome is on record and in the report (finishCampaign's      *)
(* copies), whatever crashes, lapsed leases, failed queries and buttons of   *)
(* outdated cards came before: for any audience and any number of buttons,   *)
(* as long as RetryFailed's reset does not land between a pass's statistics  *)
(* and its verdict. There it would be lost under a stale verdict.            *)
THEOREM ReportedUnlessReset == Spec /\ [][NoResetBeforeVerdict]_vars => []CompleteIsFinal
<1>1. FinalInv /\ [Next]_vars /\ [NoResetBeforeVerdict]_vars => FinalInv'
  <2>1. CASE UNCHANGED vars
    BY <2>1, StepTyped, OthersFinal DEF FinalInv
  <2> QED BY <2>1, StepFinal
<1> QED BY <1>1, InitFinal, FinalReports, PTL DEF Spec

(* An administrator who presses one button, and one the card offers: the     *)
(* retry is offered on a completed campaign, which no pass is judging.       *)
OneButton == MaxTaps <= 1 /\ ~StrayTaps

Pressed ==
  /\ taps = 0 => status # "canceled" /\ seen.status # "canceled" /\ tapped = "none"
  /\ status = "failed" => \A u \in Users : report[u] # "failed"
  /\ tapped = "retry" => status = "completed"

OneButtonInv == FinalInv /\ Pressed

LEMMA PressedBeforeVerdict == OneButtonInv => NoResetBeforeVerdict
BY DEF OneButtonInv, FinalInv, Final, Pressed, NoResetBeforeVerdict, ResetFailed

(* While a retry is pressed no pass has anything to write.                   *)
LEMMA PassPressed == OneButtonInv /\ (Pass \/ QueryFails) => Pressed'
<1> SUFFICES ASSUME OneButtonInv, Pass \/ QueryFails PROVE Pressed'
  OBVIOUS
<1>1. UNCHANGED <<tapped, taps>>
  BY DEF Pass, Load, ClaimCampaign, ParseFilter, MarkFailed, Snapshot, Recover, ClaimBatch,
     NothingToClaim, BatchDone, Finalize, Stats, WriteVerdict, RetryLoad, RetryWrite, CutOff,
     QueryFails, admin
<1>2. CASE UNCHANGED <<status, report>> /\ seen' \in {seen, NoCopy, Card}
  <2>1. taps = 0 => seen'.status # "canceled"
    BY <1>2 DEF OneButtonInv, Pressed, NoCopy, Card
  <2> QED BY <1>1, <1>2, <2>1 DEF OneButtonInv, Pressed
<1>3. CASE ClaimCampaign
  <2>1. status' \in {status, "running"} /\ seen' \in {seen, NoCopy} /\ report' = report /\ pc = "claim"
    BY <1>3 DEF ClaimCampaign, Goto, Leave
  <2> QED BY <1>1, <2>1 DEF OneButtonInv, FinalInv, Final, Pressed, NoCopy
<1>4. CASE MarkFailed
  BY <1>1, <1>4 DEF MarkFailed, Goto, Blank, OneButtonInv, FinalInv, Final, Pressed
<1>5. CASE WriteVerdict
  <2>1. /\ pc = "write" /\ seen' = NoCopy
        /\ status' \in {"running", "completed"} \/ (status' = "canceled" /\ seen.status = "canceled")
    BY <1>5 DEF WriteVerdict, Verdict, Leave
  <2> QED BY <1>1, <2>1 DEF OneButtonInv, FinalInv, Final, Pressed, NoCopy
<1>6. CASE RetryWrite
  <2>1. pc = "retryWrite" /\ seen' = NoCopy /\ status' \in {"running", seen.status}
    BY <1>6 DEF RetryWrite, Leave
  <2> QED BY <1>1, <2>1 DEF OneButtonInv, FinalInv, Final, Pressed, NoCopy, Ended
<1>7. CASE \/ Load \/ ParseFilter \/ Snapshot \/ Recover \/ ClaimBatch \/ NothingToClaim
           \/ BatchDone \/ Finalize \/ Stats \/ RetryLoad \/ CutOff \/ QueryFails
  <2>1. UNCHANGED <<status, report>> /\ seen' \in {seen, NoCopy, Card}
    BY <1>7 DEF Load, ParseFilter, Snapshot, Recover, ClaimBatch, NothingToClaim, BatchDone,
       Finalize, Stats, RetryLoad, CutOff, QueryFails, Goto, Leave, card
  <2> QED BY <1>2, <2>1
<1> QED BY <1>3, <1>4, <1>5, <1>6, <1>7 DEF Pass

(* One press is all there is; a retry is pressed on a completed campaign.    *)
LEMMA ButtonsPressed ==
  ASSUME OneButton, OneButtonInv, TapCancel \/ CancelRun \/ TapRetry \/ ResetFailed
  PROVE  Pressed'
<1>1. /\ taps \in Nat /\ MaxTaps \in Nat /\ MaxTaps <= 1 /\ ~StrayTaps
  BY DeliveryAssumption DEF OneButtonInv, FinalInv, Typed, AdminTyped, OneButton
<1>2. CASE TapCancel
  <2>1. taps' = 1 /\ tapped' = "cancel" /\ status' \in {status, "canceled"} /\ report' = report
    BY <1>1, <1>2 DEF TapCancel
  <2> QED BY <2>1 DEF OneButtonInv, Pressed
<1>3. CASE CancelRun
  BY <1>3 DEF CancelRun, card, OneButtonInv, Pressed
<1>4. CASE TapRetry
  <2>1. /\ taps' = 1 /\ UNCHANGED <<status, report>>
        /\ status \in Ended /\ \E u \in Users : report[u] = "failed"
        /\ taps = 0
    BY <1>1, <1>4 DEF TapRetry, card
  <2>2. status = "completed"
    BY <2>1 DEF OneButtonInv, Pressed, Ended
  <2> QED BY <2>1, <2>2 DEF OneButtonInv, Pressed
<1>5. CASE ResetFailed
  <2>1. tapped = "retry" /\ status = "completed"
    BY <1>5 DEF ResetFailed, OneButtonInv, Pressed
  <2>2. status' = "running" /\ tapped' = "none" /\ UNCHANGED <<seen, taps>>
    BY <1>5, <2>1 DEF ResetFailed, run, Ended
  <2> QED BY <2>1, <2>2 DEF OneButtonInv, Pressed
<1> QED BY <1>2, <1>3, <1>4, <1>5

LEMMA OthersPressed ==
  ASSUME OneButtonInv,
         \/ UNCHANGED vars \/ Tick \/ (\E g \in Goroutines : Enter(g)) \/ Timeout \/ DelayOver
         \/ Crash \/ \E u \in Users : Sender(u) \/ LeaseLapses(u)
  PROVE  Pressed'
<1>1. CASE Crash
  BY <1>1 DEF Crash, card, NoCopy, OneButtonInv, Pressed
<1>2. CASE UNCHANGED <<status, report, seen, tapped, taps>>
  BY <1>2 DEF OneButtonInv, Pressed
<1>3. ASSUME NEW u \in Users, Sender(u) PROVE UNCHANGED <<status, report, seen, tapped, taps>>
  BY <1>3 DEF Sender, Launch, Abandon, Deliver, Refuse, SendFails, Interrupted, SavePart, Record,
     card, run, admin
<1>4. CASE \/ UNCHANGED vars \/ Tick \/ (\E g \in Goroutines : Enter(g)) \/ Timeout \/ DelayOver
           \/ \E u \in Users : LeaseLapses(u)
  <2>1. UNCHANGED <<status, report, seen, tapped, taps>>
    BY <1>4 DEF vars, Tick, Enter, Timeout, DelayOver, LeaseLapses, card, run, admin
  <2> QED BY <1>2, <2>1
<1> QED BY <1>1, <1>2, <1>3, <1>4

(* With one button, and that one on the card, nothing is assumed of the      *)
(* reset: a campaign is then always reported complete in full.               *)
THEOREM ReportedInFull == ASSUME OneButton PROVE Spec => []CompleteIsFinal
<1>1. OneButtonInv /\ [Next]_vars => OneButtonInv'
  <2> SUFFICES ASSUME OneButtonInv, [Next]_vars PROVE OneButtonInv'
    OBVIOUS
  <2>1. FinalInv'
    BY StepFinal, PressedBeforeVerdict DEF OneButtonInv
  <2>2. Pressed'
    BY PassPressed, ButtonsPressed, OthersPressed DEF Next
  <2> QED BY <2>1, <2>2 DEF OneButtonInv
<1>2. Init => OneButtonInv
  BY InitFinal DEF Init, OneButtonInv, Pressed, NoCopy
<1> QED BY <1>1, <1>2, FinalReports, PTL DEF Spec, OneButtonInv

HIDE DEF card, rcpt, ctx, run, senders, admin

-----------------------------------------------------------------------------
(* The dialogue                                                              *)

(* The dialogue: every session anybody holds past the count is counted.      *)
Counted(s) == s # NoSession /\ s.stage \in {"confirm", "schedule"} => s.count = s.filter

Held(c) == Counted(call[c].copy)

(* A handler goes on with the stage it has found.                            *)
Fits(c) ==
  /\ call[c].op \in Draft!Edits => call[c].copy # NoSession /\ Draft!Applies(call[c].op, call[c].copy)
  /\ call[c].op = "create" => Draft!Launchable(call[c].copy)

LEMMA DraftInitTypes == Draft!Init => Draft!TypeOK
BY DraftAssumption DEF Draft!Init, Draft!TypeOK, Draft!Idle, Draft!Ops, Draft!Edits

LEMMA FreshSession ==
  ASSUME NEW d \in 1 .. MaxDrafts, NEW stage \in Draft!Stages
  PROVE  Draft!Fresh(d, stage) \in Draft!Sessions
BY DraftAssumption DEF Draft!Fresh, Draft!Sessions, Draft!Plans

LEMMA EditedSession ==
  ASSUME NEW op \in Draft!Edits, NEW s \in Draft!Sessions, s # NoSession, Draft!Applies(op, s),
         NEW t \in Draft!Edited(op, s)
  PROVE  t \in Draft!Sessions /\ t.draft = s.draft /\ (Counted(s) => Counted(t))
<1>1. s \in [draft : 1 .. MaxDrafts, stage : Draft!Stages, filter : Audiences,
             count : Audiences \cup {NoCount}, plan : Draft!Plans]
  BY DEF Draft!Sessions
<1>2. CASE op \in {"name", "text"}
  <2>1. PICK stage \in {"text", "filter"} : t = Draft!Fresh(s.draft, stage)
    BY <1>2 DEF Draft!Edited
  <2> QED BY <1>1, <2>1, FreshSession DEF Draft!Stages, Draft!Fresh, Counted
<1>3. CASE op = "filter"
  <2>1. s.stage = "filter"
    BY <1>3 DEF Draft!Applies
  <2>2. PICK f \in Audiences : t = [s EXCEPT !.filter = f]
    BY <1>3 DEF Draft!Edited
  <2> QED BY <1>1, <2>1, <2>2 DEF Draft!Sessions, Counted
<1>4. CASE op = "confirm"
  <2>1. t = [s EXCEPT !.stage = "confirm", !.count = s.filter]
    BY <1>4 DEF Draft!Edited
  <2>2. t \in Draft!Sessions
    BY <1>1, <2>1 DEF Draft!Sessions, Draft!Stages
  <2>3. t.draft = s.draft /\ t.count = t.filter
    BY <1>1, <2>1
  <2> QED BY <2>2, <2>3 DEF Counted
<1>5. CASE op = "schedule"
  <2>1. s.stage = "confirm" /\ t = [s EXCEPT !.stage = "schedule", !.plan = "none"]
    BY <1>5 DEF Draft!Edited, Draft!Applies
  <2> QED BY <1>1, <2>1 DEF Draft!Sessions, Draft!Stages, Draft!Plans, Counted
<1>6. CASE op \in {"day", "hour"}
  <2>1. t \in {[s EXCEPT !.plan = "day"], [s EXCEPT !.plan = "chosen"]}
    BY <1>6 DEF Draft!Edited
  <2> QED BY <1>1, <2>1 DEF Draft!Sessions, Draft!Stages, Draft!Plans, Counted
<1>7. CASE op = "back"
  <2>1. /\ s.stage = "schedule"
        /\ t \in {[s EXCEPT !.stage = "confirm", !.plan = "none"], [s EXCEPT !.plan = "none"]}
    BY <1>7, <1>1 DEF Draft!Edited, Draft!Applies
  <2> QED BY <1>1, <2>1 DEF Draft!Sessions, Draft!Stages, Draft!Plans, Counted
<1>8. CASE op = "refilter"
  <2>1. t = [s EXCEPT !.stage = "filter"]
    BY <1>8 DEF Draft!Edited
  <2> QED BY <1>1, <2>1 DEF Draft!Sessions, Draft!Stages, Draft!Plans, Counted
<1> QED BY <1>2, <1>3, <1>4, <1>5, <1>6, <1>7, <1>8 DEF Draft!Edits

(* Drafts are numbered in the order in which they were begun.                *)
Numbered ==
  /\ taken \subseteq 1 .. drafts
  /\ session # NoSession => session.draft <= drafts
  /\ \A c \in Calls : call[c].copy # NoSession => call[c].copy.draft <= drafts

Creates(c, d) == call[c].op = "create" /\ call[c].copy.draft = d

(* A draft nobody has revived is in the session, being launched, launched, or *)
(* nowhere.                                                                  *)
Once(d) ==
  /\ session # NoSession /\ session.draft = d => d \notin taken
  /\ d \notin taken => campaigns[d] = 0 /\ \A c \in Calls : ~Creates(c, d)
  /\ campaigns[d] <= 1
  /\ campaigns[d] = 1 => \A c \in Calls : ~Creates(c, d)
  /\ \A b, c \in Calls : Creates(b, d) /\ Creates(c, d) => b = c

DraftInv ==
  /\ Draft!TypeOK /\ Numbered
  /\ Counted(session) /\ \A c \in Calls : Held(c) /\ Fits(c)
  /\ \A d \in 1 .. MaxDrafts : d \notin revived => Once(d)

LEMMA DraftInit == Draft!Init => DraftInv
<1> SUFFICES ASSUME Draft!Init PROVE DraftInv
  OBVIOUS
<1>1. Draft!TypeOK
  BY DraftInitTypes
<1>2. /\ session = NoSession /\ drafts = 0 /\ taken = {}
      /\ \A c \in Calls : call[c].op = "idle" /\ call[c].copy = NoSession
      /\ \A d \in 1 .. MaxDrafts : campaigns[d] = 0
  BY DEF Draft!Init, Draft!Idle
<1>3. Numbered /\ Counted(session) /\ \A c \in Calls : Held(c) /\ Fits(c)
  BY <1>2 DEF Numbered, Counted, Held, Fits, Draft!Edits
<1>4. \A d \in 1 .. MaxDrafts : Once(d)
  BY <1>2 DEF Once, Creates
<1> QED BY <1>1, <1>3, <1>4 DEF DraftInv

(* What a goroutine does with its call and leaves of the others.             *)
LEMMA OneCall ==
  ASSUME NEW c \in Calls, NEW v, Draft!TypeOK, call' = [call EXCEPT ![c] = v]
  PROVE  call'[c] = v /\ \A b \in Calls : b # c => call'[b] = call[b]
BY DEF Draft!TypeOK

(* A step that gives goroutine c the call v, whose session is counted, and   *)
(* leaves in the session none that was taken, unless it is thereby revived.  *)
LEMMA CallKeeps ==
  ASSUME NEW c \in Calls, NEW v, DraftInv, Draft!TypeOK',
         call' = [call EXCEPT ![c] = v],
         v.op # "create", v.op \in Draft!Edits => v.copy # NoSession /\ Draft!Applies(v.op, v.copy),
         Counted(v.copy), v.copy # NoSession => v.copy.draft <= drafts,
         Counted(session)', session' # NoSession => session'.draft <= drafts,
         session' # NoSession => session'.draft \notin taken \ revived',
         revived \subseteq revived', UNCHANGED <<drafts, taken, campaigns>>
  PROVE  DraftInv'
<1>1. call'[c] = v /\ \A b \in Calls : b # c => call'[b] = call[b]
  BY OneCall DEF DraftInv
<1>2. Numbered'
  BY <1>1 DEF DraftInv, Numbered
<1>3. ASSUME NEW b \in Calls PROVE (Held(b) /\ Fits(b))'
  BY <1>1 DEF DraftInv, Held, Fits, Counted
<1>4. ASSUME NEW d \in 1 .. MaxDrafts, d \notin revived' PROVE Once(d)'
  <2>1. \A b \in Calls : Creates(b, d)' => Creates(b, d)
    BY <1>1 DEF Creates
  <2> QED BY <1>4, <2>1 DEF DraftInv, Once
<1> QED BY <1>2, <1>3, <1>4 DEF DraftInv

LEMMA StartKeeps == DraftInv /\ Draft!Start => DraftInv'
<1> SUFFICES ASSUME DraftInv, Draft!Start PROVE DraftInv'
  OBVIOUS
<1>1. /\ drafts' = drafts + 1 /\ drafts' \in 1 .. MaxDrafts
      /\ session' = Draft!Fresh(drafts', "name") /\ updates' \in 0 .. MaxUpdates
      /\ UNCHANGED <<call, campaigns, revived, taken, failures>>
  BY DraftAssumption DEF DraftInv, Draft!TypeOK, Draft!Start, Draft!Update, Draft!log
<1>2. session' \in Draft!Sessions /\ session'.draft = drafts' /\ session'.stage = "name"
  BY <1>1, FreshSession DEF Draft!Stages, Draft!Fresh
<1>3. Draft!TypeOK'
  BY <1>1, <1>2, DraftAssumption DEF DraftInv, Draft!TypeOK
<1>4. taken \subseteq 1 .. drafts /\ drafts \in Nat /\ drafts' = drafts + 1
  BY <1>1, DraftAssumption DEF DraftInv, Numbered, Draft!TypeOK
<1>5. \A c \in Calls : call[c].copy # NoSession => call[c].copy.draft \in Nat /\ call[c].copy.draft <= drafts
  BY DraftAssumption DEF DraftInv, Numbered, Draft!TypeOK, Draft!Sessions
<1>6. Numbered'
  BY <1>1, <1>2, <1>4, <1>5 DEF Numbered
<1>7. Counted(session)' /\ \A c \in Calls : (Held(c) /\ Fits(c))'
  BY <1>1, <1>2 DEF DraftInv, Counted, Held, Fits
<1>8. ASSUME NEW d \in 1 .. MaxDrafts, d \notin revived' PROVE Once(d)'
  BY <1>1, <1>2, <1>4, <1>8 DEF DraftInv, Once, Creates
<1> QED BY <1>3, <1>6, <1>7, <1>8 DEF DraftInv

(* The session is emptied.                                                   *)
LEMMA EmptiedKeeps ==
  ASSUME DraftInv, Draft!TypeOK', session' = NoSession,
         UNCHANGED <<call, drafts, taken, campaigns, revived>>
  PROVE  DraftInv'
<1>1. Numbered'
  BY DEF DraftInv, Numbered
<1>2. Counted(session)' /\ \A c \in Calls : (Held(c) /\ Fits(c))'
  BY DEF DraftInv, Counted, Held, Fits
<1>3. ASSUME NEW d \in 1 .. MaxDrafts, d \notin revived PROVE Once(d)'
  BY <1>3 DEF DraftInv, Once, Creates
<1> QED BY <1>1, <1>2, <1>3 DEF DraftInv

LEMMA SessionFacts ==
  ASSUME DraftInv
  PROVE  /\ session # NoSession => /\ session \in Draft!Sessions /\ session.draft <= drafts
                                   /\ session.draft \notin taken \ revived
         /\ Counted(session)
         /\ \A c \in Calls : /\ call[c].copy \in Draft!Sessions \cup {NoSession}
                             /\ call[c].op \in Draft!Ops
                             /\ call[c].copy # NoSession => call[c].copy.draft <= drafts
                             /\ Counted(call[c].copy)
<1>1. session # NoSession => session \in Draft!Sessions /\ session.draft \in 1 .. MaxDrafts
  BY DEF DraftInv, Draft!TypeOK, Draft!Sessions
<1>2. session # NoSession => session.draft <= drafts /\ session.draft \notin taken \ revived
  BY <1>1 DEF DraftInv, Numbered, Once
<1> QED BY <1>1, <1>2 DEF DraftInv, Draft!TypeOK, Held, Numbered

(* A goroutine reads the session as it is.                                   *)
LEMMA ReadKeeps ==
  ASSUME NEW c \in Calls, DraftInv,
         \/ \E op \in Draft!Edits : Draft!Read(c, op)
         \/ Draft!ReadForLaunch(c) \/ Draft!FindExpired(c)
  PROVE  DraftInv'
<1>1. PICK op \in Draft!Edits \cup {"launch", "drop"} :
        /\ call' = [call EXCEPT ![c] = [op |-> op, copy |-> session]]
        /\ session # NoSession /\ (op \in Draft!Edits => Draft!Applies(op, session))
        /\ updates' \in 0 .. MaxUpdates
        /\ UNCHANGED <<session, drafts, campaigns, revived, taken, failures>>
  BY DraftAssumption DEF Draft!Read, Draft!ReadForLaunch, Draft!FindExpired, Draft!Update,
     Draft!log, DraftInv, Draft!TypeOK, Draft!Edits
<1> DEFINE v == [op |-> op, copy |-> session]
<1>2. v \in [op : Draft!Ops, copy : Draft!Sessions \cup {NoSession}]
  BY <1>1, SessionFacts DEF Draft!Ops
<1>3. Draft!TypeOK'
  BY <1>1, <1>2 DEF DraftInv, Draft!TypeOK
<1>4. v.op = op /\ v.copy = session /\ v.op # "create"
  BY DEF Draft!Edits
<1>5. Counted(v.copy) /\ Counted(session)'
  BY <1>1, <1>4, SessionFacts DEF Counted
<1> HIDE DEF v
<1> QED BY <1>1, <1>3, <1>4, <1>5, SessionFacts, CallKeeps DEF v

(* The goroutine is done and leaves an empty session or the one it found.    *)
LEMMA IdleKeeps ==
  ASSUME NEW c \in Calls, DraftInv, Draft!TypeOK',
         call' = [call EXCEPT ![c] = Draft!Idle],
         session' \in {session, NoSession},
         UNCHANGED <<drafts, taken, campaigns, revived>>
  PROVE  DraftInv'
<1>1. Draft!Idle.op = "idle" /\ Draft!Idle.copy = NoSession
  BY DEF Draft!Idle
<1>2. Counted(Draft!Idle.copy) /\ Counted(session)'
  BY <1>1, SessionFacts DEF Counted
<1>3. "idle" \notin Draft!Edits
  BY DEF Draft!Edits
<1> QED BY <1>1, <1>2, <1>3, SessionFacts, CallKeeps

LEMMA IdleType == Draft!Idle \in [op : Draft!Ops, copy : Draft!Sessions \cup {NoSession}]
BY DEF Draft!Idle, Draft!Ops

LEMMA EndsKeep ==
  ASSUME NEW c \in Calls, DraftInv, Draft!DropExpired(c) \/ Draft!GiveUp(c)
  PROVE  DraftInv'
<1>1. /\ call' = [call EXCEPT ![c] = Draft!Idle] /\ session' \in {session, NoSession}
      /\ failures' \in 0 .. MaxFailures
      /\ UNCHANGED <<drafts, taken, campaigns, revived, updates>>
  BY DraftAssumption DEF Draft!DropExpired, Draft!GiveUp, Draft!log, DraftInv, Draft!TypeOK
<1>2. Draft!TypeOK'
  BY <1>1, IdleType DEF DraftInv, Draft!TypeOK
<1> QED BY <1>1, <1>2, IdleKeeps

LEMMA ClearKeeps == DraftInv /\ Draft!Clear => DraftInv'
<1> SUFFICES ASSUME DraftInv, Draft!Clear PROVE DraftInv'
  OBVIOUS
<1>1. /\ session' = NoSession /\ updates' \in 0 .. MaxUpdates
      /\ UNCHANGED <<call, drafts, taken, campaigns, revived, failures>>
  BY DraftAssumption DEF Draft!Clear, Draft!Update, Draft!log, DraftInv, Draft!TypeOK
<1>2. Draft!TypeOK'
  BY <1>1 DEF DraftInv, Draft!TypeOK
<1> QED BY <1>1, <1>2, EmptiedKeeps

(* A copy written back is revived when its draft was taken meanwhile.        *)
LEMMA WriteBackKeeps == \A c \in Calls : DraftInv /\ Draft!WriteBack(c) => DraftInv'
<1> SUFFICES ASSUME NEW c \in Calls, DraftInv, Draft!WriteBack(c) PROVE DraftInv'
  OBVIOUS
<1> DEFINE op == call[c].op
           s == call[c].copy
<1>1. /\ op \in Draft!Edits /\ session' \in Draft!Edited(op, s)
      /\ revived' = IF s.draft \in taken THEN revived \cup {s.draft} ELSE revived
      /\ call' = [call EXCEPT ![c] = Draft!Idle]
      /\ UNCHANGED <<drafts, campaigns, taken, updates, failures>>
  BY DEF Draft!WriteBack
<1>2. s # NoSession /\ Draft!Applies(op, s) /\ s \in Draft!Sessions /\ s.draft <= drafts /\ Counted(s)
  BY <1>1, SessionFacts DEF DraftInv, Fits
<1>3. session' \in Draft!Sessions /\ session'.draft = s.draft /\ Counted(session')
  BY <1>1, <1>2, EditedSession
<1>4. s.draft \in 1 .. MaxDrafts
  BY <1>2 DEF Draft!Sessions
<1>5. Draft!TypeOK'
  BY <1>1, <1>3, <1>4, IdleType DEF DraftInv, Draft!TypeOK
<1>6. Draft!Idle.op = "idle" /\ Draft!Idle.copy = NoSession /\ "idle" \notin Draft!Edits
      /\ Counted(Draft!Idle.copy) /\ Counted(session)'
  BY <1>3 DEF Draft!Idle, Draft!Edits, Counted
<1> HIDE DEF op, s
<1> QED BY <1>1, <1>2, <1>3, <1>5, <1>6, CallKeeps

(* The session's draft is launched by whoever takes it, and by nobody else.  *)
LEMMA TakeKeeps == \A c \in Calls : DraftInv /\ Draft!Take(c) => DraftInv'
<1> SUFFICES ASSUME NEW c \in Calls, DraftInv, Draft!Take(c) PROVE DraftInv'
  OBVIOUS
<1>1. CASE ~Draft!Launchable(session)
  <2>1. /\ call' = [call EXCEPT ![c] = Draft!Idle] /\ session' = session
        /\ UNCHANGED <<drafts, campaigns, taken, revived, updates, failures>>
    BY <1>1 DEF Draft!Take
  <2>2. Draft!TypeOK'
    BY <2>1, IdleType DEF DraftInv, Draft!TypeOK
  <2> QED BY <2>1, <2>2, IdleKeeps
<1>2. CASE Draft!Launchable(session)
  <2> DEFINE v == [op |-> "create", copy |-> session]
             n == session.draft
  <2>1. /\ call' = [call EXCEPT ![c] = v] /\ session' = NoSession /\ taken' = taken \cup {n}
        /\ UNCHANGED <<drafts, campaigns, revived, updates, failures>>
    BY <1>2 DEF Draft!Take
  <2>2. session # NoSession /\ session \in Draft!Sessions
    BY <1>2, SessionFacts DEF Draft!Launchable
  <2>3. n \in 1 .. MaxDrafts /\ n \in 1 .. drafts
    BY <2>2, SessionFacts, DraftAssumption DEF Draft!Sessions, DraftInv, Draft!TypeOK
  <2>4. v \in [op : Draft!Ops, copy : Draft!Sessions \cup {NoSession}]
    BY <2>2 DEF Draft!Ops
  <2>5. Draft!TypeOK'
    BY <2>1, <2>3, <2>4 DEF DraftInv, Draft!TypeOK
  <2>6. v.op = "create" /\ v.copy = session /\ "create" \notin Draft!Edits
    BY DEF Draft!Edits
  <2> HIDE DEF v
  <2>7. call'[c] = v /\ \A b \in Calls : b # c => call'[b] = call[b]
    BY <2>1, OneCall DEF DraftInv
  <2>8. Numbered'
    BY <2>1, <2>3, <2>6, <2>7, SessionFacts DEF DraftInv, Numbered
  <2>9. Counted(session)' /\ \A b \in Calls : (Held(b) /\ Fits(b))'
    BY <1>2, <2>1, <2>6, <2>7, SessionFacts DEF DraftInv, Held, Fits, Counted
  <2>10. ASSUME NEW d \in 1 .. MaxDrafts, d \notin revived PROVE Once(d)'
    <3>1. CASE d = n
      <4>1. d \notin taken
        BY <2>2, <2>10, <3>1 DEF DraftInv, Once
      <4>2. campaigns[d] = 0 /\ \A b \in Calls : ~Creates(b, d)
        BY <2>10, <4>1 DEF DraftInv, Once
      <4>3. \A b \in Calls : Creates(b, d)' => b = c
        BY <2>7, <4>2 DEF Creates
      <4> QED BY <2>1, <3>1, <4>2, <4>3 DEF Once
    <3>2. CASE d # n
      <4>1. \A b \in Calls : Creates(b, d)' => Creates(b, d)
        BY <2>6, <2>7, <3>2 DEF Creates
      <4> QED BY <2>1, <2>10, <3>2, <4>1 DEF DraftInv, Once
    <3> QED BY <3>1, <3>2
  <2> QED BY <2>1, <2>5, <2>8, <2>9, <2>10 DEF DraftInv
<1> QED BY <1>1, <1>2

LEMMA CreateKeeps == \A c \in Calls : DraftInv /\ Draft!Create(c) => DraftInv'
<1> SUFFICES ASSUME NEW c \in Calls, DraftInv, Draft!Create(c) PROVE DraftInv'
  OBVIOUS
<1> DEFINE n == call[c].copy.draft
<1>1. /\ call[c].op = "create"
      /\ campaigns' = [campaigns EXCEPT ![n] = @ + 1] /\ call' = [call EXCEPT ![c] = Draft!Idle]
      /\ UNCHANGED <<session, drafts, revived, taken, updates, failures>>
  BY DEF Draft!Create
<1>2. call[c].copy \in Draft!Sessions /\ n \in 1 .. MaxDrafts
  BY <1>1, SessionFacts DEF DraftInv, Fits, Draft!Launchable, Draft!Sessions
<1>3. /\ campaigns \in [1 .. MaxDrafts -> Nat] /\ campaigns'[n] = campaigns[n] + 1
      /\ \A d \in 1 .. MaxDrafts : d # n => campaigns'[d] = campaigns[d]
  BY <1>1, <1>2 DEF DraftInv, Draft!TypeOK
<1>4. Draft!TypeOK'
  <2>1. campaigns' \in [1 .. MaxDrafts -> Nat]
    BY <1>1, <1>2, <1>3
  <2>2. call' \in [Calls -> [op : Draft!Ops, copy : Draft!Sessions \cup {NoSession}]]
    BY <1>1, IdleType DEF DraftInv, Draft!TypeOK
  <2> QED BY <1>1, <2>1, <2>2 DEF DraftInv, Draft!TypeOK
<1>5. call'[c] = Draft!Idle /\ \A b \in Calls : b # c => call'[b] = call[b]
  BY <1>1, OneCall DEF DraftInv
<1>6. Draft!Idle.op = "idle" /\ Draft!Idle.copy = NoSession /\ "idle" \notin Draft!Edits
  BY DEF Draft!Idle, Draft!Edits
<1> HIDE DEF n
<1>7. Numbered'
  BY <1>1, <1>5, <1>6 DEF DraftInv, Numbered
<1>8. Counted(session)' /\ \A b \in Calls : (Held(b) /\ Fits(b))'
  BY <1>1, <1>5, <1>6 DEF DraftInv, Held, Fits, Counted
<1>9. ASSUME NEW d \in 1 .. MaxDrafts, d \notin revived PROVE Once(d)'
  <2>1. \A b \in Calls : Creates(b, d)' => Creates(b, d) /\ b # c
    BY <1>5, <1>6 DEF Creates
  <2>2. Once(d)
    BY <1>9 DEF DraftInv
  <2>3. CASE d = n
    <3>1. Creates(c, d)
      BY <1>1, <2>3 DEF Creates, n
    <3>2. campaigns[d] \in Nat /\ campaigns[d] <= 1 /\ campaigns[d] # 1 /\ d \in taken
      BY <1>3, <2>2, <3>1 DEF Once
    <3>3. campaigns'[d] = 1
      BY <1>3, <2>3, <3>2
    <3>4. \A b \in Calls : ~Creates(b, d)'
      BY <2>1, <2>2, <3>1 DEF Once
    <3> QED BY <1>1, <2>2, <3>2, <3>3, <3>4 DEF Once
  <2>4. CASE d # n
    BY <1>1, <1>3, <2>1, <2>2, <2>4 DEF Once
  <2> QED BY <2>3, <2>4
<1> QED BY <1>1, <1>4, <1>7, <1>8, <1>9 DEF DraftInv

(* A draft that comes back has been launched by nobody.                      *)
LEMMA CreateFailsKeeps == \A c \in Calls : DraftInv /\ Draft!CreateFails(c) => DraftInv'
<1> SUFFICES ASSUME NEW c \in Calls, DraftInv, Draft!CreateFails(c) PROVE DraftInv'
  OBVIOUS
<1> DEFINE s == call[c].copy
<1>1. /\ call[c].op = "create" /\ failures' \in 0 .. MaxFailures
      /\ session' = IF session = NoSession THEN s ELSE session
      /\ taken' = IF session = NoSession THEN taken \ {s.draft} ELSE taken
      /\ call' = [call EXCEPT ![c] = Draft!Idle]
      /\ UNCHANGED <<drafts, campaigns, revived, updates>>
  BY DraftAssumption DEF Draft!CreateFails, DraftInv, Draft!TypeOK
<1>2. s \in Draft!Sessions /\ s.draft \in 1 .. MaxDrafts /\ s.draft <= drafts /\ Counted(s)
  BY <1>1, SessionFacts DEF DraftInv, Fits, Draft!Launchable, Draft!Sessions
<1>3. Draft!TypeOK'
  BY <1>1, <1>2, IdleType DEF DraftInv, Draft!TypeOK
<1>4. call'[c] = Draft!Idle /\ \A b \in Calls : b # c => call'[b] = call[b]
  BY <1>1, OneCall DEF DraftInv
<1>5. Draft!Idle.op = "idle" /\ Draft!Idle.copy = NoSession /\ "idle" \notin Draft!Edits
  BY DEF Draft!Idle, Draft!Edits
<1>6. Numbered'
  BY <1>1, <1>2, <1>4, <1>5 DEF DraftInv, Numbered
<1>7. Counted(session)' /\ \A b \in Calls : (Held(b) /\ Fits(b))'
  BY <1>1, <1>2, <1>4, <1>5 DEF DraftInv, Held, Fits, Counted
<1>8. ASSUME NEW d \in 1 .. MaxDrafts, d \notin revived PROVE Once(d)'
  <2>1. \A b \in Calls : Creates(b, d)' => Creates(b, d) /\ b # c
    BY <1>4, <1>5 DEF Creates
  <2>2. Once(d)
    BY <1>8 DEF DraftInv
  <2>3. CASE session = NoSession /\ d = s.draft
    <3>1. Creates(c, d)
      BY <1>1, <2>3 DEF Creates
    <3>2. campaigns[d] \in Nat /\ campaigns[d] = 0
      BY <1>8, <2>2, <3>1 DEF Once, DraftInv, Draft!TypeOK
    <3>3. \A b \in Calls : ~Creates(b, d)'
      BY <2>1, <2>2, <3>1 DEF Once
    <3> QED BY <1>1, <2>3, <3>2, <3>3 DEF Once
  <2>4. CASE session = NoSession /\ d # s.draft
    BY <1>1, <2>1, <2>2, <2>4 DEF Once
  <2>5. CASE session # NoSession
    BY <1>1, <2>1, <2>2, <2>5 DEF Once
  <2> QED BY <2>3, <2>4, <2>5
<1> QED BY <1>1, <1>3, <1>6, <1>7, <1>8 DEF DraftInv

LEMMA DraftStep == DraftInv /\ [Draft!Next]_Draft!vars => DraftInv'
<1> SUFFICES ASSUME DraftInv, [Draft!Next]_Draft!vars PROVE DraftInv'
  OBVIOUS
<1>1. CASE UNCHANGED Draft!vars
  <2>1. UNCHANGED <<session, call, drafts, campaigns, revived, taken, updates, failures>>
    BY <1>1 DEF Draft!vars
  <2> QED BY <2>1 DEF DraftInv, Draft!TypeOK, Numbered, Counted, Held, Fits, Once, Creates
<1>2. CASE Draft!Next
  BY <1>2, StartKeeps, ClearKeeps, ReadKeeps, EndsKeep, WriteBackKeeps, TakeKeeps, CreateKeeps,
     CreateFailsKeeps DEF Draft!Next
<1> QED BY <1>1, <1>2

LEMMA DraftInvariance == Draft!Spec => []DraftInv
BY DraftInit, DraftStep, PTL DEF Draft!Spec

(* However the administrator's callbacks overlap, a campaign is created for  *)
(* the audience that was counted for the confirmation, and a draft is        *)
(* launched again only when a late callback wrote it back (startBroadcast,   *)
(* broadcast_flow.go): for any goroutines, audiences and bounds.             *)
THEOREM CampaignsAreConfirmed == Draft!Spec => []LaunchedAsConfirmed
<1>1. ASSUME DraftInv, NEW c \in Calls, call[c].op = "create"
      PROVE  call[c].copy.count = call[c].copy.filter
  <2>1. Draft!Launchable(call[c].copy) /\ Counted(call[c].copy)
    BY <1>1 DEF DraftInv, Fits, Held
  <2> QED BY <2>1 DEF Draft!Launchable, Counted
<1>2. ASSUME DraftInv, NEW d \in 1 .. MaxDrafts, campaigns[d] > 1 PROVE d \in revived
  BY <1>2 DEF DraftInv, Once, Draft!TypeOK
<1>3. DraftInv => LaunchedAsConfirmed
  BY <1>1, <1>2 DEF LaunchedAsConfirmed, Draft!LaunchedAsConfirmed, Draft!CountedAudience,
                    Draft!LaunchedOnce
<1> QED BY <1>3, DraftInvariance, PTL

-----------------------------------------------------------------------------
(* The two parts side by side                                                *)

LEMMA BroadcastsFollowTheirParts == BroadcastsSpec => Spec /\ Draft!Spec
<1>1. BroadcastsInit => Init /\ Draft!Init
  BY DEF BroadcastsInit
<1>2. [BroadcastsNext]_<<vars, part, draft>> => [Next]_vars /\ [Draft!Next]_Draft!vars
  BY DEF BroadcastsNext, draft, Draft!vars
<1> QED BY <1>1, <1>2, PTL DEF BroadcastsSpec, Spec, Draft!Spec

(* The delivery's row and goroutines and the dialogue's sessions, calls and  *)
(* campaigns keep their types.                                               *)
THEOREM BroadcastsAreTyped == BroadcastsSpec => []TypesOK
<1>1. DraftInv => Draft!TypeOK
  BY DEF DraftInv
<1>2. TypesOK <=> TypeOK /\ Draft!TypeOK
  BY DEF TypesOK
<1> QED BY <1>1, <1>2, BroadcastsFollowTheirParts, TypeCorrect, DraftInvariance, PTL
=============================================================================
