--------------------------- MODULE BroadcastDraft ---------------------------
(***************************************************************************)
(* The administrator's dialogue that prepares a broadcast: name, text,      *)
(* filter, confirmation or schedule, launch. Telegram updates are handled   *)
(* by goroutines that overlap; each reads a snapshot of the session, and    *)
(* writes the whole of it back when it is done.                             *)
(* (internal/bot/broadcast_flow.go)                                         *)
(***************************************************************************)
EXTENDS Naturals

CONSTANTS Calls,      \* goroutines that handle updates
          Audiences,  \* what a filter selects
          Everyone,   \* the empty filter
          NoSession, NoCount,
          MaxDrafts, MaxUpdates, MaxFailures

VARIABLES session,   \* broadcastSessions of the administrator's chat
          call,      \* what each goroutine does, and the session it holds
          drafts,    \* drafts begun with /broadcast
          campaigns, \* rows created: draft, filter, the filter counted for it
          revived,   \* drafts written back after they had been taken for launch
          taken,     \* drafts taken for launch
          updates, failures

vars == <<session, call, drafts, campaigns, revived, taken, updates, failures>>
log == <<campaigns, revived, taken>>

Stages == {"name", "text", "filter", "confirm", "schedule"}
Plans == {"none", "day", "chosen"}
Sessions == [draft : 1 .. MaxDrafts, stage : Stages, filter : Audiences,
             count : Audiences \cup {NoCount}, plan : Plans]
Edits == {"name", "text", "filter", "confirm", "schedule", "day", "hour", "back", "refilter"}
Idle == [op |-> "idle", copy |-> NoSession]
Ops == Edits \cup {"idle", "launch", "create", "drop"}

(* Sessions, calls and campaigns have their types.                           *)
TypeOK ==
  /\ session \in Sessions \cup {NoSession}
  /\ call \in [Calls -> [op : Ops, copy : Sessions \cup {NoSession}]]
  /\ drafts \in 0 .. MaxDrafts
  /\ campaigns \in [1 .. MaxDrafts -> Nat]
  /\ revived \subseteq 1 .. MaxDrafts /\ taken \subseteq 1 .. MaxDrafts
  /\ updates \in 0 .. MaxUpdates /\ failures \in 0 .. MaxFailures

Init ==
  /\ session = NoSession
  /\ call = [c \in Calls |-> Idle]
  /\ drafts = 0
  /\ campaigns = [d \in 1 .. MaxDrafts |-> 0]
  /\ revived = {} /\ taken = {}
  /\ updates = 0 /\ failures = 0

-----------------------------------------------------------------------------
Fresh(d, stage) ==
  [draft |-> d, stage |-> stage, filter |-> Everyone, count |-> NoCount, plan |-> "none"]

(* The stage a handler asks of the snapshot before it does anything.         *)
Applies(op, s) ==
  CASE op \in {"name", "text"} -> s.stage = op
    [] op \in {"filter", "confirm"} -> s.stage = "filter"
    [] op \in {"schedule", "refilter"} -> s.stage = "confirm"
    [] op \in {"day", "back"} -> s.stage = "schedule"
    [] op = "hour" -> s.stage = "schedule" /\ s.plan # "none"

(* What the handler makes of its snapshot.                                   *)
Edited(op, s) ==
  CASE op = "name" -> {Fresh(s.draft, "text")}
    [] op = "text" -> {Fresh(s.draft, "filter")}
    [] op = "filter" -> {[s EXCEPT !.filter = f] : f \in Audiences}
    [] op = "confirm" -> {[s EXCEPT !.stage = "confirm", !.count = s.filter]}
    [] op = "schedule" -> {[s EXCEPT !.stage = "schedule", !.plan = "none"]}
    [] op = "day" -> {[s EXCEPT !.plan = "day"]}
    [] op = "hour" -> {[s EXCEPT !.plan = "chosen"]}
    [] op = "back" -> {[s EXCEPT !.stage = IF s.plan = "none" THEN "confirm" ELSE @,
                                 !.plan = "none"]}
    [] op = "refilter" -> {[s EXCEPT !.stage = "filter"]}

Launchable(s) ==
  s # NoSession /\ (s.stage = "confirm" \/ (s.stage = "schedule" /\ s.plan = "chosen"))

Update ==
  /\ updates < MaxUpdates
  /\ updates' = updates + 1

(* /broadcast starts over.                                                   *)
Start ==
  /\ Update /\ drafts < MaxDrafts
  /\ drafts' = drafts + 1
  /\ session' = Fresh(drafts + 1, "name")
  /\ UNCHANGED <<call, log, failures>>

(* /cancel and the cancel buttons.                                           *)
Clear ==
  /\ Update /\ session # NoSession
  /\ session' = NoSession
  /\ UNCHANGED <<call, drafts, log, failures>>

(* getBroadcastSession and the check of the stage.                           *)
Read(c, op) ==
  /\ Update /\ call[c] = Idle
  /\ session # NoSession
  /\ Applies(op, session)
  /\ call' = [call EXCEPT ![c] = [op |-> op, copy |-> session]]
  /\ UNCHANGED <<session, drafts, log, failures>>

(* The final button, or "confirm" pressed again.                             *)
ReadForLaunch(c) ==
  /\ Update /\ call[c] = Idle
  /\ session # NoSession /\ session.stage \in {"confirm", "schedule"}
  /\ call' = [call EXCEPT ![c] = [op |-> "launch", copy |-> session]]
  /\ UNCHANGED <<session, drafts, log, failures>>

(* A session older than its time to live is deleted in a second step.        *)
FindExpired(c) ==
  /\ Update /\ call[c] = Idle
  /\ session # NoSession
  /\ call' = [call EXCEPT ![c] = [op |-> "drop", copy |-> session]]
  /\ UNCHANGED <<session, drafts, log, failures>>

DropExpired(c) ==
  /\ call[c].op = "drop"
  /\ session' = NoSession
  /\ call' = [call EXCEPT ![c] = Idle]
  /\ UNCHANGED <<drafts, log, updates, failures>>

(* The whole copy is stored, whatever happened to the session meanwhile.     *)
WriteBack(c) ==
  /\ call[c].op \in Edits
  /\ session' \in Edited(call[c].op, call[c].copy)
  /\ revived' = IF call[c].copy.draft \in taken THEN revived \cup {call[c].copy.draft}
                ELSE revived
  /\ call' = [call EXCEPT ![c] = Idle]
  /\ UNCHANGED <<drafts, campaigns, taken, updates, failures>>

(* The preview cannot be sent, the audience not counted.                     *)
GiveUp(c) ==
  /\ call[c].op \in {"text", "confirm"}
  /\ failures < MaxFailures /\ failures' = failures + 1
  /\ call' = [call EXCEPT ![c] = Idle]
  /\ UNCHANGED <<session, drafts, log, updates>>

(* Mutant: the session is taken as it was read. *)
TakeCopy(c) ==
  /\ call[c].op = "launch"
  /\ IF Launchable(call[c].copy)
     THEN /\ call' = [call EXCEPT ![c].op = "create"]
          /\ session' = NoSession
          /\ taken' = taken \cup {call[c].copy.draft}
     ELSE /\ call' = [call EXCEPT ![c] = Idle]
          /\ UNCHANGED <<session, taken>>
  /\ UNCHANGED <<drafts, campaigns, revived, updates, failures>>

(* startBroadcast takes the session under the lock, as it is now.            *)
Take(c) ==
  /\ call[c].op = "launch"
  /\ IF Launchable(session)
     THEN /\ call' = [call EXCEPT ![c] = [op |-> "create", copy |-> session]]
          /\ session' = NoSession
          /\ taken' = taken \cup {session.draft}
     ELSE /\ call' = [call EXCEPT ![c] = Idle]
          /\ UNCHANGED <<session, taken>>
  /\ UNCHANGED <<drafts, campaigns, revived, updates, failures>>

Create(c) ==
  /\ call[c].op = "create"
  /\ campaigns' = [campaigns EXCEPT ![call[c].copy.draft] = @ + 1]
  /\ call' = [call EXCEPT ![c] = Idle]
  /\ UNCHANGED <<session, drafts, revived, taken, updates, failures>>

(* The row cannot be stored: the draft comes back unless another has begun.  *)
CreateFails(c) ==
  /\ call[c].op = "create"
  /\ failures < MaxFailures /\ failures' = failures + 1
  /\ session' = IF session = NoSession THEN call[c].copy ELSE session
  /\ taken' = IF session = NoSession THEN taken \ {call[c].copy.draft} ELSE taken
  /\ call' = [call EXCEPT ![c] = Idle]
  /\ UNCHANGED <<drafts, campaigns, revived, updates>>

Next ==
  \/ Start \/ Clear
  \/ \E c \in Calls :
       \/ \E op \in Edits : Read(c, op)
       \/ ReadForLaunch(c) \/ FindExpired(c) \/ DropExpired(c)
       \/ WriteBack(c) \/ GiveUp(c) \/ Take(c) \/ Create(c) \/ CreateFails(c)

Spec == Init /\ [][Next]_vars

-----------------------------------------------------------------------------
(* The audience a campaign is created for is the one whose size the          *)
(* administrator was shown before confirming, even when callbacks overlap.   *)
CountedAudience ==
  \A c \in Calls : call[c].op = "create" => call[c].copy.count = call[c].copy.filter

(* A draft is launched again only if a callback that had read it before it   *)
(* was taken wrote it back: two confirmations alone never launch it twice.   *)
LaunchedOnce ==
  \A d \in 1 .. MaxDrafts : campaigns[d] > 1 => d \in revived

(* What is launched is what was confirmed, and once.                         *)
LaunchedAsConfirmed == CountedAudience /\ LaunchedOnce
=============================================================================
