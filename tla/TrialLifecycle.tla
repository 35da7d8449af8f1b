--------------------------- MODULE TrialLifecycle ---------------------------
(***************************************************************************)
(* One anonymous trial: created from an invitation page, bound to a Telegram*)
(* user by the bot, or removed by the cleanup scheduler once it is over. The*)
(* database row and the panel's client change in separate steps, and only   *)
(* the client's email and the guards of the statements keep them together.  *)
(* (internal/service/subscription.go, internal/database/trials.go,          *)
(* internal/scheduler/trial_cleanup.go)                                     *)
(*                                                                          *)
(* A client under the trial's email expires by itself; one under a user's   *)
(* email is endless.                                                        *)
(***************************************************************************)
EXTENDS Naturals

CONSTANTS Followers,
          Binders,     \* goroutines of the bot
          NoUser,
          MaxBinds,    \* attempts to bind in a behaviour
          MaxFaults    \* failed calls, lost answers and crashes in a behaviour

VARIABLES trial,    \* the subscription's row
          owner,    \* telegram_id, once it is bound
          client,   \* email of the client on the panel
          over,     \* created_at is before the cleanup's cutoff
          creator, binder, cleaner,  \* where each goroutine is
          follower, \* the user who followed the link, for each binder
          binds, faults

vars == <<trial, owner, client, over, creator, binder, cleaner, follower, binds, faults>>
tally == <<binds, faults>>

(* XUIEmail: a trial's client and a user's never share an email.             *)
NoClient == <<>>
TrialEmail == <<"trial">>
EmailOf(u) == <<"user", u>>
Emails == {TrialEmail} \cup {EmailOf(u) : u \in Followers}

Rows == {"absent", "active", "expired", "bound", "deleted"}
Unbound == {"active", "expired"}
BindSteps == {"idle", "update", "commit", "verify", "restore"}

(* The row, the client and the goroutines have their types.                  *)
TypeOK ==
  /\ trial \in Rows /\ owner \in Followers \cup {NoUser}
  /\ client \in Emails \cup {NoClient}
  /\ over \in BOOLEAN
  /\ creator \in {"add", "insert", "undo", "done"}
  /\ binder \in [Binders -> BindSteps]
  /\ cleaner \in {"idle", "deprovision", "delete"}
  /\ follower \in [Binders -> Followers \cup {NoUser}]
  /\ binds \in Nat /\ faults \in Nat

Init ==
  /\ trial = "absent" /\ owner = NoUser /\ client = NoClient
  /\ over = FALSE
  /\ creator = "add" /\ binder = [b \in Binders |-> "idle"] /\ cleaner = "idle"
  /\ follower = [b \in Binders |-> NoUser]
  /\ binds = 0 /\ faults = 0

Fault ==
  /\ faults < MaxFaults
  /\ faults' = faults + 1

-----------------------------------------------------------------------------
(* CreateTrial: the client first, then the row                               *)

AddClient ==
  /\ creator = "add"
  /\ \/ client' = TrialEmail /\ creator' = "insert" /\ UNCHANGED faults
     \/ Fault /\ client' \in {NoClient, TrialEmail} /\ creator' = "done"
  /\ UNCHANGED <<trial, owner, over, binder, cleaner, binds, follower>>

InsertRow ==
  /\ creator = "insert"
  /\ \/ trial' = "active" /\ creator' = "done" /\ UNCHANGED faults
     \/ Fault /\ creator' = "undo" /\ UNCHANGED trial
  /\ UNCHANGED <<owner, client, over, binder, cleaner, binds, follower>>

UndoClient ==
  /\ creator = "undo"
  /\ creator' = "done"
  /\ \/ client' = NoClient /\ UNCHANGED faults
     \/ Fault /\ UNCHANGED client
  /\ UNCHANGED <<trial, owner, over, binder, cleaner, binds, follower>>

-----------------------------------------------------------------------------
(* BindTrial: the client is renamed first, then the row is bound             *)

Step(b, place) == binder' = [binder EXCEPT ![b] = place]

LoadTrial(b) ==
  /\ binder[b] = "idle" /\ binds < MaxBinds
  /\ trial \in Unbound
  /\ binds' = binds + 1
  /\ \E u \in Followers : follower' = [follower EXCEPT ![b] = u]
  /\ Step(b, "update")
  /\ UNCHANGED <<trial, owner, client, over, creator, cleaner, faults>>

(* The panel finds the client by the trial's email, or not at all.           *)
RenameClient(b) ==
  /\ binder[b] = "update"
  /\ \/ /\ client = TrialEmail
        /\ client' = EmailOf(follower[b])
        /\ Step(b, "commit")
        /\ UNCHANGED faults
     \/ /\ client # TrialEmail
        /\ Step(b, "idle")
        /\ UNCHANGED <<client, faults>>
     \/ /\ Fault
        /\ client' \in {client, IF client = TrialEmail THEN EmailOf(follower[b]) ELSE client}
        /\ Step(b, "idle")
  /\ UNCHANGED <<trial, owner, over, creator, cleaner, binds, follower>>

(* The transaction may fail, and may have committed when it reports that.    *)
CommitBinding(b) ==
  /\ binder[b] = "commit"
  /\ \/ /\ trial = "active"
        /\ trial' = "bound" /\ owner' = follower[b]
        /\ \/ Step(b, "idle") /\ UNCHANGED faults
           \/ Fault /\ Step(b, "verify")
     \/ /\ trial # "active"
        /\ Step(b, "verify")
        /\ UNCHANGED <<trial, owner, faults>>
     \/ /\ Fault
        /\ Step(b, "verify")
        /\ UNCHANGED <<trial, owner>>
  /\ UNCHANGED <<client, over, creator, cleaner, binds, follower>>

(* Mutant: the client is restored whoever has the row. *)
RestoreBlindly(b) ==
  /\ binder[b] = "verify"
  /\ Step(b, "restore")
  /\ UNCHANGED <<trial, owner, client, over, creator, cleaner, binds, faults, follower>>

(* The client is restored only if the row is still an unbound trial.         *)
VerifyUnbound(b) ==
  /\ binder[b] = "verify"
  /\ \/ Step(b, IF trial \in Unbound THEN "restore" ELSE "idle") /\ UNCHANGED faults
     \/ Fault /\ Step(b, "idle")
  /\ UNCHANGED <<trial, owner, client, over, creator, cleaner, binds, follower>>

RestoreClient(b) ==
  /\ binder[b] = "restore"
  /\ Step(b, "idle")
  /\ \/ client' = (IF client = EmailOf(follower[b]) THEN TrialEmail ELSE client) /\ UNCHANGED faults
     \/ Fault /\ client' \in {client, IF client = EmailOf(follower[b]) THEN TrialEmail ELSE client}
  /\ UNCHANGED <<trial, owner, over, creator, cleaner, binds, follower>>

-----------------------------------------------------------------------------
(* CleanupExpiredTrials: claim, deprovision, delete                          *)

TrialEnds ==
  /\ ~over /\ over' = TRUE
  /\ UNCHANGED <<trial, owner, client, creator, binder, cleaner, tally, follower>>

(* Mutant: a trial claimed by an earlier pass is not claimed again. *)
ClaimActiveOnly ==
  /\ cleaner = "idle"
  /\ over /\ trial = "active"
  /\ trial' = "expired" /\ cleaner' = "deprovision"
  /\ UNCHANGED <<owner, client, over, creator, binder, tally, follower>>

ClaimExpired ==
  /\ cleaner = "idle"
  /\ over /\ trial \in Unbound
  /\ trial' = "expired" /\ cleaner' = "deprovision"
  /\ UNCHANGED <<owner, client, over, creator, binder, tally, follower>>

(* A client that is not found counts as deprovisioned.                       *)
Deprovision ==
  /\ cleaner = "deprovision"
  /\ LET without == IF client = TrialEmail THEN NoClient ELSE client IN
     \/ client' = without /\ cleaner' = "delete" /\ UNCHANGED faults
     \/ Fault /\ client' \in {client, without} /\ cleaner' = "idle"
  /\ UNCHANGED <<trial, owner, over, creator, binder, binds, follower>>

DeleteClaimed ==
  /\ cleaner = "delete"
  /\ cleaner' = "idle"
  /\ \/ trial' = (IF trial = "expired" THEN "deleted" ELSE trial) /\ UNCHANGED faults
     \/ Fault /\ UNCHANGED trial
  /\ UNCHANGED <<owner, client, over, creator, binder, binds, follower>>

(* The process restarts.                                                     *)
Crash ==
  /\ Fault
  /\ creator' = "done" /\ cleaner' = "idle"
  /\ binder' = [b \in Binders |-> "idle"]
  /\ UNCHANGED <<trial, owner, client, over, follower, binds>>

Create == AddClient \/ InsertRow \/ UndoClient
Bind(b) == LoadTrial(b) \/ RenameClient(b) \/ CommitBinding(b) \/ VerifyUnbound(b) \/ RestoreClient(b)
Clean == ClaimExpired \/ Deprovision \/ DeleteClaimed

Next == Create \/ (\E b \in Binders : Bind(b)) \/ TrialEnds \/ Clean \/ Crash

Spec == Init /\ [][Next]_vars

(* The scheduler runs every three hours, and at every start.                 *)
Fairness == WF_vars(Clean)

FairSpec == Spec /\ Fairness

-----------------------------------------------------------------------------
(* Properties                                                                *)

(* A bound trial's client is the user's endless one: no failed or competing  *)
(* attempt to bind, and no cleanup, takes it back or away.                   *)
BoundKeepsAccess == trial = "bound" => client = EmailOf(owner)

(* A trial that is over and bound to nobody is removed in the end, however   *)
(* often its deprovisioning failed.                                          *)
ExpiredTrialGoes == []<>~(over /\ trial \in Unbound)

(* The row is kept until its client is gone, so that no client is left that  *)
(* nobody knows of. It does not hold.                                        *)
NoOrphanedClient ==
  trial = "deleted" /\ (\A b \in Binders : binder[b] = "idle") => client = NoClient
=============================================================================
