------------------------ MODULE TrialLifecycleProofs ------------------------
(***************************************************************************)
(* A bound trial's client is its owner's, for any followers, binders and     *)
(* bounds. The property is not inductive: it needs that only one binder at a  *)
(* time stands between the renamed client and the row, because only one can   *)
(* have found the client under the trial's email. A removed trial's client is *)
(* gone as well, unless a binder was interrupted while it held the client.    *)
(***************************************************************************)
EXTENDS TrialLifecycle, TLAPS

(* b has renamed the client and has not finished.                            *)
Holds(b) == binder[b] \in {"commit", "verify", "restore"}

(* What a binder that is under way has loaded, and what it has done.         *)
Loaded(b) == binder[b] # "idle" => follower[b] \in Followers
Renamed(b) == Holds(b) => client = EmailOf(follower[b])

(* The row is free while b restores the client.                              *)
Restores(b) == binder[b] = "restore" => trial # "bound"

Alone == \A b, c \in Binders : Holds(b) /\ Holds(c) => b = c

(* Nobody binds a trial that is still being created.                         *)
Created == creator # "done" => trial = "absent" /\ \A b \in Binders : binder[b] = "idle"

Binding == \A b \in Binders : Loaded(b) /\ Renamed(b) /\ Restores(b)

IInv == TypeOK /\ Binding /\ Alone /\ Created /\ BoundKeepsAccess

-----------------------------------------------------------------------------
(* A user's email is neither the trial's nor no client's.                    *)
LEMMA EmailsDiffer == \A u : EmailOf(u) # TrialEmail /\ EmailOf(u) # NoClient /\ TrialEmail # NoClient
BY DEF EmailOf, TrialEmail, NoClient

LEMMA InitHolds == Init => IInv
<1> SUFFICES ASSUME Init PROVE IInv
  OBVIOUS
<1>1. \A b \in Binders : binder[b] = "idle"
  BY DEF Init
<1>2. TypeOK
  BY DEF Init, TypeOK, BindSteps, Rows
<1>3. Binding /\ Alone /\ Created
  BY <1>1 DEF Init, Binding, Loaded, Renamed, Restores, Holds, Alone, Created
<1>4. BoundKeepsAccess
  BY DEF Init, BoundKeepsAccess
<1> QED
  BY <1>2, <1>3, <1>4 DEF IInv

(* Creating the client and the row, before anybody binds.                    *)
LEMMA CreateKeeps == IInv /\ Create => IInv'
<1> SUFFICES ASSUME IInv, Create PROVE IInv'
  OBVIOUS
<1>1. creator # "done" /\ trial = "absent" /\ \A b \in Binders : binder[b] = "idle"
  BY DEF IInv, Created, Create, AddClient, InsertRow, UndoClient
<1>2. UNCHANGED <<owner, over, binder, cleaner, binds, follower>>
  BY DEF Create, AddClient, InsertRow, UndoClient
<1>3. client' \in Emails \cup {NoClient} /\ faults' \in Nat
  BY DEF Create, AddClient, InsertRow, UndoClient, IInv, TypeOK, Fault, Emails
<1>4. /\ trial' \in {"absent", "active"}
      /\ creator' \in {"insert", "undo", "done"}
      /\ creator' # "done" => trial' = "absent"
  BY <1>1 DEF Create, AddClient, InsertRow, UndoClient
<1>5. TypeOK'
  BY <1>2, <1>3, <1>4 DEF IInv, TypeOK, Rows
<1>6. Binding' /\ Alone' /\ Created' /\ BoundKeepsAccess'
  BY <1>1, <1>2, <1>4 DEF Binding, Loaded, Renamed, Restores, Holds, Alone, Created, BoundKeepsAccess
<1> QED
  BY <1>5, <1>6 DEF IInv

(* The cleanup takes away neither a bound row nor a user's client.           *)
LEMMA CleanKeeps == IInv /\ (Clean \/ TrialEnds) => IInv'
<1> SUFFICES ASSUME IInv, Clean \/ TrialEnds PROVE IInv'
  OBVIOUS
<1>1. /\ UNCHANGED <<owner, creator, binder, binds, follower>>
      /\ \/ trial' = trial
         \/ trial' = "expired" /\ trial \in Unbound
         \/ trial' = "deleted" /\ trial = "expired"
      /\ \/ client' = client
         \/ client = TrialEmail /\ client' = NoClient
  <2>1. CASE ClaimExpired
    BY <2>1 DEF ClaimExpired, tally
  <2>2. CASE Deprovision
    BY <2>2 DEF Deprovision
  <2>3. CASE DeleteClaimed
    BY <2>3 DEF DeleteClaimed
  <2>4. CASE TrialEnds
    BY <2>4 DEF TrialEnds, tally
  <2> QED
    BY <2>1, <2>2, <2>3, <2>4 DEF Clean
<1>2. cleaner' \in {"idle", "deprovision", "delete"} /\ over' \in BOOLEAN /\ faults' \in Nat
  <2> USE DEF IInv, TypeOK
  <2>1. CASE ClaimExpired
    BY <2>1 DEF ClaimExpired, tally
  <2>2. CASE Deprovision
    BY <2>2 DEF Deprovision, Fault
  <2>3. CASE DeleteClaimed
    BY <2>3 DEF DeleteClaimed, Fault
  <2>4. CASE TrialEnds
    BY <2>4 DEF TrialEnds, tally
  <2> QED
    BY <2>1, <2>2, <2>3, <2>4 DEF Clean
<1>4. TypeOK'
  BY <1>1, <1>2 DEF IInv, TypeOK, Rows, Unbound
<1>5. Binding'
  BY <1>1, EmailsDiffer DEF IInv, Binding, Loaded, Renamed, Restores, Holds, Unbound
<1>6. Alone' /\ Created'
  BY <1>1 DEF IInv, Alone, Created, Holds, Unbound
<1>7. BoundKeepsAccess'
  BY <1>1, EmailsDiffer DEF IInv, BoundKeepsAccess, Unbound
<1> QED
  BY <1>4, <1>5, <1>6, <1>7 DEF IInv

LEMMA CrashKeeps == IInv /\ Crash => IInv'
BY DEF IInv, TypeOK, Crash, Fault, Binding, Loaded, Renamed, Restores, Holds, Alone, Created,
       BoundKeepsAccess, BindSteps

-----------------------------------------------------------------------------
(* The steps of a binder                                                      *)

LEMMA LoadKeeps == \A b \in Binders : IInv /\ LoadTrial(b) => IInv'
<1> SUFFICES ASSUME NEW b \in Binders, IInv, LoadTrial(b) PROVE IInv'
  OBVIOUS
<1>1. PICK u \in Followers : follower' = [follower EXCEPT ![b] = u]
  BY DEF LoadTrial
<1>2. /\ binder[b] = "idle" /\ binder' = [binder EXCEPT ![b] = "update"]
      /\ trial \in Unbound /\ binds' = binds + 1
      /\ UNCHANGED <<trial, owner, client, over, creator, cleaner, faults>>
  BY DEF LoadTrial, Step
<1>3. /\ binder'[b] = "update" /\ follower'[b] = u
      /\ \A c \in Binders : c # b => binder'[c] = binder[c] /\ follower'[c] = follower[c]
  BY <1>1, <1>2 DEF IInv, TypeOK
<1>4. TypeOK'
  BY <1>1, <1>2 DEF IInv, TypeOK, BindSteps
<1>5. Binding'
  BY <1>2, <1>3 DEF IInv, Binding, Loaded, Renamed, Restores, Holds
<1>6. Alone'
  BY <1>3 DEF IInv, Alone, Holds
<1>7. Created'
  BY <1>2 DEF IInv, Created, Unbound
<1>8. BoundKeepsAccess'
  BY <1>2 DEF IInv, BoundKeepsAccess
<1> QED
  BY <1>4, <1>5, <1>6, <1>7, <1>8 DEF IInv

(* Only one binder finds the client under the trial's email.                  *)
LEMMA RenameKeeps == \A b \in Binders : IInv /\ RenameClient(b) => IInv'
<1> SUFFICES ASSUME NEW b \in Binders, IInv, RenameClient(b) PROVE IInv'
  OBVIOUS
<1>1. binder[b] = "update" /\ UNCHANGED <<trial, owner, over, creator, cleaner, binds, follower>>
  BY DEF RenameClient
<1>2. follower[b] \in Followers
  BY <1>1 DEF IInv, Binding, Loaded
<1>3. creator = "done"
  BY <1>1 DEF IInv, Created
<1>4. PICK s \in {"commit", "idle"} :
        /\ binder' = [binder EXCEPT ![b] = s]
        /\ \/ client = TrialEmail /\ client' = EmailOf(follower[b])
           \/ client' = client /\ s = "idle"
  BY DEF RenameClient, Step
<1>5. faults' \in Nat
  BY DEF RenameClient, Fault, IInv, TypeOK
<1>6. binder'[b] = s /\ \A c \in Binders : c # b => binder'[c] = binder[c]
  BY <1>4 DEF IInv, TypeOK
<1>7. client = TrialEmail => (\A c \in Binders : ~Holds(c)) /\ trial # "bound"
  BY EmailsDiffer DEF IInv, Binding, Renamed, BoundKeepsAccess
<1>8. TypeOK'
  BY <1>1, <1>2, <1>4, <1>5 DEF IInv, TypeOK, BindSteps, Emails
<1>9. Binding'
  <2> SUFFICES ASSUME NEW c \in Binders PROVE (Loaded(c) /\ Renamed(c) /\ Restores(c))'
    BY DEF Binding
  <2>1. CASE c = b
    BY <2>1, <1>1, <1>2, <1>4, <1>6 DEF Loaded, Renamed, Restores, Holds
  <2>2. CASE c # b
    BY <2>2, <1>1, <1>4, <1>6, <1>7 DEF IInv, Binding, Loaded, Renamed, Restores, Holds
  <2> QED
    BY <2>1, <2>2
<1>10. Alone'
  BY <1>4, <1>6, <1>7 DEF IInv, Alone, Holds
<1>11. Created' /\ BoundKeepsAccess'
  BY <1>1, <1>3, <1>4, <1>7 DEF Created, BoundKeepsAccess, IInv
<1> QED
  BY <1>8, <1>9, <1>10, <1>11 DEF IInv

(* The row goes to the binder that holds the client.                          *)
LEMMA CommitKeeps == \A b \in Binders : IInv /\ CommitBinding(b) => IInv'
<1> SUFFICES ASSUME NEW b \in Binders, IInv, CommitBinding(b) PROVE IInv'
  OBVIOUS
<1>1. binder[b] = "commit" /\ UNCHANGED <<client, over, creator, cleaner, binds, follower>>
  BY DEF CommitBinding
<1>2. follower[b] \in Followers /\ client = EmailOf(follower[b]) /\ creator = "done"
  BY <1>1 DEF IInv, Binding, Loaded, Renamed, Holds, Created
<1>3. PICK s \in {"idle", "verify"} : binder' = [binder EXCEPT ![b] = s]
  BY DEF CommitBinding, Step
<1>4. (trial' = "bound" /\ owner' = follower[b]) \/ UNCHANGED <<trial, owner>>
  BY DEF CommitBinding
<1>5. faults' \in Nat
  BY DEF CommitBinding, Fault, IInv, TypeOK
<1>6. binder'[b] = s /\ \A c \in Binders : c # b => binder'[c] = binder[c]
  BY <1>3 DEF IInv, TypeOK
<1>7. \A c \in Binders : c # b => ~Holds(c)
  BY <1>1 DEF IInv, Alone, Holds
<1>8. TypeOK'
  BY <1>1, <1>2, <1>3, <1>4, <1>5 DEF IInv, TypeOK, BindSteps, Rows
<1>9. Binding'
  BY <1>1, <1>2, <1>3, <1>6, <1>7 DEF IInv, Binding, Loaded, Renamed, Restores, Holds
<1>10. Alone'
  BY <1>3, <1>6, <1>7 DEF Alone, Holds
<1>11. Created' /\ BoundKeepsAccess'
  BY <1>1, <1>2, <1>4 DEF Created, BoundKeepsAccess, IInv
<1> QED
  BY <1>8, <1>9, <1>10, <1>11 DEF IInv

LEMMA VerifyKeeps == \A b \in Binders : IInv /\ VerifyUnbound(b) => IInv'
<1> SUFFICES ASSUME NEW b \in Binders, IInv, VerifyUnbound(b) PROVE IInv'
  OBVIOUS
<1>1. binder[b] = "verify" /\ UNCHANGED <<trial, owner, client, over, creator, cleaner, binds, follower>>
  BY DEF VerifyUnbound
<1>2. PICK s \in {"idle", "restore"} :
        binder' = [binder EXCEPT ![b] = s] /\ (s = "restore" => trial \in Unbound)
  BY DEF VerifyUnbound, Step
<1>3. faults' \in Nat
  BY DEF VerifyUnbound, Fault, IInv, TypeOK
<1>4. binder'[b] = s /\ \A c \in Binders : c # b => binder'[c] = binder[c]
  BY <1>2 DEF IInv, TypeOK
<1>5. TypeOK'
  BY <1>1, <1>2, <1>3 DEF IInv, TypeOK, BindSteps
<1>6. Binding'
  BY <1>1, <1>2, <1>4 DEF IInv, Binding, Loaded, Renamed, Restores, Holds, Unbound
<1>7. Alone'
  BY <1>1, <1>2, <1>4 DEF IInv, Alone, Holds
<1>8. Created' /\ BoundKeepsAccess'
  BY <1>1 DEF IInv, Created, BoundKeepsAccess
<1> QED
  BY <1>5, <1>6, <1>7, <1>8 DEF IInv

(* A client is restored only while the row is free.                           *)
LEMMA RestoreKeeps == \A b \in Binders : IInv /\ RestoreClient(b) => IInv'
<1> SUFFICES ASSUME NEW b \in Binders, IInv, RestoreClient(b) PROVE IInv'
  OBVIOUS
<1>1. /\ binder[b] = "restore" /\ binder' = [binder EXCEPT ![b] = "idle"]
      /\ UNCHANGED <<trial, owner, over, creator, cleaner, binds, follower>>
  BY DEF RestoreClient, Step
<1>2. client' = client \/ client' = TrialEmail
  BY DEF RestoreClient
<1>3. trial # "bound" /\ creator = "done" /\ \A c \in Binders : c # b => ~Holds(c)
  BY <1>1 DEF IInv, Binding, Restores, Created, Alone, Holds
<1>4. faults' \in Nat
  BY DEF RestoreClient, Fault, IInv, TypeOK
<1>5. binder'[b] = "idle" /\ \A c \in Binders : c # b => binder'[c] = binder[c]
  BY <1>1 DEF IInv, TypeOK
<1>6. TypeOK'
  BY <1>1, <1>2, <1>4 DEF IInv, TypeOK, BindSteps, Emails
<1>7. Binding' /\ Alone'
  BY <1>1, <1>3, <1>5 DEF IInv, Binding, Loaded, Renamed, Restores, Alone, Holds
<1>8. Created' /\ BoundKeepsAccess'
  BY <1>1, <1>3 DEF Created, BoundKeepsAccess
<1> QED
  BY <1>6, <1>7, <1>8 DEF IInv

LEMMA StutterKeeps == IInv /\ UNCHANGED vars => IInv'
BY DEF IInv, vars, TypeOK, Binding, Loaded, Renamed, Restores, Holds, Alone, Created, BoundKeepsAccess

LEMMA Invariance == Spec => []IInv
<1>1. IInv /\ [Next]_vars => IInv'
  BY CreateKeeps, CleanKeeps, CrashKeeps, LoadKeeps, RenameKeeps, CommitKeeps, VerifyKeeps,
     RestoreKeeps, StutterKeeps DEF Next, Bind
<1> QED
  BY <1>1, InitHolds, PTL DEF Spec

-----------------------------------------------------------------------------
(* The row, the client and the goroutines keep their types.                   *)
THEOREM TypeCorrect == Spec => []TypeOK
BY Invariance, PTL DEF IInv

(* Once a trial is bound its client is the owner's endless one and stays it,  *)
(* for any number of followers and binders: neither a binder that lost, nor   *)
(* one whose commit was answered with an error, nor the cleanup undoes it     *)
(* (BindTrial, CleanupExpiredTrials).                                         *)
THEOREM BoundTrialKeepsAccess == Spec => []BoundKeepsAccess
BY Invariance, PTL DEF IInv

-----------------------------------------------------------------------------
(* When a removed trial leaves no client behind                              *)

(* A binder's calls about the client are answered, but for the commit, which *)
(* it verifies; and neither the deprovisioning nor a crash comes between a    *)
(* binder's renaming of the client and its end.                              *)
BindsUndisturbed ==
  /\ \A b \in Binders : RenameClient(b) \/ VerifyUnbound(b) \/ RestoreClient(b) => faults' = faults
  /\ Deprovision \/ Crash => \A b \in Binders : ~Holds(b)

(* The client nobody is renaming is the trial's; the cleaner is past it only  *)
(* when it is gone.                                                          *)
TrialsClient ==
  trial \in Unbound /\ (\A b \in Binders : ~Holds(b)) => client \in {TrialEmail, NoClient}
Removing ==
  /\ cleaner # "idle" => trial = "expired"
  /\ cleaner = "delete" \/ trial = "deleted" => client = NoClient

(* The row is inserted with its client on the panel.                         *)
Creating == creator = "insert" => client = TrialEmail

Removal == TrialsClient /\ Removing /\ Creating

LEMMA CreateRemoval == IInv /\ Removal /\ Create => Removal'
<1> SUFFICES ASSUME IInv, Removal, Create PROVE Removal'
  OBVIOUS
<1>1. trial = "absent" /\ UNCHANGED <<binder, cleaner>>
  BY DEF IInv, Created, Create, AddClient, InsertRow, UndoClient
<1>2. trial' \in {"absent", "active"} /\ cleaner' = "idle"
  BY <1>1 DEF Removal, Removing, Create, AddClient, InsertRow, UndoClient
<1>3. trial' = "active" => client' = client
  BY <1>1 DEF Create, AddClient, InsertRow, UndoClient
<1>4. trial' = "active" => client = TrialEmail
  BY <1>1 DEF Create, AddClient, InsertRow, UndoClient, Removal, Creating
<1>5. Creating'
  BY <1>1 DEF Create, AddClient, InsertRow, UndoClient, Creating
<1> QED BY <1>1, <1>2, <1>3, <1>4, <1>5 DEF Removal, TrialsClient, Removing, Unbound

(* The cleanup finds the client under the trial's email, or it is gone.      *)
LEMMA CleanRemoval == IInv /\ Removal /\ BindsUndisturbed /\ (Clean \/ TrialEnds) => Removal'
<1> SUFFICES ASSUME IInv, Removal, BindsUndisturbed, Clean \/ TrialEnds PROVE Removal'
  OBVIOUS
<1>1. binder' = binder
  BY DEF Clean, ClaimExpired, Deprovision, DeleteClaimed, TrialEnds
<1>2. Creating'
  <2>1. cleaner # "idle" => creator = "done"
    BY DEF IInv, Created, Removal, Removing
  <2>2. creator' = creator /\ (client' = client \/ cleaner # "idle")
    BY DEF Clean, ClaimExpired, Deprovision, DeleteClaimed, TrialEnds
  <2> QED BY <2>1, <2>2 DEF Removal, Creating
<1>3. CASE ClaimExpired
  BY <1>1, <1>3, <1>2 DEF ClaimExpired, Removal, TrialsClient, Removing, Unbound, Holds
<1>4. CASE Deprovision
  <2>1. /\ trial = "expired" /\ trial' = trial /\ client \in {TrialEmail, NoClient}
    BY <1>4 DEF Deprovision, BindsUndisturbed, Removal, TrialsClient, Removing, Unbound
  <2>2. client' \in {TrialEmail, NoClient} /\ (cleaner' = "delete" => client' = NoClient)
    BY <1>4, <2>1 DEF Deprovision
  <2> QED BY <2>1, <2>2, <1>2 DEF Removal, TrialsClient, Removing
<1>5. CASE DeleteClaimed
  BY <1>1, <1>5, <1>2 DEF DeleteClaimed, Removal, TrialsClient, Removing, Unbound, Holds
<1>6. CASE TrialEnds
  BY <1>1, <1>6, <1>2 DEF TrialEnds, Removal, TrialsClient, Removing, Unbound, Holds
<1> QED BY <1>3, <1>4, <1>5, <1>6 DEF Clean

LEMMA CrashRemoval == IInv /\ Removal /\ BindsUndisturbed /\ Crash => Removal'
BY DEF Crash, BindsUndisturbed, Removal, TrialsClient, Removing, Creating

(* A binder that has renamed the client either has the row in the end, or     *)
(* gives the client its name back.                                           *)
LEMMA BindRemoval == \A b \in Binders : IInv /\ Removal /\ BindsUndisturbed /\ Bind(b) => Removal'
<1> SUFFICES ASSUME NEW b \in Binders, IInv, Removal, BindsUndisturbed, Bind(b) PROVE Removal'
  OBVIOUS
<1>1. cleaner' = cleaner
  BY DEF Bind, LoadTrial, RenameClient, CommitBinding, VerifyUnbound, RestoreClient
<1>2. \A s : Step(b, s) => binder'[b] = s /\ \A c \in Binders : c # b => binder'[c] = binder[c]
  BY DEF IInv, TypeOK, Step
<1>3. \A c \in Binders : Holds(c) => client # NoClient /\ client # TrialEmail
  BY EmailsDiffer DEF IInv, Binding, Renamed
<1>4. Creating'
  <2>1. creator = "done" /\ creator' = creator
    BY DEF IInv, Created, Unbound, Bind, LoadTrial, RenameClient, CommitBinding, VerifyUnbound,
       RestoreClient
  <2> QED BY <2>1 DEF Creating
<1>5. CASE LoadTrial(b)
  <2>1. binder[b] = "idle" /\ Step(b, "update") /\ UNCHANGED <<trial, client>>
    BY <1>5 DEF LoadTrial
  <2>2. \A c \in Binders : Holds(c)' <=> Holds(c)
    BY <1>2, <2>1 DEF Holds
  <2> QED BY <1>1, <1>4, <2>1, <2>2 DEF Removal, TrialsClient, Removing
<1>6. CASE RenameClient(b)
  <2>1. faults' = faults
    BY <1>6 DEF BindsUndisturbed
  <2>2. binder[b] = "update" /\ trial' = trial
    BY <1>6 DEF RenameClient
  <2>3. CASE client = TrialEmail
    <3>1. Step(b, "commit")
      BY <1>6, <2>1, <2>3 DEF RenameClient, Fault, IInv, TypeOK
    <3>2. Holds(b)'
      BY <1>2, <3>1 DEF Holds
    <3> QED BY <1>1, <1>4, <2>2, <2>3, <3>2, EmailsDiffer DEF Removal, TrialsClient, Removing
  <2>4. CASE client # TrialEmail
    <3>1. Step(b, "idle") /\ client' = client
      BY <1>6, <2>1, <2>4 DEF RenameClient, Fault, IInv, TypeOK
    <3>2. \A c \in Binders : Holds(c)' <=> Holds(c)
      BY <1>2, <2>2, <3>1 DEF Holds
    <3> QED BY <1>1, <1>4, <2>2, <3>1, <3>2 DEF Removal, TrialsClient, Removing
  <2> QED BY <2>3, <2>4
<1>7. CASE CommitBinding(b)
  <2>1. binder[b] = "commit" /\ client' = client /\ Holds(b)
    BY <1>7 DEF CommitBinding, Holds
  <2>2. trial' = "bound" \/ (trial' = trial /\ Step(b, "verify"))
    BY <1>7 DEF CommitBinding
  <2>3. trial' = trial => Holds(b)' \/ trial' = "bound"
    BY <1>2, <2>2 DEF Holds
  <2>4. cleaner # "idle" => trial' = trial
    BY <1>7 DEF CommitBinding, Removal, Removing
  <2> QED BY <1>1, <1>4, <1>3, <2>1, <2>2, <2>3, <2>4 DEF Removal, TrialsClient, Removing, Unbound
<1>8. CASE VerifyUnbound(b)
  <2>1. faults' = faults
    BY <1>8 DEF BindsUndisturbed
  <2>2. binder[b] = "verify" /\ UNCHANGED <<trial, client>>
    BY <1>8 DEF VerifyUnbound
  <2>3. Step(b, IF trial \in Unbound THEN "restore" ELSE "idle")
    BY <1>8, <2>1 DEF VerifyUnbound, Fault, IInv, TypeOK
  <2>4. trial \in Unbound => Holds(b)'
    BY <1>2, <2>3 DEF Holds
  <2> QED BY <1>1, <1>4, <2>2, <2>4 DEF Removal, TrialsClient, Removing
<1>9. CASE RestoreClient(b)
  <2>1. faults' = faults
    BY <1>9 DEF BindsUndisturbed
  <2>2. binder[b] = "restore" /\ trial' = trial /\ Holds(b)
    BY <1>9 DEF RestoreClient, Holds
  <2>3. client = EmailOf(follower[b])
    BY <2>2 DEF IInv, Binding, Renamed
  <2>4. client' = TrialEmail
    BY <1>9, <2>1, <2>3 DEF RestoreClient, Fault, IInv, TypeOK
  <2> QED BY <1>1, <1>4, <1>3, <2>2, <2>4 DEF Removal, TrialsClient, Removing
<1> QED BY <1>5, <1>6, <1>7, <1>8, <1>9 DEF Bind

(* A trial is removed with its client, however many users followed its link, *)
(* however often the cleanup failed and whatever the commits were answered,  *)
(* as long as no binder is interrupted while it holds the client: by the     *)
(* cleanup (which then takes a renamed client for one that is gone), by a    *)
(* crash, or by a call that does not come back.                              *)
THEOREM RemovedWithItsClient == Spec /\ [][BindsUndisturbed]_vars => []NoOrphanedClient
<1>1. IInv /\ Removal /\ [Next]_vars /\ [BindsUndisturbed]_vars => Removal'
  <2> SUFFICES ASSUME IInv, Removal, [Next]_vars, [BindsUndisturbed]_vars PROVE Removal'
    OBVIOUS
  <2>1. CASE UNCHANGED vars
    BY <2>1 DEF vars, Removal, TrialsClient, Removing, Creating, Holds
  <2>2. CASE Next /\ BindsUndisturbed
    BY <2>2, CreateRemoval, CleanRemoval, CrashRemoval, BindRemoval DEF Next
  <2> QED BY <2>1, <2>2
<1>2. Init => Removal
  BY DEF Init, Removal, TrialsClient, Removing, Creating, Unbound
<1>3. Removal => NoOrphanedClient
  BY DEF Removal, Removing, NoOrphanedClient
<1> QED BY <1>1, <1>2, <1>3, Invariance, PTL DEF Spec
=============================================================================
