---------------------------- MODULE KeyedLockProofs ----------------------------
(***************************************************************************)
(* What KeyedLock guarantees for any number of goroutines, keys and        *)
(* objects.  MutualExclusion is not inductive: that two goroutines do not  *)
(* hold one key rests on there being one token per entry, which rests on   *)
(* every goroutine being at the entry the map has, which rests on the      *)
(* count that decides the entry's deletion being right.  IInv says all of  *)
(* it.                                                                     *)
(***************************************************************************)
EXTENDS KeyedLock, FiniteSetTheorems, TLAPS

IdleFree == \A p \in Procs : pc[p] = "idle" <=> mine[p] = NoObj

OneKeyPerObject == \A j, k \in Keys :
                     locks[j] # NoObj /\ locks[j] = locks[k] => j = k

IInv == /\ TypeOK
        /\ IdleFree
        /\ OneKeyPerObject
        /\ EntryShared
        /\ NoLeak
        /\ TokenConserved
        /\ MutualExclusion

--------------------------------------------------------------------------------
(* The users of an object are a finite set.                                *)
LEMMA UsersFinite == ASSUME NEW o PROVE IsFiniteSet(Users(o))
<1>1. Users(o) \subseteq Procs
  BY DEF Users
<1> QED BY <1>1, ProcsAssumption, FS_Subset

LEMMA InitInv == Init => IInv
BY NoObjAssumption
   DEF Init, IInv, TypeOK, IdleFree, OneKeyPerObject, EntryShared, NoLeak,
       TokenConserved, MutualExclusion, Holders, Users, PcStates

(* lockSubscription up to its select preserves the invariant.              *)
LEMMA EnterInv == ASSUME IInv, NEW p \in Procs, NEW k \in Keys, Enter(p, k)
                  PROVE  IInv'
<1> USE NoObjAssumption
<1>1. mine[p] = NoObj /\ pc[p] = "idle"
  BY DEF IInv, IdleFree, Enter
<1>2. \A j \in Keys : Holders(j)' = Holders(j)
  BY <1>1 DEF Holders, Enter, IInv, TypeOK
<1>3. CASE JoinEntry(p, k)
  <2> DEFINE o == locks[k]
  <2>1. o \in Objs /\ o # NoObj
    BY <1>3 DEF JoinEntry, IInv, TypeOK
  <2>2. Users(o)' = Users(o) \cup {p} /\ p \notin Users(o)
    BY <1>1, <1>3, <2>1 DEF Users, JoinEntry, IInv, TypeOK
  <2>3. Cardinality(Users(o)') = Cardinality(Users(o)) + 1
    BY <2>2, UsersFinite, FS_AddElement
  <2>4. \A j \in Keys : locks[j] # NoObj /\ j # k => /\ Users(locks[j])' = Users(locks[j])
                                                    /\ waiters'[locks[j]] = waiters[locks[j]]
    BY <1>1, <1>3, <2>1 DEF Users, JoinEntry, IInv, TypeOK, OneKeyPerObject
  <2>5. TypeOK' /\ IdleFree' /\ OneKeyPerObject' /\ EntryShared'
    BY <1>3, <2>1 DEF Enter, JoinEntry, IInv, TypeOK, PcStates, IdleFree,
                      OneKeyPerObject, EntryShared
  <2>6. waiters'[o] = waiters[o] + 1
    BY <1>3, <2>1 DEF JoinEntry, IInv, TypeOK
  <2>7. NoLeak'
    <3> SUFFICES ASSUME NEW j \in Keys, locks[j] # NoObj
                 PROVE  /\ Users(locks[j])' # {}
                        /\ waiters'[locks[j]] = Cardinality(Users(locks[j])')
      BY <1>3 DEF NoLeak, JoinEntry, Users
    <3>1. CASE j = k
      BY <3>1, <2>2, <2>3, <2>6 DEF IInv, NoLeak
    <3>2. CASE j # k
      BY <3>2, <2>4 DEF IInv, NoLeak
    <3> QED BY <3>1, <3>2
  <2>8. TokenConserved' /\ MutualExclusion'
    BY <1>2, <1>3 DEF JoinEntry, IInv, TokenConserved, MutualExclusion
  <2> QED BY <2>5, <2>7, <2>8 DEF IInv
<1>4. CASE CreateEntry(p, k)
  <2>1. PICK o \in Objs : /\ Unreferenced(o)
                          /\ locks' = [locks EXCEPT ![k] = o]
                          /\ token' = [token EXCEPT ![o] = TRUE]
                          /\ waiters' = [waiters EXCEPT ![o] = 1]
                          /\ mine' = [mine EXCEPT ![p] = o]
    BY <1>4 DEF CreateEntry
  <2>2. locks[k] = NoObj
    BY <1>4 DEF CreateEntry
  <2>3. Users(o)' = {p}
    BY <2>1 DEF Users, Unreferenced, IInv, TypeOK
  <2>4. \A j \in Keys : j # k => /\ locks'[j] = locks[j]
                                 /\ locks[j] # o
                                 /\ Users(locks[j])' = Users(locks[j]) \/ locks[j] = NoObj
    BY <1>1, <2>1 DEF Users, Unreferenced, IInv, TypeOK
  <2>5. TypeOK' /\ IdleFree' /\ OneKeyPerObject'
    BY <2>1, <2>4 DEF Enter, IInv, TypeOK, PcStates, IdleFree, OneKeyPerObject
  <2>6. EntryShared'
    BY <1>1, <2>1, <2>2 DEF Enter, IInv, TypeOK, EntryShared, IdleFree
  <2>7. NoLeak'
    <3> SUFFICES ASSUME NEW j \in Keys, locks'[j] # NoObj
                 PROVE  /\ Users(locks[j])' # {}
                        /\ waiters'[locks'[j]] = Cardinality(Users(locks[j])')
      BY DEF NoLeak
    <3>1. CASE j = k
      BY <3>1, <2>1, <2>3, FS_Singleton DEF IInv, TypeOK, Users
    <3>2. CASE j # k
      BY <3>2, <2>1, <2>4 DEF IInv, TypeOK, NoLeak, Users
    <3> QED BY <3>1, <3>2
  <2>8. Holders(k) = {}
    BY <2>2 DEF Holders, IInv, EntryShared, IdleFree
  <2>9. TokenConserved' /\ MutualExclusion'
    BY <1>2, <2>1, <2>4, <2>8 DEF IInv, TypeOK, TokenConserved, MutualExclusion
  <2> QED BY <2>5, <2>6, <2>7, <2>9 DEF IInv
<1> QED BY <1>3, <1>4 DEF Enter

(* Receiving the token preserves the invariant: it makes the first holder. *)
LEMMA AcquireInv == ASSUME IInv, NEW p \in Procs, Acquire(p)
                    PROVE  IInv' /\ Abstract!Take(p, key[p])
<1> USE NoObjAssumption
<1>1. locks[key[p]] = mine[p] /\ mine[p] \in Objs /\ mine[p] # NoObj /\ key[p] \in Keys
  BY DEF Acquire, IInv, TypeOK, EntryShared, IdleFree
<1>2. Holders(key[p]) = {}
  BY <1>1 DEF Acquire, IInv, TokenConserved
<1>3. \A k \in Keys : k = key[p] => Holders(k)' = {p}
  BY <1>2 DEF Acquire, Holders, IInv, TypeOK
<1>4. \A k \in Keys : k # key[p] => /\ Holders(k)' = Holders(k)
                                    /\ locks[k] # NoObj => token'[locks[k]] = token[locks[k]]
  BY <1>1 DEF Acquire, Holders, IInv, TypeOK, OneKeyPerObject
<1>5. TypeOK' /\ IdleFree' /\ OneKeyPerObject' /\ EntryShared'
  BY DEF Acquire, IInv, TypeOK, PcStates, IdleFree, OneKeyPerObject, EntryShared
<1>6. NoLeak'
  BY DEF Acquire, IInv, NoLeak, Users
<1>7. TokenConserved'
  BY <1>1, <1>3, <1>4 DEF Acquire, IInv, TypeOK, TokenConserved
<1>8. MutualExclusion'
  BY <1>3, <1>4 DEF IInv, MutualExclusion
<1>9. Abstract!Take(p, key[p])
  BY <1>1, <1>2, <1>3, <1>4 DEF Abstract!Take
<1> QED BY <1>5, <1>6, <1>7, <1>8, <1>9 DEF IInv

(* A waiter that gives up preserves the invariant.                         *)
LEMMA GiveUpInv == ASSUME IInv, NEW p \in Procs, GiveUp(p)
                   PROVE  IInv' /\ \A k \in Keys : Holders(k)' = Holders(k)
<1>1. \A k \in Keys : Holders(k)' = Holders(k)
  BY DEF GiveUp, Holders, IInv, TypeOK
<1>2. TypeOK' /\ IdleFree' /\ OneKeyPerObject' /\ EntryShared'
  BY DEF GiveUp, IInv, TypeOK, PcStates, IdleFree, OneKeyPerObject, EntryShared
<1>3. NoLeak'
  BY DEF GiveUp, IInv, NoLeak, Users
<1>4. TokenConserved' /\ MutualExclusion'
  BY <1>1 DEF GiveUp, IInv, TokenConserved, MutualExclusion
<1> QED BY <1>1, <1>2, <1>3, <1>4 DEF IInv

(* Returning the token preserves the invariant: it is the only holder's.   *)
LEMMA ReturnInv == ASSUME IInv, NEW p \in Procs, Return(p)
                   PROVE  IInv' /\ Abstract!GiveBack(p, key[p])
<1> USE NoObjAssumption
<1>1. locks[key[p]] = mine[p] /\ mine[p] \in Objs /\ mine[p] # NoObj /\ key[p] \in Keys
  BY DEF Return, IInv, TypeOK, EntryShared, IdleFree
<1>2. Holders(key[p]) = {p}
  BY <1>1 DEF Return, IInv, MutualExclusion, Holders
<1>3. \A k \in Keys : k = key[p] => Holders(k)' = {}
  BY <1>2 DEF Return, Holders, IInv, TypeOK
<1>4. \A k \in Keys : k # key[p] => /\ Holders(k)' = Holders(k)
                                    /\ locks[k] # NoObj => token'[locks[k]] = token[locks[k]]
  BY <1>1 DEF Return, Holders, IInv, TypeOK, OneKeyPerObject
<1>5. TypeOK' /\ IdleFree' /\ OneKeyPerObject' /\ EntryShared'
  BY DEF Return, IInv, TypeOK, PcStates, IdleFree, OneKeyPerObject, EntryShared
<1>6. NoLeak'
  BY DEF Return, IInv, NoLeak, Users
<1>7. TokenConserved'
  BY <1>1, <1>3, <1>4 DEF Return, IInv, TypeOK, TokenConserved
<1>8. MutualExclusion'
  BY <1>3, <1>4 DEF IInv, MutualExclusion
<1>9. Abstract!GiveBack(p, key[p])
  BY <1>1, <1>2, <1>3, <1>4 DEF Abstract!GiveBack
<1> QED BY <1>5, <1>6, <1>7, <1>8, <1>9 DEF IInv

(* dropWaiter preserves the invariant: it deletes an entry only when its   *)
(* caller was the object's last user.                                      *)
LEMMA DropWaiterInv == ASSUME IInv, NEW p \in Procs, DropWaiter(p)
                       PROVE  IInv' /\ \A k \in Keys : Holders(k)' = Holders(k)
<1> USE NoObjAssumption
<1>1. PICK o \in Objs : o = mine[p] /\ locks[key[p]] = o /\ o # NoObj /\ key[p] \in Keys
  BY DEF DropWaiter, IInv, TypeOK, EntryShared, IdleFree
<1>2. p \in Users(o) /\ Users(o)' = Users(o) \ {p}
  BY <1>1 DEF DropWaiter, Users, IInv, TypeOK
<1>3. /\ waiters[o] = Cardinality(Users(o))
      /\ Cardinality(Users(o)') = Cardinality(Users(o)) - 1
      /\ Cardinality(Users(o)') \in Nat
  <2>1. IsFiniteSet(Users(o)) /\ IsFiniteSet(Users(o) \ {p})
    BY UsersFinite, FS_RemoveElement
  <2> QED BY <1>1, <1>2, <2>1, FS_RemoveElement, FS_CardinalityType DEF IInv, NoLeak
<1>4. waiters[o] = 1 <=> Users(o)' = {}
  <2>1. IsFiniteSet(Users(o)')
    BY <1>2, UsersFinite, FS_RemoveElement
  <2>2. Cardinality(Users(o)') = 0 <=> Users(o)' = {}
    BY <2>1, FS_EmptySet
  <2>3. waiters[o] \in Int
    BY <1>1 DEF IInv, TypeOK
  <2> QED BY <1>3, <2>2, <2>3
<1>5. \A k \in Keys : Holders(k)' = Holders(k)
  BY DEF DropWaiter, Holders, IInv, TypeOK
<1>6. \A k \in Keys : locks'[k] = IF waiters[o] = 1 /\ k = key[p] THEN NoObj ELSE locks[k]
  BY <1>1 DEF DropWaiter, IInv, TypeOK
<1>7. TypeOK' /\ IdleFree'
  BY <1>1, <1>2, <1>3 DEF DropWaiter, IInv, TypeOK, PcStates, IdleFree
<1>8. OneKeyPerObject'
  BY <1>6 DEF IInv, OneKeyPerObject
<1>9. EntryShared'
  <2> SUFFICES ASSUME NEW q \in Procs, pc'[q] # "idle"
               PROVE  locks'[key'[q]] = mine'[q]
    BY DEF EntryShared
  <2>1. q # p /\ pc[q] # "idle" /\ key'[q] = key[q] /\ mine'[q] = mine[q] /\ key[q] \in Keys
    BY DEF DropWaiter, IInv, TypeOK
  <2>2. locks[key[q]] = mine[q]
    BY <2>1 DEF IInv, EntryShared
  <2>3. mine[q] = o => waiters[o] # 1
    BY <1>4, <2>1 DEF Users
  <2> QED BY <1>1, <1>6, <2>1, <2>2, <2>3
<1>10. NoLeak'
  <2> SUFFICES ASSUME NEW k \in Keys, locks'[k] # NoObj
               PROVE  /\ Users(locks[k])' # {}
                      /\ waiters'[locks'[k]] = Cardinality(Users(locks[k])')
    BY DEF NoLeak
  <2>1. locks'[k] = locks[k]
    BY <1>6
  <2>2. CASE k = key[p]
    <3>1. locks'[k] = o /\ waiters[o] # 1
      BY <1>1, <1>6, <2>2
    <3>2. waiters'[o] = waiters[o] - 1
      BY <1>1 DEF DropWaiter, IInv, TypeOK
    <3>3. Users(locks[k])' = Users(o)'
      BY <1>1, <2>2, <3>1 DEF Users
    <3> QED BY <1>3, <1>4, <3>1, <3>2, <3>3
  <2>3. CASE k # key[p]
    <3>1. locks[k] # o /\ locks[k] # NoObj
      BY <1>1, <2>1, <2>3 DEF IInv, OneKeyPerObject
    <3>2. waiters'[locks[k]] = waiters[locks[k]]
      BY <1>1, <3>1 DEF DropWaiter, IInv, TypeOK
    <3>3. Users(locks[k])' = Users(locks[k])
      BY <1>1, <2>1, <3>1 DEF DropWaiter, Users, IInv, TypeOK
    <3> QED BY <2>1, <3>1, <3>2, <3>3 DEF IInv, NoLeak
  <2> QED BY <2>2, <2>3
<1>11. TokenConserved' /\ MutualExclusion'
  BY <1>5, <1>6 DEF DropWaiter, IInv, TokenConserved, MutualExclusion
<1> QED BY <1>5, <1>7, <1>8, <1>9, <1>10, <1>11 DEF IInv

--------------------------------------------------------------------------------
(* Every step of the lock preserves the invariant.                         *)
LEMMA StepInv == IInv /\ [Next]_vars => IInv'
<1> SUFFICES ASSUME IInv, [Next]_vars PROVE IInv'
  OBVIOUS
<1>1. CASE Next
  BY <1>1, EnterInv, AcquireInv, GiveUpInv, ReturnInv, DropWaiterInv DEF Next
<1>2. CASE UNCHANGED vars
  <2>1. TypeOK' /\ IdleFree' /\ OneKeyPerObject' /\ EntryShared'
    BY <1>2 DEF vars, IInv, TypeOK, IdleFree, OneKeyPerObject, EntryShared
  <2>2. NoLeak'
    BY <1>2 DEF vars, IInv, NoLeak, Users
  <2>3. TokenConserved' /\ MutualExclusion'
    BY <1>2 DEF vars, IInv, TokenConserved, MutualExclusion, Holders
  <2> QED BY <2>1, <2>2, <2>3 DEF IInv
<1> QED BY <1>1, <1>2

(* The strengthened invariant holds in every reachable state.              *)
THEOREM InductiveInvariant == Spec => []IInv
BY InitInv, StepInv, PTL DEF Spec

(* Type correctness, for any goroutines, keys and objects.                 *)
THEOREM TypeCorrect == Spec => []TypeOK
<1>1. IInv => TypeOK
  BY DEF IInv
<1> QED BY <1>1, InductiveInvariant, PTL

(* No two goroutines are ever inside the section of one subscription or    *)
(* one payment.                                                            *)
THEOREM LockIsExclusive == Spec => []MutualExclusion
<1>1. IInv => MutualExclusion
  BY DEF IInv
<1> QED BY <1>1, InductiveInvariant, PTL

(* Map entries are exactly the keys in use: no leak, no early deletion.    *)
THEOREM NoEntryLeaks == Spec => []NoLeak
<1>1. IInv => NoLeak
  BY DEF IInv
<1> QED BY <1>1, InductiveInvariant, PTL

(* The token of an entry is available exactly when nobody holds the key.   *)
THEOREM TokenIsConserved == Spec => []TokenConserved
<1>1. IInv => TokenConserved
  BY DEF IInv
<1> QED BY <1>1, InductiveInvariant, PTL

(* The lock of sync.go and order.go implements the abstract mutex: with it *)
(* the other modules may model a locked section by its holder alone.       *)
THEOREM Refinement == Spec => ImplementsMutex
<1>1. Init => Abstract!Init
  BY DEF Init, Abstract!Init, Holders
<1>2. IInv /\ [Next]_vars => [Abstract!Next]_([k \in Keys |-> Holders(k)])
  <2> SUFFICES ASSUME IInv, [Next]_vars
               PROVE  [Abstract!Next]_([k \in Keys |-> Holders(k)])
    OBVIOUS
  <2>1. ASSUME NEW p \in Procs, NEW k \in Keys, Enter(p, k)
        PROVE  \A j \in Keys : Holders(j)' = Holders(j)
    BY <2>1 DEF Enter, Holders, IInv, TypeOK
  <2>2. ASSUME NEW p \in Procs, Acquire(p) \/ Return(p)
        PROVE  Abstract!Next
    <3>1. key[p] \in Keys
      BY DEF IInv, TypeOK
    <3> QED BY <2>2, <3>1, AcquireInv, ReturnInv DEF Abstract!Next
  <2>3. ASSUME NEW p \in Procs, GiveUp(p) \/ DropWaiter(p)
        PROVE  \A j \in Keys : Holders(j)' = Holders(j)
    BY <2>3, GiveUpInv, DropWaiterInv
  <2>4. CASE UNCHANGED vars
    BY <2>4 DEF vars, Holders
  <2> QED BY <2>1, <2>2, <2>3, <2>4 DEF Next
<1> QED BY <1>1, <1>2, InductiveInvariant, PTL DEF Spec, ImplementsMutex, Abstract!Spec
================================================================================
