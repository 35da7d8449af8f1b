------------------------------- MODULE KeyedLock -------------------------------
(***************************************************************************)
(* The per-key lock of internal/service: SyncService.lockSubscription /    *)
(* dropWaiter (sync.go) and its twin OrderService.lockPayment /            *)
(* dropPaymentWaiter (order.go).  A map holds one lock object per key in   *)
(* use; the object is a capacity-1 channel whose only token makes its      *)
(* owner the holder, and a count of the goroutines that wait for or hold   *)
(* it.  The last one out deletes the map entry, so that the map does not   *)
(* grow with every key ever locked.  A goroutine waits no longer than its  *)
(* timeout, and a waiter that gives up must not return the token.          *)
(*                                                                         *)
(* Objs stands for the heap: an object nobody references may be reused,    *)
(* as after a garbage collection.                                          *)
(***************************************************************************)
EXTENDS Integers, FiniteSets

CONSTANTS Procs,   \* the goroutines
          Keys,    \* subscription ids, or provider payment ids
          Objs,    \* lock objects
          NoObj    \* no object: an absent map entry, a nil pointer

ASSUME NoObjAssumption == NoObj \notin Objs
ASSUME ProcsAssumption == IsFiniteSet(Procs)

VARIABLES locks,    \* the map: Keys -> Objs \cup {NoObj}
          token,    \* Objs -> TRUE when the channel holds the token
          waiters,  \* Objs -> the waiters field
          pc,       \* where each goroutine is in the lock's code
          mine,     \* the object its variable l points to
          key       \* the key it locks

vars == <<locks, token, waiters, pc, mine, key>>

\* "waiting" at the select, "holding" between the token's receipt and its
\* return, "leaving" between that point (or the timeout) and dropWaiter.
PcStates == {"idle", "waiting", "holding", "leaving"}

TypeOK == /\ locks \in [Keys -> Objs \cup {NoObj}]
          /\ token \in [Objs -> BOOLEAN]
          /\ waiters \in [Objs -> Nat]
          /\ pc \in [Procs -> PcStates]
          /\ mine \in [Procs -> Objs \cup {NoObj}]
          /\ key \in [Procs -> Keys]

Init == /\ locks = [k \in Keys |-> NoObj]
        /\ token = [o \in Objs |-> FALSE]
        /\ waiters = [o \in Objs |-> 0]
        /\ pc = [p \in Procs |-> "idle"]
        /\ mine = [p \in Procs |-> NoObj]
        /\ key \in [Procs -> Keys]

Unreferenced(o) == /\ \A k \in Keys : locks[k] # o
                   /\ \A p \in Procs : mine[p] # o

Users(o) == {p \in Procs : mine[p] = o}

--------------------------------------------------------------------------------
(* Under locksMu: find the entry or create it with its token, and count    *)
(* oneself in.                                                             *)
JoinEntry(p, k) ==
  /\ locks[k] # NoObj
  /\ waiters' = [waiters EXCEPT ![locks[k]] = @ + 1]
  /\ mine' = [mine EXCEPT ![p] = locks[k]]
  /\ UNCHANGED <<locks, token>>

CreateEntry(p, k) ==
  /\ locks[k] = NoObj
  /\ \E o \in Objs :
       /\ Unreferenced(o)
       /\ locks' = [locks EXCEPT ![k] = o]
       /\ token' = [token EXCEPT ![o] = TRUE]
       /\ waiters' = [waiters EXCEPT ![o] = 1]
       /\ mine' = [mine EXCEPT ![p] = o]

Enter(p, k) ==
  /\ pc[p] = "idle"
  /\ pc' = [pc EXCEPT ![p] = "waiting"]
  /\ key' = [key EXCEPT ![p] = k]
  /\ JoinEntry(p, k) \/ CreateEntry(p, k)

(* The select's first arm: the token is received.                          *)
Acquire(p) ==
  /\ pc[p] = "waiting"
  /\ token[mine[p]]
  /\ token' = [token EXCEPT ![mine[p]] = FALSE]
  /\ pc' = [pc EXCEPT ![p] = "holding"]
  /\ UNCHANGED <<locks, waiters, mine, key>>

(* The select's second arm: the deadline passed or the caller's context    *)
(* was cancelled.  It may be taken although the token is there too.        *)
GiveUpKeepingCount(p) ==      \* the timeout arm without its dropWaiter
  /\ pc[p] = "waiting"
  /\ pc' = [pc EXCEPT ![p] = "idle"]
  /\ mine' = [mine EXCEPT ![p] = NoObj]
  /\ UNCHANGED <<locks, token, waiters, key>>

GiveUpReturningToken(p) ==    \* the timeout arm returns a token it never had
  /\ pc[p] = "waiting"
  /\ token' = [token EXCEPT ![mine[p]] = TRUE]
  /\ pc' = [pc EXCEPT ![p] = "leaving"]
  /\ UNCHANGED <<locks, waiters, mine, key>>

GiveUpDroppingTwice(p) ==     \* the timeout arm counts out, dropWaiter does too
  /\ pc[p] = "waiting"
  /\ waiters' = [waiters EXCEPT ![mine[p]] = @ - 1]
  /\ pc' = [pc EXCEPT ![p] = "leaving"]
  /\ UNCHANGED <<locks, token, mine, key>>

NeverGiveUp(p) == FALSE /\ UNCHANGED vars   \* the select has one arm only

GiveUp(p) ==
  /\ pc[p] = "waiting"
  /\ pc' = [pc EXCEPT ![p] = "leaving"]
  /\ UNCHANGED <<locks, token, waiters, mine, key>>

(* The unlock function's first half: the token goes back to the channel    *)
(* (which has room: see TokenConserved).                                   *)
Return(p) ==
  /\ pc[p] = "holding"
  /\ ~token[mine[p]]
  /\ token' = [token EXCEPT ![mine[p]] = TRUE]
  /\ pc' = [pc EXCEPT ![p] = "leaving"]
  /\ UNCHANGED <<locks, waiters, mine, key>>

(* dropWaiter, under locksMu: the last user of the object deletes the map  *)
(* entry of its key.                                                       *)
DropAlwaysDeleting(p) ==     \* the entry goes with every user
  /\ pc[p] = "leaving"
  /\ waiters' = [waiters EXCEPT ![mine[p]] = @ - 1]
  /\ locks' = [locks EXCEPT ![key[p]] = NoObj]
  /\ pc' = [pc EXCEPT ![p] = "idle"]
  /\ mine' = [mine EXCEPT ![p] = NoObj]
  /\ UNCHANGED <<token, key>>

DropTestingFirst(p) ==       \* the count is tested before it is decremented
  /\ pc[p] = "leaving"
  /\ waiters' = [waiters EXCEPT ![mine[p]] = @ - 1]
  /\ locks' = IF waiters[mine[p]] = 0 THEN [locks EXCEPT ![key[p]] = NoObj]
                                      ELSE locks
  /\ pc' = [pc EXCEPT ![p] = "idle"]
  /\ mine' = [mine EXCEPT ![p] = NoObj]
  /\ UNCHANGED <<token, key>>

DropWaiter(p) ==
  /\ pc[p] = "leaving"
  /\ waiters' = [waiters EXCEPT ![mine[p]] = @ - 1]
  /\ locks' = IF waiters[mine[p]] = 1 THEN [locks EXCEPT ![key[p]] = NoObj]
                                      ELSE locks
  /\ pc' = [pc EXCEPT ![p] = "idle"]
  /\ mine' = [mine EXCEPT ![p] = NoObj]
  /\ UNCHANGED <<token, key>>

Next == \E p \in Procs : \/ \E k \in Keys : Enter(p, k)
                         \/ Acquire(p)
                         \/ GiveUp(p)
                         \/ Return(p)
                         \/ DropWaiter(p)

Spec == Init /\ [][Next]_vars

(* The timer fires and a leaving goroutine runs on.  Nothing is assumed of *)
(* a holder: it may be stuck in a call to a panel.                         *)
Fairness == \A p \in Procs : WF_vars(GiveUp(p) \/ DropWaiter(p))

FairSpec == Spec /\ Fairness

--------------------------------------------------------------------------------
Holders(k) == {p \in Procs : pc[p] = "holding" /\ key[p] = k}

(* Two goroutines are never both inside the section a key protects, in     *)
(* spite of entries being deleted and recreated while others time out: the *)
(* sync worker and a payment callback never run the passes of one          *)
(* subscription at once.                                                   *)
MutualExclusion == \A k \in Keys : \A p, q \in Holders(k) : p = q

(* The object a goroutine waits on or holds is the one the map gives to    *)
(* the next caller for its key: nobody is left on an orphaned object.      *)
EntryShared == \A p \in Procs : pc[p] # "idle" => locks[key[p]] = mine[p]

(* The map's entries are the keys in use: the count that decides the       *)
(* deletion is the number of goroutines at the object, so an entry is      *)
(* neither kept for ever nor deleted under somebody.                       *)
NoLeak == \A k \in Keys :
            locks[k] # NoObj => /\ Users(locks[k]) # {}
                                /\ waiters[locks[k]] = Cardinality(Users(locks[k]))

(* The token of an entry is in its channel exactly when nobody holds the   *)
(* key: it is never lost to a waiter that timed out, nor doubled by one    *)
(* ("Never return the token here"), and unlock never blocks on a full      *)
(* channel.                                                                *)
TokenConserved == \A k \in Keys :
                    locks[k] # NoObj => (token[locks[k]] <=> Holders(k) = {})

(* A stuck holder cannot block the other goroutines of its key for ever:   *)
(* no wait lasts.                                                          *)
StuckHolderDoesNotBlock == \A p \in Procs : []<>(pc[p] # "waiting")

(* The lock does what KeyedMutex promises: a key is taken when nobody      *)
(* works on it and given back by whoever took it, and by nobody else.      *)
Abstract == INSTANCE KeyedMutex WITH holders <- [k \in Keys |-> Holders(k)]
ImplementsMutex == Abstract!Spec
================================================================================
