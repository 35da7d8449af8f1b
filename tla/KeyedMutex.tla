------------------------------ MODULE KeyedMutex ------------------------------
(***************************************************************************)
(* What the two per-key locks of internal/service promise their callers:   *)
(* at most one caller at a time works on a key (a subscription id for      *)
(* SyncService.lockSubscription, a provider payment UUID for               *)
(* OrderService.lockPayment).  Nothing is said here of map entries, tokens *)
(* or waiters: KeyedLock implements this specification with them, and the  *)
(* modules that only need the guarantee use a holder as this one does.     *)
(***************************************************************************)
CONSTANTS Procs,  \* the goroutines that take the lock
          Keys    \* the keys it is taken for

VARIABLE holders  \* Keys -> the callers now working on that key

TypeOK == holders \in [Keys -> SUBSET Procs]

Init == holders = [k \in Keys |-> {}]

Take(p, k) == /\ holders[k] = {}
              /\ holders' = [holders EXCEPT ![k] = {p}]

GiveBack(p, k) == /\ p \in holders[k]
                  /\ holders' = [holders EXCEPT ![k] = @ \ {p}]

Next == \E p \in Procs, k \in Keys : Take(p, k) \/ GiveBack(p, k)

Spec == Init /\ [][Next]_holders
===============================================================================
