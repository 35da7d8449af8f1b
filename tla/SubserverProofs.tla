--------------------------- MODULE SubserverProofs ---------------------------
(***************************************************************************)
(* The safety properties of the subscription server, for any requests,       *)
(* formats, nodes and bounds.                                                *)
(*                                                                           *)
(* Three things carry those of the cache: a flight has one leader until it   *)
(* is published, whoever has read the row as live was entitled at that       *)
(* moment, and while a request is between its reading of the device list and *)
(* its writing only a service changes the list, and leaves a mark. A profile *)
(* is sound because every name given so far is the server's remark or a      *)
(* positional one, of which there are more than servers. The log is flushed  *)
(* because its entrance closes first, and its file only when the queue is    *)
(* empty or the deadline has passed.                                         *)
(***************************************************************************)
EXTENDS Subserver, FiniteSetTheorems, WellFoundedInduction, TLAPS

(* What the steps below take for granted of the variables' shape.            *)
Shape ==
  /\ pc \in [Requests -> Pcs] /\ fmt \in [Requests -> Formats]
  /\ flight \in [Formats -> Requests \cup {NoRequest}]
  /\ cache = [f \in Formats |-> cache[f]]
  /\ copy = [r \in Requests |-> copy[r]]
  /\ answer = [r \in Requests |-> answer[r]]
  /\ entitled \in [Requests -> BOOLEAN]
  /\ live \in BOOLEAN /\ rewritten \in BOOLEAN

(* A flight's leader until the flight is out of the map.                     *)
Leads(r) == pc[r] \in {"check", "fetch", "store", "publish"} => flight[fmt[r]] = r
Fetches(r) == pc[r] \in {"fetch", "store"} => ~Fresh(fmt[r])

(* The row was live when it was loaded, or since.                            *)
Admitted(r) ==
  pc[r] \in {"record", "join", "wait", "check", "fetch", "store", "publish", "close"} =>
     entitled[r]
Current(r) == live /\ pc[r] \notin {"idle", "done"} => entitled[r]
Refused(r) == pc[r] = "drop" => answer[r].kind # "body"
Served(r) == pc[r] = "reply" /\ answer[r].kind = "body" => entitled[r]

(* Whoever loads and records holds the lock, over the list it loaded.        *)
HoldsLock(r) == pc[r] \in {"load", "record"} => locked = r
ListKept(r) == pc[r] = "record" /\ ~rewritten => copy[r].devices = devices

Good(r) == /\ Leads(r) /\ Fetches(r) /\ Admitted(r) /\ Current(r) /\ Refused(r)
           /\ Served(r) /\ HoldsLock(r) /\ ListKept(r)

IInv == Shape /\ DevicesInOrder /\ \A r \in Requests : Good(r)

LEMMA InitHolds == Init => IInv
<1> SUFFICES ASSUME Init PROVE IInv
  OBVIOUS
<1>1. Shape
  BY DEF Init, Shape, Pcs
<1>2. DevicesInOrder
  BY DEF Init, DevicesInOrder
<1>3. ASSUME NEW r \in Requests PROVE Good(r)
  BY DEF Init, Good, Leads, Fetches, Admitted, Current, Refused, Served, HoldsLock, ListKept
<1> QED
  BY <1>1, <1>2, <1>3 DEF IInv

(* What an action must leave alone for another request q.                    *)
Same(q) ==
  /\ pc'[q] = pc[q] /\ fmt'[q] = fmt[q] /\ answer'[q] = answer[q]
  /\ entitled'[q] = entitled[q] /\ copy'[q] = copy[q]
Apart(q) ==
  /\ pc[q] \in {"check", "fetch", "store", "publish"} => flight'[fmt[q]] = flight[fmt[q]]
  /\ pc[q] \in {"fetch", "store"} => (Fresh(fmt[q])' => Fresh(fmt[q]))
  /\ live' = live
  /\ pc[q] \in {"load", "record"} => locked' = locked
  /\ pc[q] = "record" => devices' = devices /\ rewritten' = rewritten

LEMMA OthersKeep ==
  ASSUME NEW q \in Requests, Good(q), Same(q), Apart(q) PROVE Good(q)'
<1>1. (Leads(q) /\ Admitted(q) /\ Current(q))'
  BY DEF Good, Leads, Admitted, Current, Same, Apart
<1>2. Fetches(q)'
  BY DEF Good, Fetches, Same, Apart, Fresh
<1>3. (Refused(q) /\ Served(q))'
  BY DEF Good, Refused, Served, Same
<1>4. (HoldsLock(q) /\ ListKept(q))'
  BY DEF Good, HoldsLock, ListKept, Same, Apart
<1> QED
  BY <1>1, <1>2, <1>3, <1>4 DEF Good

LEMMA AskKeeps == \A r \in Requests : IInv /\ Ask(r) => IInv'
<1> SUFFICES ASSUME NEW r \in Requests, IInv, Ask(r) PROVE IInv'
  OBVIOUS
<1>1. Shape'
  BY DEF IInv, Shape, Ask, Goto, row, column, Pcs
<1>2. DevicesInOrder'
  BY DEF IInv, DevicesInOrder, Ask, row, column
<1>3. Good(r)'
  BY SubserverAssumption DEF IInv, Shape, Good, Leads, Fetches, Admitted, Current, Refused,
                             Served, HoldsLock, ListKept, Ask, Goto, row, column
<1>4. ASSUME NEW q \in Requests, q # r PROVE Good(q)'
  <2>1. Same(q)
    BY <1>4 DEF IInv, Shape, Same, Ask, Goto
  <2>2. Apart(q)
    BY <1>4, SubserverAssumption DEF IInv, Shape, Apart, Fresh, Ask, Goto, row, column
  <2> QED
    BY <2>1, <2>2, OthersKeep DEF IInv
<1> QED
  BY <1>1, <1>2, <1>3, <1>4 DEF IInv

LEMMA CacheGetKeeps == \A r \in Requests : IInv /\ CacheGet(r) => IInv'
<1> SUFFICES ASSUME NEW r \in Requests, IInv, CacheGet(r) PROVE IInv'
  OBVIOUS
<1>1. Shape'
  BY DEF IInv, Shape, CacheGet, Goto, Answer, Body, row, column, Pcs
<1>2. DevicesInOrder'
  BY DEF IInv, DevicesInOrder, CacheGet, row, column
<1>3. Good(r)'
  BY SubserverAssumption DEF IInv, Shape, Good, Leads, Fetches, Admitted, Current, Refused,
                             Served, HoldsLock, ListKept, CacheGet, Goto, Answer, Body, row, column
<1>4. ASSUME NEW q \in Requests, q # r PROVE Good(q)'
  <2>1. Same(q)
    BY <1>4 DEF IInv, Shape, Same, CacheGet, Goto, Answer, Body
  <2>2. Apart(q)
    BY <1>4, SubserverAssumption DEF IInv, Shape, Apart, Fresh, CacheGet, Goto, Answer, Body,
                                     row, column
  <2> QED
    BY <2>1, <2>2, OthersKeep DEF IInv
<1> QED
  BY <1>1, <1>2, <1>3, <1>4 DEF IInv

LEMMA RevalidateKeeps == \A r \in Requests : IInv /\ Revalidate(r) => IInv'
<1> SUFFICES ASSUME NEW r \in Requests, IInv, Revalidate(r) PROVE IInv'
  OBVIOUS
<1>1. Shape'
  BY DEF IInv, Shape, Revalidate, Goto, Answer, Failure, Fault, row, column, Pcs
<1>2. DevicesInOrder'
  BY DEF IInv, DevicesInOrder, Revalidate, row, column
<1>3. Good(r)'
  BY SubserverAssumption DEF IInv, Shape, Good, Leads, Fetches, Admitted, Current, Refused,
                             Served, HoldsLock, ListKept, Revalidate, Goto, Answer, Failure,
                             Fault, row, column
<1>4. ASSUME NEW q \in Requests, q # r PROVE Good(q)'
  <2>1. Same(q)
    BY <1>4 DEF IInv, Shape, Same, Revalidate, Goto, Answer, Failure, Fault
  <2>2. Apart(q)
    BY <1>4, SubserverAssumption DEF IInv, Shape, Apart, Fresh, Revalidate, Goto, Answer, Failure,
                                     Fault, row, column
  <2> QED
    BY <2>1, <2>2, OthersKeep DEF IInv
<1> QED
  BY <1>1, <1>2, <1>3, <1>4 DEF IInv

LEMMA DropKeyKeeps == \A r \in Requests : IInv /\ DropKey(r) => IInv'
<1> SUFFICES ASSUME NEW r \in Requests, IInv, DropKey(r) PROVE IInv'
  OBVIOUS
<1>1. Shape'
  BY DEF IInv, Shape, DropKey, Goto, Fresh, None, row, column, Pcs
<1>2. DevicesInOrder'
  BY DEF IInv, DevicesInOrder, DropKey, row, column
<1>3. Good(r)'
  BY SubserverAssumption DEF IInv, Shape, Good, Leads, Fetches, Admitted, Current, Refused,
                             Served, HoldsLock, ListKept, DropKey, Goto, Fresh, None, row, column
<1>4. ASSUME NEW q \in Requests, q # r PROVE Good(q)'
  <2>1. Same(q)
    BY <1>4 DEF IInv, Shape, Same, DropKey, Goto, Fresh, None
  <2>2. Apart(q)
    BY <1>4, SubserverAssumption DEF IInv, Shape, Apart, Fresh, DropKey, Goto, Fresh, None,
                                     row, column
  <2> QED
    BY <2>1, <2>2, OthersKeep DEF IInv
<1> QED
  BY <1>1, <1>2, <1>3, <1>4 DEF IInv

LEMMA LockKeeps == \A r \in Requests : IInv /\ Lock(r) => IInv'
<1> SUFFICES ASSUME NEW r \in Requests, IInv, Lock(r) PROVE IInv'
  OBVIOUS
<1>1. Shape'
  BY DEF IInv, Shape, Lock, Goto, row, column, Pcs
<1>2. DevicesInOrder'
  BY DEF IInv, DevicesInOrder, Lock, row, column
<1>3. Good(r)'
  BY SubserverAssumption DEF IInv, Shape, Good, Leads, Fetches, Admitted, Current, Refused,
                             Served, HoldsLock, ListKept, Lock, Goto, row, column
<1>4. ASSUME NEW q \in Requests, q # r PROVE Good(q)'
  <2>1. Same(q)
    BY <1>4 DEF IInv, Shape, Same, Lock, Goto
  <2>2. Apart(q)
    BY <1>4, SubserverAssumption DEF IInv, Shape, Apart, Fresh, Good, HoldsLock, Lock, Goto,
                                     row, column
  <2> QED
    BY <2>1, <2>2, OthersKeep DEF IInv
<1> QED
  BY <1>1, <1>2, <1>3, <1>4 DEF IInv

LEMMA LoadKeeps == \A r \in Requests : IInv /\ Load(r) => IInv'
<1> SUFFICES ASSUME NEW r \in Requests, IInv, Load(r) PROVE IInv'
  OBVIOUS
<1>1. Shape'
  BY DEF IInv, Shape, Load, Goto, Answer, Failure, Fault, row, column, Pcs
<1>2. DevicesInOrder'
  BY DEF IInv, DevicesInOrder, Load, row, column
<1>3. Good(r)'
  BY SubserverAssumption DEF IInv, Shape, Good, Leads, Fetches, Admitted, Current, Refused,
                             Served, HoldsLock, ListKept, Load, Goto, Answer, Failure, Fault,
                             row, column
<1>4. ASSUME NEW q \in Requests, q # r PROVE Good(q)'
  <2>1. Same(q)
    BY <1>4 DEF IInv, Shape, Same, Load, Goto, Answer, Failure, Fault
  <2>2. Apart(q)
    BY <1>4, SubserverAssumption DEF IInv, Shape, Apart, Fresh, Good, HoldsLock, Load, Goto,
                                     Answer, Failure, Fault, row, column
  <2> QED
    BY <2>1, <2>2, OthersKeep DEF IInv
<1> QED
  BY <1>1, <1>2, <1>3, <1>4 DEF IInv

(* Nobody else is between its reading and its writing of the list.           *)
LEMMA RecordKeeps == \A r \in Requests : IInv /\ Record(r) => IInv'
<1> SUFFICES ASSUME NEW r \in Requests, IInv, Record(r) PROVE IInv'
  OBVIOUS
<1>1. Shape'
  BY DEF IInv, Shape, Record, Goto, Fault, row, column, Pcs
<1>2. DevicesInOrder'
  BY DEF IInv, Good, HoldsLock, ListKept, DevicesInOrder, Record, row, column
<1>3. Good(r)'
  BY SubserverAssumption DEF IInv, Shape, Good, Leads, Fetches, Admitted, Current, Refused,
                             Served, HoldsLock, ListKept, Record, Goto, Fault, row, column
<1>4. ASSUME NEW q \in Requests, q # r PROVE Good(q)'
  <2>1. Same(q)
    BY <1>4 DEF IInv, Shape, Same, Record, Goto, Fault
  <2>2. Apart(q)
    BY <1>4, SubserverAssumption DEF IInv, Shape, Apart, Fresh, Good, HoldsLock, Record, Goto,
                                     Fault, row, column
  <2> QED
    BY <2>1, <2>2, OthersKeep DEF IInv
<1> QED
  BY <1>1, <1>2, <1>3, <1>4 DEF IInv

LEMMA JoinKeeps == \A r \in Requests : IInv /\ Join(r) => IInv'
<1> SUFFICES ASSUME NEW r \in Requests, IInv, Join(r) PROVE IInv'
  OBVIOUS
<1>1. Shape'
  BY DEF IInv, Shape, Join, Goto, row, column, Pcs
<1>2. DevicesInOrder'
  BY DEF IInv, DevicesInOrder, Join, row, column
<1>3. Good(r)'
  BY SubserverAssumption DEF IInv, Shape, Good, Leads, Fetches, Admitted, Current, Refused,
                             Served, HoldsLock, ListKept, Join, Goto, row, column
<1>4. ASSUME NEW q \in Requests, q # r PROVE Good(q)'
  <2>1. Same(q)
    BY <1>4 DEF IInv, Shape, Same, Join, Goto
  <2>2. pc[q] \in {"check", "fetch", "store", "publish"} => flight'[fmt[q]] = flight[fmt[q]]
    <3>1. Leads(q) /\ fmt[q] \in Formats /\ fmt[r] \in Formats
      BY DEF IInv, Shape, Good
    <3>2. flight[fmt[r]] # NoRequest => flight' = flight
      BY DEF Join
    <3>3. fmt[q] # fmt[r] => flight'[fmt[q]] = flight[fmt[q]]
      BY <3>1 DEF IInv, Shape, Join
    <3> QED
      BY <3>1, <3>2, <3>3, SubserverAssumption DEF Leads
  <2>3. Apart(q)
    BY <2>2 DEF Apart, Fresh, Join, row, column
  <2> QED
    BY <2>1, <2>3, OthersKeep DEF IInv
<1> QED
  BY <1>1, <1>2, <1>3, <1>4 DEF IInv

(* Only the leader goes on to fetch, and only without a valid answer.        *)
LEMMA CheckAgainKeeps == \A r \in Requests : IInv /\ CheckAgain(r) => IInv'
<1> SUFFICES ASSUME NEW r \in Requests, IInv, CheckAgain(r) PROVE IInv'
  OBVIOUS
<1>1. Shape'
  BY DEF IInv, Shape, CheckAgain, Goto, Answer, Body, Fresh, row, column, Pcs
<1>2. DevicesInOrder'
  BY DEF IInv, DevicesInOrder, CheckAgain, row, column
<1>3. Good(r)'
  <2>1. /\ pc[r] = "check" /\ pc'[r] \in {"publish", "fetch"} /\ (pc'[r] = "fetch" => ~Fresh(fmt[r]))
        /\ UNCHANGED <<fmt, cache, flight, entitled, live>>
    BY DEF IInv, Shape, CheckAgain, Goto, Answer, row, column
  <2>2. flight[fmt[r]] = r /\ entitled[r]
    BY <2>1 DEF IInv, Good, Leads, Admitted
  <2> QED
    BY <2>1, <2>2 DEF Good, Leads, Fetches, Admitted, Current, Refused, Served, HoldsLock, ListKept,
                      Fresh
<1>4. ASSUME NEW q \in Requests, q # r PROVE Good(q)'
  <2>1. Same(q)
    BY <1>4 DEF IInv, Shape, Same, CheckAgain, Goto, Answer, Body, Fresh
  <2>2. Apart(q)
    BY <1>4, SubserverAssumption DEF IInv, Shape, Apart, Fresh, CheckAgain, Goto, Answer, Body,
                                     Fresh, row, column
  <2> QED
    BY <2>1, <2>2, OthersKeep DEF IInv
<1> QED
  BY <1>1, <1>2, <1>3, <1>4 DEF IInv

LEMMA FetchKeeps == \A r \in Requests : IInv /\ Fetch(r) => IInv'
<1> SUFFICES ASSUME NEW r \in Requests, IInv, Fetch(r) PROVE IInv'
  OBVIOUS
<1>1. Shape'
  BY DEF IInv, Shape, Fetch, Goto, Answer, Body, Failure, row, column, Pcs
<1>2. DevicesInOrder'
  BY DEF IInv, DevicesInOrder, Fetch, row, column
<1>3. Good(r)'
  <2>1. /\ pc'[r] \in {"store", "publish"}
        /\ UNCHANGED <<live, cache, flight, fmt, entitled>>
    BY DEF IInv, Shape, Fetch, Goto, Answer, row, column
  <2>2. flight[fmt[r]] = r /\ ~Fresh(fmt[r]) /\ entitled[r]
    BY DEF IInv, Good, Leads, Fetches, Admitted, Fetch
  <2> QED
    BY <2>1, <2>2 DEF Good, Leads, Fetches, Admitted, Current, Refused, Served, HoldsLock,
                      ListKept, Fresh
<1>4. ASSUME NEW q \in Requests, q # r PROVE Good(q)'
  <2>1. Same(q)
    BY <1>4 DEF IInv, Shape, Same, Fetch, Goto, Answer, Body, Failure
  <2>2. Apart(q)
    BY <1>4, SubserverAssumption DEF IInv, Shape, Apart, Fresh, Fetch, Goto, Answer, Body,
                                     Failure, row, column
  <2> QED
    BY <2>1, <2>2, OthersKeep DEF IInv
<1> QED
  BY <1>1, <1>2, <1>3, <1>4 DEF IInv

LEMMA PanicsKeeps == \A r \in Requests : IInv /\ Panics(r) => IInv'
<1> SUFFICES ASSUME NEW r \in Requests, IInv, Panics(r) PROVE IInv'
  OBVIOUS
<1>1. Shape'
  BY DEF IInv, Shape, Panics, Goto, Answer, Failure, Fault, row, column, Pcs
<1>2. DevicesInOrder'
  BY DEF IInv, DevicesInOrder, Panics, row, column
<1>3. Good(r)'
  BY SubserverAssumption DEF IInv, Shape, Good, Leads, Fetches, Admitted, Current, Refused,
                             Served, HoldsLock, ListKept, Panics, Goto, Answer, Failure, Fault,
                             row, column
<1>4. ASSUME NEW q \in Requests, q # r PROVE Good(q)'
  <2>1. Same(q)
    BY <1>4 DEF IInv, Shape, Same, Panics, Goto, Answer, Failure, Fault
  <2>2. Apart(q)
    BY <1>4, SubserverAssumption DEF IInv, Shape, Apart, Fresh, Panics, Goto, Answer, Failure,
                                     Fault, row, column
  <2> QED
    BY <2>1, <2>2, OthersKeep DEF IInv
<1> QED
  BY <1>1, <1>2, <1>3, <1>4 DEF IInv

(* Another leader of the format would have to be this one.                   *)
LEMMA StoreKeeps == \A r \in Requests : IInv /\ Store(r) => IInv'
<1> SUFFICES ASSUME NEW r \in Requests, IInv, Store(r) PROVE IInv'
  OBVIOUS
<1>1. Shape'
  BY DEF IInv, Shape, Store, Goto, Fresh, row, column, Pcs
<1>2. DevicesInOrder'
  BY DEF IInv, DevicesInOrder, Store, row, column
<1>3. Good(r)'
  BY SubserverAssumption DEF IInv, Shape, Good, Leads, Fetches, Admitted, Current, Refused,
                             Served, HoldsLock, ListKept, Store, Goto, Fresh, row, column
<1>4. ASSUME NEW q \in Requests, q # r PROVE Good(q)'
  <2>1. Same(q)
    BY <1>4 DEF IInv, Shape, Same, Store, Goto, Fresh
  <2>2. Apart(q)
    BY <1>4, SubserverAssumption DEF IInv, Shape, Apart, Fresh, Good, Leads, Store, Goto, Fresh,
                                     row, column
  <2> QED
    BY <2>1, <2>2, OthersKeep DEF IInv
<1> QED
  BY <1>1, <1>2, <1>3, <1>4 DEF IInv

LEMMA PublishKeeps == \A r \in Requests : IInv /\ Publish(r) => IInv'
<1> SUFFICES ASSUME NEW r \in Requests, IInv, Publish(r) PROVE IInv'
  OBVIOUS
<1>1. Shape'
  BY DEF IInv, Shape, Publish, Goto, row, column, Pcs
<1>2. DevicesInOrder'
  BY DEF IInv, DevicesInOrder, Publish, row, column
<1>3. Good(r)'
  BY SubserverAssumption DEF IInv, Shape, Good, Leads, Fetches, Admitted, Current, Refused,
                             Served, HoldsLock, ListKept, Publish, Goto, row, column
<1>4. ASSUME NEW q \in Requests, q # r PROVE Good(q)'
  <2>1. Same(q)
    BY <1>4 DEF IInv, Shape, Same, Publish, Goto
  <2>2. Apart(q)
    BY <1>4, SubserverAssumption DEF IInv, Shape, Apart, Fresh, Good, Leads, Publish, Goto,
                                     row, column
  <2> QED
    BY <2>1, <2>2, OthersKeep DEF IInv
<1> QED
  BY <1>1, <1>2, <1>3, <1>4 DEF IInv

LEMMA ReplyKeeps == \A r \in Requests : IInv /\ Reply(r) => IInv'
<1> SUFFICES ASSUME NEW r \in Requests, IInv, Reply(r) PROVE IInv'
  OBVIOUS
<1>1. Shape'
  BY DEF IInv, Shape, Reply, Goto, Answer, row, column, Pcs
<1>2. DevicesInOrder'
  BY DEF IInv, DevicesInOrder, Reply, row, column
<1>3. Good(r)'
  BY SubserverAssumption DEF IInv, Shape, Good, Leads, Fetches, Admitted, Current, Refused,
                             Served, HoldsLock, ListKept, Reply, Goto, Answer, row, column
<1>4. ASSUME NEW q \in Requests, q # r PROVE Good(q)'
  <2>1. Same(q)
    BY <1>4 DEF IInv, Shape, Same, Reply, Goto, Answer
  <2>2. Apart(q)
    BY <1>4, SubserverAssumption DEF IInv, Shape, Apart, Fresh, Reply, Goto, Answer, row, column
  <2> QED
    BY <2>1, <2>2, OthersKeep DEF IInv
<1> QED
  BY <1>1, <1>2, <1>3, <1>4 DEF IInv

(* Followers are admitted themselves before they wait.                       *)
LEMMA CloseKeeps == \A r \in Requests : IInv /\ Close(r) => IInv'
<1> SUFFICES ASSUME NEW r \in Requests, IInv, Close(r) PROVE IInv'
  OBVIOUS
<1>1. /\ UNCHANGED <<live, cache, flight, locked, devices, seen, rewritten, fmt, copy,
                    entitled>>
      /\ pc[r] = "close"
  BY DEF Close, row, column
<1>2. Shape'
  BY <1>1 DEF IInv, Shape, Close, Pcs
<1>3. DevicesInOrder'
  BY <1>1 DEF IInv, DevicesInOrder
<1>4. ASSUME NEW q \in Requests PROVE Good(q)'
  <2>1. CASE q \in Followers(r) \cup {r}
    <3>1. pc'[q] = "reply" /\ entitled[q]
      BY <2>1, <1>1 DEF Close, Followers, IInv, Good, Admitted
    <3> QED
      BY <3>1, <1>1 DEF Good, Leads, Fetches, Admitted, Current, Refused, Served, HoldsLock,
                        ListKept
  <2>2. CASE q \notin Followers(r) \cup {r}
    <3>1. Same(q)
      BY <2>2, <1>1 DEF Close, Same
    <3>2. Apart(q)
      BY <1>1 DEF Apart, Fresh
    <3> QED
      BY <3>1, <3>2, OthersKeep DEF IInv
  <2> QED
    BY <2>1, <2>2
<1> QED
  BY <1>2, <1>3, <1>4 DEF IInv

(* Whoever is on its way when the row becomes live is entitled from then on. *)
LEMMA ChangeKeeps ==
  ASSUME IInv, Change, DevicesInOrder', rewritten' \in BOOLEAN,
         \A q \in Requests : pc[q] = "record" /\ ~rewritten' => ~rewritten /\ devices' = devices
  PROVE  IInv'
<1>1. /\ UNCHANGED <<cache, flight, locked, pc, fmt, copy, answer>>
      /\ live' \in BOOLEAN
  BY DEF Change
<1>2. entitled' = [r \in Requests |-> entitled[r] \/ (live' /\ pc[r] \notin {"idle", "done"})]
  BY DEF Change
<1>3. Shape'
  BY <1>1, <1>2 DEF IInv, Shape
<1>4. ASSUME NEW q \in Requests PROVE Good(q)'
  <2>1. /\ entitled[q] => entitled'[q]
        /\ live' /\ pc[q] \notin {"idle", "done"} => entitled'[q]
    BY <1>2
  <2>2. (Leads(q) /\ Fetches(q) /\ Admitted(q) /\ Current(q))'
    BY <2>1, <1>1 DEF IInv, Good, Leads, Fetches, Admitted, Current, Fresh
  <2>3. (Refused(q) /\ Served(q) /\ HoldsLock(q))'
    BY <2>1, <1>1 DEF IInv, Good, Refused, Served, HoldsLock
  <2>4. ListKept(q)'
    BY <1>1 DEF IInv, Good, ListKept
  <2> QED
    BY <2>2, <2>3, <2>4 DEF Good
<1> QED
  BY <1>3, <1>4 DEF IInv

LEMMA TransactKeeps == IInv /\ Transact => IInv'
<1> SUFFICES ASSUME IInv, Transact PROVE IInv'
  OBVIOUS
<1>1. Change /\ UNCHANGED <<devices, seen, rewritten>>
  BY DEF Transact, column
<1>2. DevicesInOrder' /\ rewritten' \in BOOLEAN
  BY <1>1 DEF IInv, Shape, DevicesInOrder
<1> QED
  BY <1>1, <1>2, ChangeKeeps

(* A service that writes another list marks the one a request has loaded.    *)
LEMMA UpdateSubscriptionKeeps == IInv /\ UpdateSubscription => IInv'
<1> SUFFICES ASSUME IInv, UpdateSubscription PROVE IInv'
  OBVIOUS
<1>1. /\ Change /\ seen' = devices'
      /\ rewritten' = (locked # NoRequest /\ (rewritten \/ devices' # devices))
  BY DEF UpdateSubscription
<1>2. DevicesInOrder' /\ rewritten' \in BOOLEAN
  BY <1>1 DEF DevicesInOrder
<1>3. ASSUME NEW q \in Requests, pc[q] = "record", ~rewritten'
      PROVE  ~rewritten /\ devices' = devices
  <2>1. locked # NoRequest
    BY <1>3, SubserverAssumption DEF IInv, Good, HoldsLock
  <2> QED
    BY <2>1, <1>1, <1>3
<1> QED
  BY <1>1, <1>2, <1>3, ChangeKeeps

(* The cache only loses answers, and the row its life.                       *)
Housekeeping == \/ InvalidateSubscriber \/ PeriodEnds
                \/ \E f \in Formats : EntryExpires(f) \/ Evict(f)

LEMMA HousekeepingKeeps == IInv /\ Housekeeping => IInv'
<1> SUFFICES ASSUME IInv, Housekeeping PROVE IInv'
  OBVIOUS
<1>1. UNCHANGED <<flight, locked, devices, seen, rewritten, pc, fmt, copy, answer, entitled>>
  BY DEF Housekeeping, InvalidateSubscriber, PeriodEnds, EntryExpires, Evict, column, req
<1>2. live' = live \/ live' = FALSE
  BY DEF Housekeeping, InvalidateSubscriber, PeriodEnds, EntryExpires, Evict, row
<1>3. cache' = [f \in Formats |-> cache'[f]] /\ \A f \in Formats : Fresh(f)' => Fresh(f)
  BY DEF Housekeeping, InvalidateSubscriber, PeriodEnds, EntryExpires, Evict, IInv, Shape, Fresh,
         None
<1>4. Shape'
  BY <1>1, <1>2, <1>3 DEF IInv, Shape
<1>5. DevicesInOrder'
  BY <1>1 DEF IInv, DevicesInOrder
<1>6. ASSUME NEW q \in Requests PROVE Good(q)'
  <2>1. fmt[q] \in Formats
    BY DEF IInv, Shape
  <2>2. Fetches(q)'
    BY <2>1, <1>1, <1>3 DEF IInv, Good, Fetches, Fresh
  <2>3. (Leads(q) /\ Admitted(q) /\ Refused(q) /\ Served(q) /\ HoldsLock(q) /\ ListKept(q))'
    BY <1>1 DEF IInv, Good, Leads, Admitted, Refused, Served, HoldsLock, ListKept
  <2>4. Current(q)'
    BY <1>1, <1>2 DEF IInv, Good, Current
  <2> QED
    BY <2>2, <2>3, <2>4 DEF Good
<1> QED
  BY <1>4, <1>5, <1>6 DEF IInv

LEMMA StutterKeeps == IInv /\ UNCHANGED vars => IInv'
<1> SUFFICES ASSUME IInv, UNCHANGED vars PROVE IInv'
  OBVIOUS
<1>1. UNCHANGED <<live, cache, flight, locked, devices, seen, rewritten, pc, fmt, copy, answer,
                  entitled>>
  BY DEF vars, row, column, req
<1>2. Shape' /\ DevicesInOrder'
  BY <1>1 DEF IInv, Shape, DevicesInOrder
<1>3. ASSUME NEW q \in Requests PROVE Good(q)'
  <2>1. Same(q) /\ Apart(q)
    BY <1>1 DEF Same, Apart, Fresh
  <2> QED
    BY <2>1, OthersKeep DEF IInv
<1> QED
  BY <1>2, <1>3 DEF IInv

LEMMA Invariance == Spec => []IInv
<1>1. ASSUME NEW r \in Requests PROVE IInv /\ (Ask(r) \/ Serve(r) \/ Panics(r)) => IInv'
  BY AskKeeps, CacheGetKeeps, RevalidateKeeps, DropKeyKeeps, LockKeeps, LoadKeeps, RecordKeeps,
     JoinKeeps, CheckAgainKeeps, FetchKeeps, PanicsKeeps, StoreKeeps, PublishKeeps, CloseKeeps,
     ReplyKeeps DEF Serve
<1>2. IInv /\ [Next]_vars => IInv'
  BY <1>1, TransactKeeps, UpdateSubscriptionKeeps, HousekeepingKeeps, StutterKeeps
     DEF Next, Housekeeping
<1> QED
  BY <1>2, InitHolds, PTL DEF Spec

-----------------------------------------------------------------------------
(* No request that came after the subscription had ended is given the        *)
(* configuration, from the cache, as a flight's leader or behind one         *)
(* (serveFromCache, handleSubscription).                                     *)
THEOREM OnlyEntitledAreServed == Spec => []ServedWhileEntitled
<1>1. IInv => ServedWhileEntitled
  BY DEF IInv, Good, Served, ServedWhileEntitled
<1> QED
  BY <1>1, Invariance, PTL

(* However requests of a format coincide, one at a time asks the sources,    *)
(* and none while there is a valid answer (flightGroup.Do, the second look   *)
(* into the cache).                                                          *)
THEOREM OneFanOut == Spec => []NoNeedlessFanOut
<1>1. IInv => NoNeedlessFanOut
  BY DEF IInv, Good, Leads, Fetches, NoNeedlessFanOut
<1> QED
  BY <1>1, Invariance, PTL

(* Between a request's reading of the device list and its writing no other   *)
(* request's device is lost (analyticsKeyedLock): only a service that writes *)
(* the whole row back (UpdateSubscription) takes recorded devices away.      *)
THEOREM DevicesKept == Spec => []DevicesInOrder
BY Invariance, PTL DEF IInv

-----------------------------------------------------------------------------
(* The cache's types                                                         *)

(* A nonempty set of numbers has a least one.                                *)
LEMMA Least ==
  ASSUME NEW S \in SUBSET Nat, S # {} PROVE \E m \in S : \A n \in S : m <= n
<1>1. PICK m \in S : \A n \in S : <<n, m>> \notin OpToRel(<, Nat)
  BY WFMin, NatLessThanWellFounded, Zenon
<1>2. \A n \in S : ~(n < m)
  BY <1>1, Zenon DEF OpToRel
<1> QED
  BY <1>2

(* Without the first entry of a device the list is itself or has one gap.    *)
LEMMA FirstRemoved ==
  ASSUME NEW S, NEW s \in Seq(S), NEW e
  PROVE \/ RemoveFirst(s, e) = s
        \/ \E i \in 1 .. Len(s) :
             RemoveFirst(s, e) = SubSeq(s, 1, i - 1) \o SubSeq(s, i + 1, Len(s))
<1> DEFINE I == {i \in 1 .. Len(s) : s[i] = e}
<1>1. CASE I = {}
  BY <1>1 DEF RemoveFirst
<1>2. CASE I # {}
  <2>1. PICK m \in I : \A n \in I : m <= n
    <3>1. I \in SUBSET Nat
      OBVIOUS
    <3> QED
      BY <1>2, <3>1, Least
  <2>2. SelectInSeq(s, LAMBDA v : v = e) = Min(I)
    BY <1>2 DEF SelectInSeq
  <2>3. Min(I) \in I
    BY <2>1 DEF Min
  <2>4. RemoveFirst(s, e) = RemoveAt(s, Min(I))
    BY <1>2, <2>2 DEF RemoveFirst
  <2> QED
    BY <2>3, <2>4 DEF RemoveAt
<1> QED
  BY <1>1, <1>2

LEMMA ListsAre == \A s : s \in Lists <=> s \in Seq(Devices) /\ Len(s) <= MaxDevices
BY SubserverAssumption DEF Lists

(* A list of devices stays one, and within its bound, when a request's       *)
(* device goes to its end.                                                   *)
LEMMA SeenTyped == ASSUME NEW s \in Lists, NEW r \in Requests PROVE Seen(s, r) \in Lists
<1> DEFINE rest == RemoveFirst(s, r)  t == Append(rest, r)
<1>1. s \in Seq(Devices) /\ r \in Devices /\ MaxDevices \in Nat \ {0}
  BY ListsAre, SubserverAssumption DEF Devices
<1>2. rest \in Seq(Devices)
  <2>1. CASE rest = s
    BY <2>1, <1>1
  <2>2. CASE \E i \in 1 .. Len(s) : rest = SubSeq(s, 1, i - 1) \o SubSeq(s, i + 1, Len(s))
    BY <2>2, <1>1
  <2> QED
    BY <2>1, <2>2, <1>1, FirstRemoved
<1>3. t \in Seq(Devices) /\ Len(t) \in Nat
  BY <1>1, <1>2
<1> HIDE DEF t
<1>4. Latest(t) \in Seq(Devices) /\ Len(Latest(t)) <= MaxDevices
  BY <1>1, <1>3 DEF Latest
<1> QED
  BY <1>4, ListsAre DEF Seen, t

LEMMA EmptyListed == <<>> \in Lists
<1> DEFINE none == <<>>
<1>1. none \in Seq(Devices) /\ Len(none) = 0 /\ MaxDevices \in Nat
  BY SubserverAssumption
<1> HIDE DEF none
<1>2. none \in Lists
  <2>1. none \in Lists <=> none \in Seq(Devices) /\ Len(none) <= MaxDevices
    BY ListsAre, Zenon
  <2> QED
    BY <1>1, <2>1
<1> QED
  BY <1>2 DEF none

(* The values the cache and the answers take.                                *)
LEMMA ValuesTyped ==
  /\ 0 \in Versions /\ Versions \subseteq Nat
  /\ None \in Entries /\ Nothing \in Answers
  /\ \A k \in {"notFound", "error", "noItems", "broken"} : Failure(k) \in Answers
  /\ \A c \in Versions, b \in BOOLEAN : Body(c, b) \in Answers
  /\ \A e \in Entries \cup Answers : e.content \in Versions /\ e.complete \in BOOLEAN
  /\ \A c \in Versions, b \in BOOLEAN, k \in Kinds :
       [content |-> c, complete |-> b, kind |-> k] \in Entries
BY SubserverAssumption DEF Versions, None, Entries, Kinds, Nothing, Answers, Failure, Body

LEMMA InitTyped == Init => TypeOK
<1> SUFFICES ASSUME Init PROVE TypeOK
  OBVIOUS
<1>1. <<OldDevice>> \in Lists
  <2>1. <<OldDevice>> \in Seq(Devices) /\ Len(<<OldDevice>>) = 1 /\ 1 <= MaxDevices
    BY SubserverAssumption DEF Devices
  <2> QED
    BY <2>1, ListsAre
<1>2. Blank \in [content : Versions, devices : Lists]
  BY EmptyListed, ValuesTyped DEF Blank
<1>3. devices \in Lists /\ seen \in Lists /\ past \subseteq Lists /\ rewritten \in BOOLEAN
  BY <1>1 DEF Init
<1> QED
  BY <1>2, <1>3, ValuesTyped, SubserverAssumption DEF Init, TypeOK, Pcs

LEMMA AnswerTyped ==
  ASSUME TypeOK, NEW r \in Requests, NEW a \in Answers, NEW place \in Pcs, Answer(r, a, place)
  PROVE answer' \in [Requests -> Answers] /\ pc' \in [Requests -> Pcs]
BY DEF TypeOK, Answer, Goto

LEMMA CachedTyped ==
  ASSUME TypeOK, NEW f \in Formats
  PROVE /\ Body(cache[f].content, cache[f].complete) \in Answers
        /\ [content |-> cache[f].content, complete |-> cache[f].complete, kind |-> "expired"]
             \in Entries
<1>1. cache[f] \in Entries
  BY DEF TypeOK
<1> QED
  BY <1>1, ValuesTyped DEF Kinds

LEMMA FaultTyped == TypeOK /\ Fault => faults' \in 0 .. MaxFaults
BY SubserverAssumption DEF TypeOK, Fault

(* A request's step leaves the row and the lists alone, but for the list's   *)
(* writing.                                                                  *)
LEMMA StepTyped ==
  ASSUME TypeOK, NEW r \in Requests,
         Ask(r) \/ CacheGet(r) \/ Revalidate(r) \/ DropKey(r) \/ Lock(r) \/ Load(r) \/ Record(r)
  PROVE TypeOK'
<1> USE DEF TypeOK, Goto, Pcs, row, column
<1>1. CASE Ask(r)
  BY <1>1 DEF Ask
<1>2. CASE CacheGet(r)
  <2>1. fmt[r] \in Formats
    OBVIOUS
  <2>2. Body(cache[fmt[r]].content, cache[fmt[r]].complete) \in Answers
    BY <2>1, CachedTyped
  <2> QED
    BY <1>2, <2>2, AnswerTyped DEF CacheGet
<1>3. CASE Revalidate(r)
  BY <1>3, ValuesTyped, FaultTyped, AnswerTyped DEF Revalidate
<1>4. CASE DropKey(r)
  BY <1>4, ValuesTyped DEF DropKey
<1>5. CASE Lock(r)
  BY <1>5 DEF Lock
<1>6. CASE Load(r)
  <2>1. copy' \in [Requests -> [content : Versions, devices : Lists]]
    BY <1>6 DEF Load
  <2>2. /\ pc' \in [Requests -> Pcs] /\ answer' \in [Requests -> Answers]
        /\ faults' \in 0 .. MaxFaults
    <3>1. CASE Goto(r, "record") /\ UNCHANGED <<answer, faults>>
      BY <3>1
    <3>2. CASE Answer(r, Failure("notFound"), "reply") /\ UNCHANGED faults
      BY <3>2, ValuesTyped, AnswerTyped
    <3>3. CASE Fault /\ Answer(r, Failure("error"), "reply")
      BY <3>3, ValuesTyped, FaultTyped, AnswerTyped
    <3> QED
      BY <1>6, <3>1, <3>2, <3>3 DEF Load
  <2>3. locked' \in Requests \cup {NoRequest}
    BY <1>6 DEF Load
  <2> QED
    BY <1>6, <2>1, <2>2, <2>3 DEF Load
<1>7. CASE Record(r)
  <2>1. Seen(copy[r].devices, r) \in Lists /\ Seen(seen, r) \in Lists
    BY SeenTyped
  <2>2. devices' \in Lists /\ seen' \in Lists
    BY <1>7, <2>1 DEF Record
  <2>3. past' \subseteq Lists
    BY <1>7, <2>2 DEF Record
  <2>4. faults' \in 0 .. MaxFaults
    BY <1>7, FaultTyped DEF Record
  <2> QED
    BY <1>7, <2>2, <2>3, <2>4, SubserverAssumption DEF Record
<1> QED
  BY <1>1, <1>2, <1>3, <1>4, <1>5, <1>6, <1>7

LEMMA FlightTyped ==
  ASSUME TypeOK, NEW r \in Requests,
         \/ Join(r) \/ CheckAgain(r) \/ Fetch(r) \/ Panics(r) \/ Store(r) \/ Publish(r)
         \/ Close(r) \/ Reply(r)
  PROVE TypeOK'
<1> USE DEF TypeOK, Goto, Pcs, row, column
<1>1. CASE Join(r)
  <2>1. fmt[r] \in Formats /\ flight[fmt[r]] \in Requests \cup {NoRequest}
    OBVIOUS
  <2>2. pc' \in [Requests -> Pcs]
    <3>1. \/ pc' = [pc EXCEPT ![r] = "check"]
          \/ pc' = [pc EXCEPT ![r] = "wait"]
      BY <1>1, Zenon DEF Join
    <3> QED
      BY <3>1
  <2>3. flight' \in [Formats -> Requests \cup {NoRequest}]
    BY <1>1, <2>1 DEF Join
  <2>4. leader' \in [Requests -> Requests \cup {NoRequest}]
    BY <1>1, <2>1 DEF Join
  <2> QED
    BY <1>1, <2>2, <2>3, <2>4 DEF Join
<1>2. CASE CheckAgain(r)
  <2>1. fmt[r] \in Formats
    OBVIOUS
  <2>2. Body(cache[fmt[r]].content, cache[fmt[r]].complete) \in Answers
    BY <2>1, CachedTyped
  <2> QED
    BY <1>2, <2>2, AnswerTyped DEF CheckAgain
<1>3. CASE Fetch(r)
  <2>1. copy[r].content \in Versions
    OBVIOUS
  <2> QED
    BY <1>3, <2>1, ValuesTyped, AnswerTyped DEF Fetch
<1>4. CASE Panics(r)
  BY <1>4, ValuesTyped, FaultTyped, AnswerTyped DEF Panics
<1>5. CASE Store(r)
  BY <1>5, ValuesTyped DEF Store, Kinds
<1>6. CASE Publish(r)
  BY <1>6 DEF Publish
<1>7. CASE Close(r)
  BY <1>7 DEF Close
<1>8. CASE Reply(r)
  <2>1. Blank \in [content : Versions, devices : Lists]
    BY EmptyListed, ValuesTyped DEF Blank
  <2> QED
    BY <1>8, <2>1, ValuesTyped DEF Reply, Answer
<1> QED
  BY <1>1, <1>2, <1>3, <1>4, <1>5, <1>6, <1>7, <1>8

LEMMA ServicesTyped ==
  ASSUME TypeOK, Transact \/ UpdateSubscription \/ Housekeeping PROVE TypeOK'
<1> USE DEF TypeOK, column
<1>1. CASE Transact \/ UpdateSubscription
  <2>1. Change
    BY <1>1 DEF Transact, UpdateSubscription
  <2>2. content' \in Versions /\ due' \in 0 .. content'
    BY <2>1, SubserverAssumption DEF Change, Versions
  <2>3. devices' \in Lists /\ seen' \in Lists /\ past' \subseteq Lists /\ rewritten' \in BOOLEAN
    BY <1>1, EmptyListed DEF Transact, UpdateSubscription
  <2> QED
    BY <2>1, <2>2, <2>3 DEF Change
<1>2. CASE InvalidateSubscriber
  <2>1. due' \in 0 .. content'
    BY <1>2, SubserverAssumption DEF InvalidateSubscriber, Versions
  <2> QED
    BY <1>2, <2>1, ValuesTyped DEF InvalidateSubscriber, req
<1>3. CASE PeriodEnds
  BY <1>3 DEF PeriodEnds, req
<1>4. CASE \E f \in Formats : EntryExpires(f) \/ Evict(f)
  <2>1. PICK f \in Formats, e \in Entries : cache' = [cache EXCEPT ![f] = e]
    BY <1>4, ValuesTyped, CachedTyped DEF EntryExpires, Evict
  <2> QED
    BY <1>4, <2>1 DEF EntryExpires, Evict, req, row
<1> QED
  BY <1>1, <1>2, <1>3, <1>4 DEF Housekeeping

LEMMA NextTyped == TypeOK /\ [Next]_vars => TypeOK'
<1>1. TypeOK /\ UNCHANGED vars => TypeOK'
  BY DEF TypeOK, vars, row, column, req
<1> QED
  BY <1>1, StepTyped, FlightTyped, ServicesTyped DEF Next, Serve, Housekeeping

-----------------------------------------------------------------------------
(* The access log                                                            *)

(* Whoever shuts the log down has closed its entrance; it closes the file    *)
(* under the writer only after the deadline, and otherwise when the queue is *)
(* empty.                                                                    *)
LogInv ==
  /\ Log!TypeOK
  /\ closer # "idle" => closed
  /\ closer \in {"close", "done"} => queue = <<>>
  /\ ~fileOpen => closer \in {"cut", "done"}
  /\ closer = "cut" => expired
  /\ failed # {} => expired

LEMMA QueuesAre ==
  \A q : q \in UNION {[1 .. n -> Handlers] : n \in 0 .. QueueSize}
          <=> q \in Seq(Handlers) /\ Len(q) <= QueueSize
BY LogAssumption

LEMMA LogInitHolds == Log!Init => LogInv
<1> SUFFICES ASSUME Log!Init PROVE LogInv
  OBVIOUS
<1>1. queue \in Seq(Handlers) /\ Len(queue) <= QueueSize
  BY LogAssumption DEF Log!Init
<1> QED
  BY <1>1, QueuesAre DEF Log!Init, LogInv, Log!TypeOK

LEMMA WritesKeep == LogInv /\ (Log!WriteRecord \/ \E h \in Handlers : Log!Write(h)) => LogInv'
<1> SUFFICES ASSUME LogInv, Log!WriteRecord \/ \E h \in Handlers : Log!Write(h) PROVE LogInv'
  OBVIOUS
<1>1. queue \in Seq(Handlers) /\ Len(queue) <= QueueSize
  BY QueuesAre DEF LogInv, Log!TypeOK
<1>2. CASE Log!WriteRecord
  <2>1. queue' \in Seq(Handlers) /\ Len(queue') <= QueueSize /\ Head(queue) \in Handlers
    BY <1>1, <1>2, LogAssumption DEF Log!WriteRecord
  <2>2. queue' \in UNION {[1 .. n -> Handlers] : n \in 0 .. QueueSize}
    BY <2>1, QueuesAre
  <2>3. closer \notin {"close", "done"}
    BY <1>2 DEF Log!WriteRecord, LogInv
  <2> QED
    BY <1>2, <2>1, <2>2, <2>3 DEF Log!WriteRecord, LogInv, Log!TypeOK
<1>3. CASE \E h \in Handlers : Log!Write(h)
  <2>1. PICK h \in Handlers : Log!Write(h)
    BY <1>3
  <2>2. queue' \in Seq(Handlers) /\ Len(queue') <= QueueSize
    BY <1>1, <2>1, LogAssumption DEF Log!Write
  <2>3. queue' \in UNION {[1 .. n -> Handlers] : n \in 0 .. QueueSize}
    BY <2>2, QueuesAre
  <2> QED
    BY <2>1, <2>3 DEF Log!Write, LogInv, Log!TypeOK
<1> QED
  BY <1>2, <1>3

LEMMA CloserKeeps ==
  LogInv /\ (Log!Sync \/ Log!CutOff \/ Log!Flushed \/ Log!CloseFile \/ Log!Deadline) => LogInv'
BY DEF LogInv, Log!TypeOK, Log!Sync, Log!CutOff, Log!Flushed, Log!WriterEnded, Log!CloseFile,
       Log!Deadline

LEMMA LogNextKeeps == LogInv /\ [Log!Next]_(Log!vars) => LogInv'
<1>1. LogInv /\ UNCHANGED Log!vars => LogInv'
  BY DEF LogInv, Log!TypeOK, Log!vars
<1> QED
  BY <1>1, WritesKeep, CloserKeeps DEF Log!Next

(* A shutdown within its deadline finds every accepted record handed to the  *)
(* open file: none is left but those whose own write failed, and only one    *)
(* that gave up closes the file before others                                *)
(* (asyncAccessLogWriter.Sync, closeFile).                                   *)
THEOREM RecordsFlushed == Log!Spec => []FlushedOnClose
<1>1. LogInv => FlushedOnClose
  BY DEF LogInv, FlushedOnClose, Log!FlushedOnClose
<1> QED
  BY <1>1, LogInitHolds, LogNextKeeps, PTL DEF Log!Spec

-----------------------------------------------------------------------------
(* The rendering of one answer                                               *)

(* Names are given when all servers are known, and each is the server's      *)
(* remark or positional.                                                     *)
Complete == merged = Len(nodes) /\ rendered = Len(Rendering!Aggregated)
Tagged ==
  \A i \in DOMAIN names :
    \/ names[i] = Rendering!Remark(format, configs[i])
    \/ \E n \in DOMAIN Positional : names[i] = Positional[n]

RenderingInv ==
  /\ Rendering!TypeOK
  /\ names # <<>> => Complete
  /\ Tagged /\ Rendering!NamesResolve /\ Rendering!NameKept
  /\ Rendering!EarliestExpiry

LEMMA SizesTyped == MaxNodes \in Nat /\ Expiries \subseteq Nat /\ Items \subseteq Rendering!Node
BY RenderingAssumption

LEMMA RenderingInitHolds == Rendering!Init => RenderingInv
<1> SUFFICES ASSUME Rendering!Init PROVE RenderingInv
  OBVIOUS
<1> DEFINE S == Rendering!Answered
<1>1. nodes \in Seq(S) /\ Len(nodes) <= MaxNodes
  <2>1. nodes \in UNION {[1 .. n -> S] : n \in 0 .. MaxNodes}
    BY DEF Rendering!Init
  <2> HIDE DEF S
  <2>2. PICK n \in 0 .. MaxNodes : nodes \in [1 .. n -> S]
    BY <2>1
  <2>3. MaxNodes \in Nat /\ n \in Nat /\ n <= MaxNodes
    BY SizesTyped
  <2>4. nodes \in Seq(S) /\ Len(nodes) = n
    BY <2>2, <2>3
  <2> QED
    BY <2>3, <2>4
<1>2. Rendering!TypeOK
  BY <1>1 DEF Rendering!Init, Rendering!TypeOK
<1>3. DOMAIN names = {} /\ merged = 0
  BY DEF Rendering!Init
<1>4. Rendering!EarliestExpiry
  BY <1>3 DEF Rendering!Init, Rendering!EarliestExpiry, Rendering!Dated
<1> QED
  BY <1>2, <1>3, <1>4 DEF Rendering!Init, RenderingInv, Tagged, Rendering!NamesResolve,
                          Rendering!NameKept

LEMMA AggregatedTyped ==
  ASSUME Rendering!TypeOK
  PROVE Rendering!Aggregated \in Seq(Items) /\ Len(Rendering!Aggregated) = merged
BY DEF Rendering!TypeOK, Rendering!Aggregated

LEMMA ServersTyped ==
  ASSUME NEW item \in Items PROVE Rendering!ToServer(item) \in Rendering!Server
<1>1. item \in Rendering!Node
  BY RenderingAssumption
<1> QED
  BY <1>1 DEF Rendering!Node, Rendering!Server, Rendering!ToServer

(* The expiry of one more node keeps the earliest the earliest.              *)
LEMMA MergeKeeps == RenderingInv /\ Rendering!Merge => RenderingInv'
<1> SUFFICES ASSUME RenderingInv, Rendering!Merge PROVE RenderingInv'
  OBVIOUS
<1> DEFINE n == nodes[merged + 1]
<1>1. /\ merged < Len(nodes) /\ merged' = merged + 1
      /\ expire' = Rendering!MinExpire(expire, n.expire)
      /\ \/ jsonConfigs' = Append(jsonConfigs, n.item) /\ items' = items
         \/ items' = Append(items, n.item) /\ jsonConfigs' = jsonConfigs
      /\ UNCHANGED <<format, nodes, rendered, configs, names>>
  BY DEF Rendering!Merge
<1>2. /\ Rendering!TypeOK /\ merged \in Nat /\ Len(nodes) \in Nat
      /\ \A i \in 1 .. Len(nodes) :
           nodes[i].item \in Items /\ nodes[i].expire \in Expiries \cup {NoExpiry}
  <2> DEFINE S == Rendering!Answered
  <2>1. \A x \in S : x.item \in Items /\ x.expire \in Expiries \cup {NoExpiry}
    BY DEF Rendering!Answered
  <2>2. nodes \in Seq(S) /\ Rendering!TypeOK /\ merged \in 0 .. Len(nodes)
    BY DEF RenderingInv, Rendering!TypeOK
  <2> HIDE DEF S
  <2>3. \A i \in 1 .. Len(nodes) : nodes[i] \in S
    BY <2>2
  <2> QED
    BY <2>1, <2>2, <2>3
<1>3. merged + 1 \in 1 .. Len(nodes) /\ n.item \in Items /\ n.expire \in Expiries \cup {NoExpiry}
  BY <1>1, <1>2
<1> HIDE DEF n
<1>4. Rendering!TypeOK'
  <2>1. /\ jsonConfigs' \in Seq(Items) /\ items' \in Seq(Items)
        /\ Len(jsonConfigs') + Len(items') = merged'
    <3>1. /\ jsonConfigs \in Seq(Items) /\ items \in Seq(Items)
          /\ Len(jsonConfigs) + Len(items) = merged
      BY <1>2 DEF Rendering!TypeOK
    <3>2. CASE jsonConfigs' = Append(jsonConfigs, n.item) /\ items' = items
      BY <3>1, <3>2, <1>1, <1>3
    <3>3. CASE items' = Append(items, n.item) /\ jsonConfigs' = jsonConfigs
      BY <3>1, <3>3, <1>1, <1>3
    <3> QED
      BY <3>2, <3>3, <1>1
  <2>2. merged' \in 0 .. Len(nodes) /\ expire' \in Expiries \cup {0}
    BY <1>1, <1>2, <1>3 DEF Rendering!TypeOK, Rendering!MinExpire
  <2>3. rendered \in Len(configs) .. merged'
    BY <1>1, <1>2 DEF Rendering!TypeOK
  <2> QED
    BY <1>1, <1>2, <2>1, <2>2, <2>3 DEF Rendering!TypeOK
<1>5. names = <<>> /\ names' = <<>>
  BY <1>1 DEF RenderingInv, Complete
<1>6. (Tagged /\ Rendering!NamesResolve /\ Rendering!NameKept)'
  BY <1>5 DEF Tagged, Rendering!NamesResolve, Rendering!NameKept
<1>7. Rendering!EarliestExpiry'
  <2> DEFINE m == merged + 1  e == n.expire
  <2>1. /\ expire \in Nat /\ NoExpiry \notin Nat /\ e \in Nat \cup {NoExpiry}
        /\ expire' = IF e # NoExpiry /\ (expire = 0 \/ e < expire) THEN e ELSE expire
    <3>1. expire \in Expiries \cup {0}
      BY <1>2 DEF Rendering!TypeOK
    <3>2. expire \in Nat /\ NoExpiry \notin Nat /\ e \in Nat \cup {NoExpiry}
      <4>1. Expiries \subseteq Nat /\ NoExpiry \notin Nat
        BY RenderingAssumption, Zenon
      <4>2. e \in Expiries \/ e = NoExpiry
        BY <1>3, Zenon
      <4>3. expire \in Nat
        BY <4>1, <3>1
      <4> QED
        BY <4>1, <4>2, <4>3, Zenon
    <3>3. expire' = IF e # NoExpiry /\ (expire = 0 \/ e < expire) THEN e ELSE expire
      BY <1>1, Zenon DEF Rendering!MinExpire
    <3> QED
      BY <3>2, <3>3
  <2>2. /\ e = nodes[m].expire /\ m \in Nat
        /\ \A i \in 1 .. m :
             /\ i \in 1 .. merged \/ i = m
             /\ i \in Nat /\ m \in i .. m /\ i .. merged \subseteq i .. m
             /\ \A j \in i .. m : j \in i .. merged \/ j = m
        /\ 1 .. merged \subseteq 1 .. m /\ m \in 1 .. m
    BY <1>2 DEF n
  <2>3. Rendering!Dated' = {i \in 1 .. m : /\ nodes[i].expire \notin {0, NoExpiry}
                                           /\ \A j \in i .. m : nodes[j].expire # 0}
    BY <1>1 DEF Rendering!Dated
  <2>4. \A i \in Rendering!Dated : nodes[i].expire \in Nat \ {0}
    <3> SUFFICES ASSUME NEW i \in Rendering!Dated PROVE nodes[i].expire \in Nat \ {0}
      OBVIOUS
    <3>1. i \in 1 .. merged /\ nodes[i].expire \notin {0, NoExpiry}
      BY DEF Rendering!Dated
    <3>2. i \in 1 .. Len(nodes) /\ nodes[i].expire \in Expiries \cup {NoExpiry}
      BY <3>1, <1>1, <1>2
    <3> QED
      BY <3>1, <3>2, SizesTyped
  <2> HIDE DEF e, m
  <2>5. CASE e = NoExpiry
    <3>1. nodes[m].expire = NoExpiry /\ NoExpiry # 0
      BY <2>1, <2>2, <2>5
    <3>2. \A i \in 1 .. m : (\A j \in i .. m : nodes[j].expire # 0) <=>
                            (\A j \in i .. merged : nodes[j].expire # 0)
      BY <3>1, <2>2
    <3>3. Rendering!Dated' = Rendering!Dated
      BY <3>1, <3>2, <2>2, <2>3 DEF Rendering!Dated
    <3>4. expire' = expire
      BY <2>1, <2>5
    <3> QED
      BY <3>3, <3>4, <1>1 DEF RenderingInv, Rendering!EarliestExpiry
  <2>6. CASE e = 0
    <3>1. Rendering!Dated' = {}
      BY <2>2, <2>3, <2>6
    <3>2. expire' = 0
      BY <2>1, <2>6
    <3> QED
      BY <3>1, <3>2 DEF Rendering!EarliestExpiry
  <2>7. CASE e \in Nat \ {0}
    <3>1. Rendering!Dated' = Rendering!Dated \cup {m}
      <4>1. nodes[m].expire \notin {0, NoExpiry}
        BY <2>1, <2>2, <2>7
      <4>2. \A i \in 1 .. m : (\A j \in i .. m : nodes[j].expire # 0) <=>
                              (\A j \in i .. merged : nodes[j].expire # 0)
        BY <4>1, <2>2
      <4>3. \A j \in m .. m : j = m
        BY <2>2
      <4> QED
        BY <4>1, <4>2, <4>3, <2>2, <2>3 DEF Rendering!Dated
    <3>2. CASE Rendering!Dated = {}
      <4>1. expire' = e
        BY <2>1, <2>7, <3>2 DEF RenderingInv, Rendering!EarliestExpiry
      <4> QED
        BY <4>1, <3>1, <3>2, <2>2, <2>7, <1>1 DEF Rendering!EarliestExpiry
    <3>3. CASE Rendering!Dated # {}
      <4>1. PICK k \in Rendering!Dated : nodes[k].expire = expire
        BY <3>3 DEF RenderingInv, Rendering!EarliestExpiry
      <4>2. \A i \in Rendering!Dated : expire <= nodes[i].expire
        BY <3>3 DEF RenderingInv, Rendering!EarliestExpiry
      <4>3. expire' = IF e < expire THEN e ELSE expire
        BY <4>1, <2>1, <2>4, <2>7
      <4>4. \A i \in Rendering!Dated \cup {m} : expire' <= nodes[i].expire
        BY <4>2, <4>3, <2>1, <2>2, <2>4, <2>7
      <4>5. \E i \in Rendering!Dated \cup {m} : nodes[i].expire = expire'
        BY <4>1, <4>3, <2>2
      <4> QED
        BY <4>4, <4>5, <3>1, <1>1 DEF Rendering!EarliestExpiry
    <3> QED
      BY <3>2, <3>3
  <2> QED
    BY <2>1, <2>5, <2>6, <2>7
<1> QED
  BY <1>1, <1>2, <1>4, <1>5, <1>6, <1>7 DEF RenderingInv

LEMMA RenderNextKeeps == RenderingInv /\ Rendering!RenderNext => RenderingInv'
<1> SUFFICES ASSUME RenderingInv, Rendering!RenderNext PROVE RenderingInv'
  OBVIOUS
<1> DEFINE item == Rendering!Aggregated[rendered + 1]
<1>1. /\ rendered < Len(Rendering!Aggregated) /\ rendered' = rendered + 1
      /\ configs' = configs \/ configs' = Append(configs, Rendering!ToServer(item))
      /\ UNCHANGED <<format, nodes, merged, expire, jsonConfigs, items, names>>
  BY DEF Rendering!RenderNext
<1>2. /\ Rendering!Aggregated \in Seq(Items) /\ Len(Rendering!Aggregated) = merged
      /\ merged \in Nat /\ rendered \in Nat /\ configs \in Seq(Rendering!Server)
      /\ Len(configs) \in Nat /\ Len(configs) <= rendered /\ Len(names) \in Nat
      /\ Len(names) <= Len(configs)
  BY AggregatedTyped DEF RenderingInv, Rendering!TypeOK
<1>3. item \in Items
  BY <1>1, <1>2
<1> HIDE DEF item
<1>4. /\ configs' \in Seq(Rendering!Server) /\ rendered' \in Len(configs') .. merged
      /\ Len(names) <= Len(configs')
  <2>1. CASE configs' = configs
    BY <2>1, <1>1, <1>2
  <2>2. CASE configs' = Append(configs, Rendering!ToServer(item))
    BY <2>2, <1>1, <1>2, <1>3, ServersTyped
  <2> QED
    BY <2>1, <2>2, <1>1
<1>5. Rendering!TypeOK'
  BY <1>1, <1>4 DEF RenderingInv, Rendering!TypeOK
<1>6. names = <<>> /\ names' = <<>>
  BY <1>1 DEF RenderingInv, Complete
<1>7. (Tagged /\ Rendering!NamesResolve /\ Rendering!NameKept)'
  BY <1>6 DEF Tagged, Rendering!NamesResolve, Rendering!NameKept
<1>8. Rendering!EarliestExpiry'
  BY <1>1 DEF RenderingInv, Rendering!EarliestExpiry, Rendering!Dated
<1> QED
  BY <1>1, <1>5, <1>6, <1>7, <1>8 DEF RenderingInv

(* No profile reserves more than these names, nor do its rules name others;  *)
(* what they name without its being reserved are the policies of Clash.      *)
LEMMA ReservedAre ==
  ASSUME Rendering!TypeOK
  PROVE /\ Rendering!Reserved(format) \subseteq {"direct", "block", "proxy", "PROXY"}
        /\ \A t \in Rendering!Targets(format) \ Rendering!Reserved(format) :
             format = "clash" /\ t \in {"DIRECT", "REJECT"}
BY DEF Rendering!TypeOK, Rendering!OutFormats, Rendering!Reserved, Rendering!Targets

LEMMA PositionalCount ==
  /\ Positional \in Seq(STRING) /\ Len(Positional) \in Nat /\ Len(Positional) >= 2 * MaxNodes
<1>1. Positional \in Seq(STRING) /\ Len(Positional) >= 2 * MaxNodes
  BY NamesAssumption, Zenon
<1> QED
  BY <1>1

LEMMA PositionalDiffer ==
  /\ \A m, n \in 1 .. Len(Positional) : Positional[m] = Positional[n] => m = n
  /\ \A n \in 1 .. Len(Positional) :
       Positional[n] \notin {"", "direct", "block", "proxy", "PROXY", "DIRECT", "REJECT"}
BY NamesAssumption, Zenon

(* More positional names than names given: two of them have one holder.      *)
LEMMA NamesCollide ==
  ASSUME NEW given, NEW places, IsFiniteSet(given), IsFiniteSet(places),
         NEW holder \in [places -> given], Cardinality(given) < Cardinality(places)
  PROVE  \E x, y \in places : x # y /\ holder[x] = holder[y]
BY FS_PigeonHole

(* There are more positional names from a server's place on than names given *)
(* before it: one of them is free, and the first of the free ones is given.  *)
LEMMA FreeTag ==
  ASSUME Rendering!TypeOK, Len(names) < Len(configs), NEW start \in 1 .. Len(names) + 1
  PROVE \E n \in 1 .. Len(Positional) :
          /\ Rendering!FreeProxyTag(start, Rendering!Used) = Positional[n]
          /\ Positional[n] \notin Rendering!Used
<1> DEFINE given == 1 .. Len(names)
           places == start .. Len(Positional)
           free == {n \in places : Positional[n] \notin Rendering!Used}
<1>1. /\ Len(names) \in Nat /\ Len(names) + 1 <= MaxNodes /\ MaxNodes \in Nat
      /\ start \in Nat /\ 1 <= start /\ start <= Len(names) + 1
  <2>1. /\ Len(names) \in Nat /\ Len(configs) \in Nat /\ Len(configs) <= merged
        /\ merged <= MaxNodes /\ merged \in Nat
    BY SizesTyped DEF Rendering!TypeOK
  <2> QED
    BY <2>1, SizesTyped
<1>2. free # {}
  <2> SUFFICES ASSUME \A n \in places : Positional[n] \in Rendering!Used PROVE FALSE
    OBVIOUS
  <2>1. \A n \in places : \E i \in given : names[i] = Positional[n]
    <3> SUFFICES ASSUME NEW n \in places PROVE \E i \in given : names[i] = Positional[n]
      OBVIOUS
    <3>1. n \in 1 .. Len(Positional)
      BY <1>1, PositionalCount
    <3>2. Positional[n] \notin Rendering!Reserved(format)
      BY <3>1, ReservedAre, PositionalDiffer
    <3>3. DOMAIN names = given
      BY DEF Rendering!TypeOK
    <3> QED
      BY <3>2, <3>3 DEF Rendering!Used
  <2> DEFINE holder == [n \in places |-> CHOOSE i \in given : names[i] = Positional[n]]
  <2>2. holder \in [places -> given] /\ \A n \in places : names[holder[n]] = Positional[n]
    BY <2>1
  <2> HIDE DEF holder
  <2>3. /\ IsFiniteSet(given) /\ Cardinality(given) = Len(names)
        /\ IsFiniteSet(places) /\ Cardinality(places) = Len(Positional) - start + 1
    <3>1. /\ IsFiniteSet(given) /\ IsFiniteSet(places)
          /\ Cardinality(given) = IF 1 > Len(names) THEN 0 ELSE Len(names) - 1 + 1
          /\ Cardinality(places) = IF start > Len(Positional) THEN 0
                                   ELSE Len(Positional) - start + 1
      <4>1. Len(names) \in Int /\ Len(Positional) \in Int /\ start \in Int /\ 1 \in Int
        BY <1>1, PositionalCount
      <4> QED
        BY <4>1, FS_Interval
    <3> HIDE DEF given, places
    <3> QED
      BY <3>1, <1>1, PositionalCount
  <2>4. Cardinality(given) < Cardinality(places)
    BY <2>3, <1>1, PositionalCount
  <2>5. PICK x, y \in places : x # y /\ holder[x] = holder[y]
    <3>1. holder \in [places -> given] /\ IsFiniteSet(given) /\ IsFiniteSet(places)
      BY <2>2, <2>3
    <3> HIDE DEF given, places
    <3> QED
      BY <3>1, <2>4, NamesCollide, Zenon
  <2> HIDE DEF given
  <2>6. Positional[x] = Positional[y] /\ x \in 1 .. Len(Positional) /\ y \in 1 .. Len(Positional)
    BY <2>2, <2>5, <1>1, PositionalCount
  <2> QED
    BY <2>5, <2>6, PositionalDiffer
<1>3. PICK k \in free : \A n \in free : k <= n
  <2>1. free \in SUBSET Nat
    BY <1>1, PositionalCount
  <2> QED
    BY <2>1, <1>2, Least
<1> DEFINE first == CHOOSE n \in free : \A m \in free : n <= m
<1>4. first \in free
  BY <1>3
<1>5. Rendering!FreeProxyTag(start, Rendering!Used) = Positional[first]
  BY DEF Rendering!FreeProxyTag
<1> HIDE DEF first
<1>6. first \in 1 .. Len(Positional) /\ Positional[first] \notin Rendering!Used
  BY <1>4, <1>1, PositionalCount
<1> QED
  BY <1>5, <1>6

(* A tag is the remark, if that is free, or a free positional name.          *)
LEMMA TagGiven ==
  ASSUME Rendering!TypeOK, Len(names) < Len(configs)
  PROVE LET k == Len(names) + 1
            tag == Rendering!Tag(k)
            wanted == Rendering!Remark(format, configs[k])
        IN /\ tag \in STRING /\ tag # "" /\ tag \notin Rendering!Used
           /\ tag = wanted \/ \E n \in 1 .. Len(Positional) : tag = Positional[n]
           /\ wanted # "" /\ wanted \notin Rendering!Used => tag = wanted
<1> DEFINE k == Len(names) + 1
           tag == Rendering!Tag(k)
           wanted == Rendering!Remark(format, configs[k])
           start == IF format = "xray" THEN k ELSE 1
<1>1. /\ k \in 1 .. Len(configs) /\ start \in 1 .. Len(names) + 1
      /\ configs \in Seq(Rendering!Server)
  BY DEF Rendering!TypeOK
<1>2. wanted \in STRING
  <2>1. configs[k] \in Rendering!Server
    BY <1>1
  <2>2. configs[k].remark \in STRING
    BY <2>1 DEF Rendering!Server
  <2>3. wanted = AddressName \/ wanted = configs[k].remark
    BY DEF Rendering!Remark
  <2>4. AddressName \in STRING
    BY NamesAssumption
  <2> HIDE DEF wanted
  <2> QED
    BY <2>2, <2>3, <2>4
<1>3. tag = IF wanted # "" /\ wanted \notin Rendering!Used THEN wanted
            ELSE Rendering!FreeProxyTag(start, Rendering!Used)
  BY DEF Rendering!Tag
<1> HIDE DEF tag, wanted
<1>4. CASE wanted # "" /\ wanted \notin Rendering!Used
  BY <1>2, <1>3, <1>4 DEF tag, wanted
<1>5. CASE ~(wanted # "" /\ wanted \notin Rendering!Used)
  <2>1. PICK n \in 1 .. Len(Positional) :
          /\ Rendering!FreeProxyTag(start, Rendering!Used) = Positional[n]
          /\ Positional[n] \notin Rendering!Used
    BY <1>1, FreeTag
  <2>2. tag = Positional[n]
    BY <1>3, <1>5, <2>1
  <2>3. tag \in STRING
    BY <2>2, PositionalCount
  <2>4. tag # ""
    <3>1. Positional[n] # ""
      BY PositionalDiffer
    <3> QED
      BY <2>2, <3>1
  <2> QED
    BY <2>1, <2>2, <2>3, <2>4, <1>5 DEF tag, wanted
<1> QED
  BY <1>4, <1>5

LEMMA TagNextKeeps == RenderingInv /\ Rendering!TagNext => RenderingInv'
<1> SUFFICES ASSUME RenderingInv, Rendering!TagNext PROVE RenderingInv'
  OBVIOUS
<1> DEFINE k == Len(names) + 1
           tag == Rendering!Tag(k)
           wanted == Rendering!Remark(format, configs[k])
<1>1. /\ Complete /\ Len(names) < Len(configs) /\ names' = Append(names, tag)
      /\ UNCHANGED <<format, nodes, merged, expire, jsonConfigs, items, rendered, configs>>
  BY DEF Rendering!TagNext, Complete
<1>2. /\ tag \in STRING /\ tag # "" /\ tag \notin Rendering!Used
      /\ tag = wanted \/ \E n \in 1 .. Len(Positional) : tag = Positional[n]
      /\ wanted # "" /\ wanted \notin Rendering!Used => tag = wanted
  BY <1>1, TagGiven DEF RenderingInv
<1> HIDE DEF tag
<1>3. /\ Rendering!TypeOK /\ names \in Seq(STRING) /\ Len(names) \in Nat
      /\ configs \in Seq(Rendering!Server) /\ DOMAIN names = 1 .. Len(names)
      /\ DOMAIN configs = 1 .. Len(configs) /\ DOMAIN Positional = 1 .. Len(Positional)
  BY PositionalCount DEF RenderingInv, Rendering!TypeOK
<1>4. /\ names' \in Seq(STRING) /\ Len(names') = k /\ k <= Len(configs)
      /\ DOMAIN names' = 1 .. k /\ names'[k] = tag
      /\ \A i \in DOMAIN names : names'[i] = names[i]
      /\ \A i \in 1 .. k : i \in DOMAIN names \/ i = k
      /\ k \in DOMAIN configs /\ DOMAIN names \subseteq DOMAIN configs
  <2>1. /\ names' \in Seq(STRING) /\ Len(names') = k /\ DOMAIN names' = 1 .. k
        /\ names'[k] = tag /\ \A i \in DOMAIN names : names'[i] = names[i]
    <3> DEFINE t == Append(names, tag)
    <3>1. /\ t \in Seq(STRING) /\ Len(t) = k /\ DOMAIN t = 1 .. k
          /\ t[k] = tag /\ \A i \in DOMAIN names : t[i] = names[i]
      <4> DEFINE Str == STRING
      <4>1. names \in Seq(Str) /\ tag \in Str
        BY <1>2, <1>3
      <4> HIDE DEF Str
      <4>2. t \in Seq(Str) /\ Len(t) = k /\ DOMAIN t = 1 .. k
        BY <4>1
      <4>3. t[k] = tag /\ \A i \in 1 .. Len(names) : t[i] = names[i]
        BY <4>1
      <4> QED
        BY <4>2, <4>3, <1>3 DEF Str
    <3>2. names' = t
      BY <1>1
    <3> HIDE DEF t
    <3> QED
      BY <3>1, <3>2
  <2>2. Len(configs) \in Nat /\ k <= Len(configs)
    BY <1>1, <1>3
  <2> QED
    BY <2>1, <2>2, <1>3
<1> HIDE DEF k
<1>5. Rendering!TypeOK'
  BY <1>1, <1>3, <1>4 DEF Rendering!TypeOK
<1>6. Complete'
  BY <1>1 DEF Complete, Rendering!Aggregated
<1>7. Tagged'
  <2> DEFINE Given(name, i) == \/ name = Rendering!Remark(format, configs[i])
                               \/ \E n \in DOMAIN Positional : name = Positional[n]
  <2>1. \A i \in DOMAIN names : Given(names'[i], i)
    BY <1>4 DEF RenderingInv, Tagged
  <2>2. Given(names'[k], k)
    BY <1>2, <1>3, <1>4
  <2>3. \A i \in DOMAIN names' : Given(names'[i], i)
    BY <2>1, <2>2, <1>4
  <2> QED
    BY <2>3, <1>1 DEF Tagged, Rendering!Remark
<1>8. Rendering!NamesResolve'
  <2>1. tag \notin Rendering!Reserved(format) /\ \A i \in DOMAIN names : names[i] # tag
    BY <1>2 DEF Rendering!Used
  <2>2. Rendering!Reserved(format)' = Rendering!Reserved(format)
    BY <1>1 DEF Rendering!Reserved
  <2>3. \A i \in DOMAIN names' : names'[i] # "" /\ names'[i] \notin Rendering!Reserved(format)
    BY <1>2, <1>4, <2>1 DEF RenderingInv, Rendering!NamesResolve
  <2>4. \A i, j \in DOMAIN names' : names'[i] = names'[j] => i = j
    BY <1>4, <2>1 DEF RenderingInv, Rendering!NamesResolve
  <2>5. tag \in Rendering!Targets(format) => format = "clash" /\ tag = configs[k].remark
    <3> SUFFICES ASSUME tag \in Rendering!Targets(format)
                 PROVE  format = "clash" /\ tag = configs[k].remark
      OBVIOUS
    <3>1. format = "clash" /\ tag \in {"DIRECT", "REJECT"}
      BY <2>1, <1>3, ReservedAre
    <3>2. tag = wanted
      BY <3>1, <1>2, <1>3, PositionalDiffer
    <3>3. AddressName \notin {"DIRECT", "REJECT"}
      BY NamesAssumption
    <3> QED
      BY <3>1, <3>2, <3>3 DEF Rendering!Remark
  <2>6. \A i \in DOMAIN names' : names'[i] \in Rendering!Targets(format) =>
          format = "clash" /\ names'[i] = configs[i].remark
    BY <1>4, <2>5 DEF RenderingInv, Rendering!NamesResolve
  <2>7. Rendering!Targets(format)' = Rendering!Targets(format)
    BY <1>1 DEF Rendering!Targets
  <2> QED
    BY <2>2, <2>3, <2>4, <2>6, <2>7, <1>1 DEF Rendering!NamesResolve
<1>9. Rendering!NameKept'
  <2> DEFINE Own(i) ==
        LET r == configs[i].remark IN
        /\ r \notin {"", AddressName} \cup Rendering!Reserved(format)
        /\ \A n \in DOMAIN Positional : Positional[n] # r
        /\ \A j \in DOMAIN configs : configs[j].remark = r => j = i
  <2>1. \A i \in DOMAIN names : Own(i) => names'[i] = configs[i].remark
    BY <1>4 DEF RenderingInv, Rendering!NameKept
  <2>2. ASSUME Own(k) PROVE tag = configs[k].remark
    <3>1. wanted = configs[k].remark /\ wanted # ""
      BY <2>2 DEF Rendering!Remark
    <3>2. ASSUME NEW i \in DOMAIN names PROVE names[i] # configs[k].remark
      <4>1. i # k /\ i \in DOMAIN configs
        BY <1>3, <1>4 DEF k
      <4>2. configs[i].remark # configs[k].remark
        BY <4>1, <2>2
      <4>3. Rendering!Remark(format, configs[i]) # configs[k].remark
        BY <4>2, <2>2 DEF Rendering!Remark
      <4>4. \A n \in DOMAIN Positional : Positional[n] # configs[k].remark
        BY <2>2
      <4> QED
        BY <4>3, <4>4 DEF RenderingInv, Tagged
    <3>3. wanted \notin Rendering!Used
      BY <3>1, <3>2, <2>2 DEF Rendering!Used
    <3> QED
      BY <3>1, <3>3, <1>2
  <2>3. \A i \in DOMAIN names' : Own(i) => names'[i] = configs[i].remark
    BY <2>1, <2>2, <1>4
  <2>4. Rendering!Reserved(format)' = Rendering!Reserved(format)
    BY <1>1 DEF Rendering!Reserved
  <2> QED
    BY <2>3, <2>4, <1>1 DEF Rendering!NameKept
<1>10. Rendering!EarliestExpiry'
  BY <1>1 DEF RenderingInv, Rendering!EarliestExpiry, Rendering!Dated
<1> QED
  BY <1>1, <1>5, <1>6, <1>7, <1>8, <1>9, <1>10 DEF RenderingInv

LEMMA RenderingNextKeeps == RenderingInv /\ [Rendering!Next]_(Rendering!vars) => RenderingInv'
<1>1. RenderingInv /\ UNCHANGED Rendering!vars => RenderingInv'
  <2> SUFFICES ASSUME RenderingInv, UNCHANGED Rendering!vars PROVE RenderingInv'
    OBVIOUS
  <2>1. UNCHANGED <<format, nodes, merged, expire, jsonConfigs, items, rendered, configs, names>>
    BY DEF Rendering!vars
  <2>2. Rendering!TypeOK' /\ (names # <<>> => Complete)'
    BY <2>1 DEF RenderingInv, Rendering!TypeOK, Complete, Rendering!Aggregated
  <2>3. Tagged'
    BY <2>1 DEF RenderingInv, Tagged, Rendering!Remark
  <2>4. /\ Rendering!Reserved(format)' = Rendering!Reserved(format)
        /\ Rendering!Targets(format)' = Rendering!Targets(format)
    BY <2>1 DEF Rendering!Reserved, Rendering!Targets
  <2>5. Rendering!NamesResolve'
    BY <2>1, <2>4 DEF RenderingInv, Rendering!NamesResolve
  <2>6. Rendering!NameKept'
    BY <2>1, <2>4 DEF RenderingInv, Rendering!NameKept
  <2>7. Rendering!EarliestExpiry'
    BY <2>1 DEF RenderingInv, Rendering!EarliestExpiry, Rendering!Dated
  <2> QED
    BY <2>2, <2>3, <2>5, <2>6, <2>7 DEF RenderingInv
<1> QED
  BY <1>1, MergeKeeps, RenderNextKeeps, TagNextKeeps DEF Rendering!Next

(* Whatever the panels call their servers and whichever nodes answer, every  *)
(* name of a profile is unique and none of its own outbounds', only a remark *)
(* that is just that takes the name of a built-in policy of Clash, a name    *)
(* that is nobody else's survives, and the expiry shown is the earliest of   *)
(* those reported after the last node without end (tagProxyOutbounds,        *)
(* tagSingboxOutbounds, tagClashProxies, freeProxyTag, updateMinExpire).     *)
THEOREM ProfilesAreSound == Rendering!Spec => []RenderedSoundly
<1>1. RenderingInv => RenderedSoundly
  BY DEF RenderingInv, RenderedSoundly, Rendering!RenderedSoundly
<1> QED
  BY <1>1, RenderingInitHolds, RenderingNextKeeps, PTL DEF Rendering!Spec

-----------------------------------------------------------------------------
(* The three together                                                        *)

(* In every behaviour of the subscription server the row, the cache and the  *)
(* requests, the profile under construction and the log's queue keep their   *)
(* types and bounds.                                                         *)
THEOREM SubserverIsTyped == SubserverSpec => []TypesOK
<1> DEFINE Inv == TypeOK /\ RenderingInv /\ LogInv
<1>1. SubserverInit => Inv
  BY InitTyped, RenderingInitHolds, LogInitHolds DEF SubserverInit
<1>2. ASSUME Inv, [SubserverNext]_<<vars, part, rendering, log>> PROVE Inv'
  <2>1. [Next]_vars /\ [Rendering!Next]_(Rendering!vars) /\ [Log!Next]_(Log!vars)
    BY <1>2 DEF SubserverNext, rendering, log, Rendering!vars, Log!vars
  <2> QED
    BY <1>2, <2>1, NextTyped, RenderingNextKeeps, LogNextKeeps
<1>3. Inv => TypesOK
  BY DEF TypesOK, RenderingInv, LogInv
<1> QED
  BY <1>1, <1>2, <1>3, PTL DEF SubserverSpec
=============================================================================
