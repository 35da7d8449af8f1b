--------------------------- MODULE SubserverCache ---------------------------
(***************************************************************************)
(* The subscription endpoint /sub/:id for one subscription: the cache of    *)
(* rendered answers, one per output format, the requests that read, miss    *)
(* and refill it, and the services that change the row and then drop the    *)
(* cached answers. (internal/subserver: subscription_handler.go,            *)
(* subscription_handler_split.go, flight.go, cache.go, service.go)          *)
(*                                                                          *)
(* What an answer says (plan, limit, nodes) is abstracted to the number of  *)
(* the row's last change that its reader saw.                               *)
(***************************************************************************)
EXTENDS Naturals, FiniteSets, SequencesExt

CONSTANTS Requests,    \* goroutines of the web server, each from a device of its own
          Formats,     \* Xray, sing-box, Clash
          NoRequest,
          OldDevice,   \* a device recorded earlier
          MaxDevices,  \* MaxDeviceEntries
          MaxChanges,  \* changes of the row in a behaviour
          MaxFaults    \* database errors and panics in a behaviour

ASSUME SubserverAssumption ==
  /\ NoRequest \notin Requests /\ OldDevice \notin Requests
  /\ MaxDevices \in Nat \ {0} /\ MaxChanges \in Nat /\ MaxFaults \in Nat

VARIABLES
  content,   \* the row: number of its last change
  live,      \* the row: active and not expired
  due,       \* changes whose invalidation has not run yet
  cache,     \* format: the cached answer
  flight,    \* format: the request that fetches it (flightGroup.calls)
  locked,    \* the request that holds the analytics lock
  devices,   \* the devices column
  seen,      \* the list that results when each write adds to the one before
  past,      \* the lists it has held: a service may have loaded a row with any of them
  rewritten, \* one has written another list since the lock's holder loaded its own
  pc, fmt,   \* request: where it is, the format it wants
  copy,      \* request: the row it loaded
  answer,    \* request: what it will answer
  leader,    \* request: the flight it waits for
  entitled,  \* request: the row was live at some moment since it came
  faults

row == <<content, live, due>>
column == <<devices, seen, past, rewritten>>
req == <<pc, fmt, copy, answer, leader, entitled>>
vars == <<row, cache, flight, locked, column, req, faults>>

Versions == 0 .. MaxChanges
None == [content |-> 0, complete |-> FALSE, kind |-> "none"]
Kinds == {"none", "fresh", "expired"}
Entries == [content : Versions, complete : BOOLEAN, kind : Kinds]
Nothing == [content |-> 0, complete |-> FALSE, kind |-> "nothing"]
Answers == [content : Versions, complete : BOOLEAN,
            kind : {"nothing", "body", "notFound", "error", "noItems", "broken"}]
Body(c, complete) == [content |-> c, complete |-> complete, kind |-> "body"]
Failure(k) == [content |-> 0, complete |-> FALSE, kind |-> k]
Blank == [content |-> 0, devices |-> <<>>]
Devices == Requests \cup {OldDevice}
Lists == UNION {[1 .. n -> Devices] : n \in 0 .. MaxDevices}
Pcs == {"idle", "done", "get", "revalidate", "drop", "lock", "load", "record", "join", "wait",
        "check", "fetch", "store", "publish", "close", "reply"}

(* The row, the cache and the requests' places have their types.             *)
TypeOK ==
  /\ content \in Versions /\ live \in BOOLEAN /\ due \in 0 .. content
  /\ cache \in [Formats -> Entries]
  /\ flight \in [Formats -> Requests \cup {NoRequest}]
  /\ locked \in Requests \cup {NoRequest}
  /\ devices \in Lists /\ seen \in Lists /\ past \subseteq Lists
  /\ rewritten \in BOOLEAN
  /\ pc \in [Requests -> Pcs] /\ fmt \in [Requests -> Formats]
  /\ copy \in [Requests -> [content : Versions, devices : Lists]]
  /\ answer \in [Requests -> Answers]
  /\ leader \in [Requests -> Requests \cup {NoRequest}]
  /\ entitled \in [Requests -> BOOLEAN]
  /\ faults \in 0 .. MaxFaults

Init ==
  /\ content = 0 /\ live = TRUE /\ due = 0
  /\ cache = [f \in Formats |-> None]
  /\ flight = [f \in Formats |-> NoRequest]
  /\ locked = NoRequest
  /\ devices = <<OldDevice>> /\ seen = <<OldDevice>>
  /\ past = {devices} /\ rewritten = FALSE
  /\ pc = [r \in Requests |-> "idle"]
  /\ fmt \in [Requests -> Formats]
  /\ copy = [r \in Requests |-> Blank]
  /\ answer = [r \in Requests |-> Nothing]
  /\ leader = [r \in Requests |-> NoRequest]
  /\ entitled = [r \in Requests |-> FALSE]
  /\ faults = 0

-----------------------------------------------------------------------------
Fresh(f) == cache[f].kind = "fresh"
Goto(r, place) == pc' = [pc EXCEPT ![r] = place]
Answer(r, a, place) == answer' = [answer EXCEPT ![r] = a] /\ Goto(r, place)

Fault ==
  /\ faults < MaxFaults
  /\ faults' = faults + 1

(* A request comes in; the format follows from its headers.                  *)
Ask(r) ==
  /\ pc[r] = "idle"
  /\ Goto(r, "get")
  /\ entitled' = [entitled EXCEPT ![r] = live]
  /\ UNCHANGED <<row, cache, flight, locked, column, fmt, copy, answer, leader, faults>>

CacheGet(r) ==
  /\ pc[r] = "get"
  /\ IF Fresh(fmt[r])
     THEN Answer(r, Body(cache[fmt[r]].content, cache[fmt[r]].complete), "revalidate")
     ELSE Goto(r, "lock") /\ UNCHANGED answer
  /\ UNCHANGED <<row, cache, flight, locked, column, fmt, copy, leader, entitled, faults>>

(* Mutant: a hit is served as it is. *)
RevalidateByCache(r) ==
  /\ pc[r] = "revalidate"
  /\ Goto(r, "reply")
  /\ UNCHANGED <<row, cache, flight, locked, column, fmt, copy, answer, leader, entitled,
                 faults>>

(* A hit is checked against the row; without an answer nothing is served.    *)
Revalidate(r) ==
  /\ pc[r] = "revalidate"
  /\ \/ live /\ Goto(r, "reply") /\ UNCHANGED <<answer, faults>>
     \/ ~live /\ Answer(r, Failure("notFound"), "drop") /\ UNCHANGED faults
     \/ Fault /\ Answer(r, Failure("error"), "reply")
  /\ UNCHANGED <<row, cache, flight, locked, column, fmt, copy, leader, entitled>>

DropKey(r) ==
  /\ pc[r] = "drop"
  /\ cache' = [cache EXCEPT ![fmt[r]] = None]
  /\ Goto(r, "reply")
  /\ UNCHANGED <<row, flight, locked, column, fmt, copy, answer, leader, entitled, faults>>

(* Mutant: the lock does not exclude. *)
LockShared(r) ==
  /\ pc[r] = "lock"
  /\ locked' = r
  /\ Goto(r, "load")
  /\ UNCHANGED <<row, cache, flight, column, fmt, copy, answer, leader, entitled, faults>>

(* A miss loads the row and records the device under the lock.               *)
Lock(r) ==
  /\ pc[r] = "lock" /\ locked = NoRequest
  /\ locked' = r
  /\ Goto(r, "load")
  /\ UNCHANGED <<row, cache, flight, column, fmt, copy, answer, leader, entitled, faults>>

Load(r) ==
  /\ pc[r] = "load"
  /\ \/ /\ live
        /\ copy' = [copy EXCEPT ![r] = [content |-> content, devices |-> devices]]
        /\ Goto(r, "record")
        /\ UNCHANGED <<answer, locked, faults>>
     \/ /\ ~live
        /\ Answer(r, Failure("notFound"), "reply")
        /\ locked' = NoRequest
        /\ UNCHANGED <<copy, faults>>
     \/ /\ Fault
        /\ Answer(r, Failure("error"), "reply")
        /\ locked' = NoRequest
        /\ UNCHANGED copy
  /\ rewritten' = FALSE
  /\ UNCHANGED <<row, cache, flight, devices, seen, past, fmt, leader, entitled>>

(* Mutant: the list is not cut. *)
LatestUncut(list) == list

Latest(list) ==
  IF Len(list) > MaxDevices THEN SubSeq(list, Len(list) - MaxDevices + 1, Len(list)) ELSE list

(* The list without the device's first entry, the device, the newest of all. *)
Seen(list, r) == Latest(Append(RemoveFirst(list, r), r))

(* UpdateDevices; an error of the database is only logged.                   *)
Record(r) ==
  /\ pc[r] = "record"
  /\ \/ /\ devices' = Seen(copy[r].devices, r)
        /\ seen' = IF rewritten THEN devices' ELSE Seen(seen, r)
        /\ UNCHANGED faults
     \/ Fault /\ UNCHANGED <<devices, seen>>
  /\ past' = past \cup {devices'}
  /\ locked' = NoRequest /\ rewritten' = FALSE
  /\ Goto(r, "join")
  /\ UNCHANGED <<row, cache, flight, fmt, copy, answer, leader, entitled>>

(* flightGroup.Do: the first of the requests for a format fetches.           *)
Join(r) ==
  /\ pc[r] = "join"
  /\ IF flight[fmt[r]] = NoRequest
     THEN flight' = [flight EXCEPT ![fmt[r]] = r] /\ Goto(r, "check") /\ UNCHANGED leader
     ELSE leader' = [leader EXCEPT ![r] = flight[fmt[r]]] /\ Goto(r, "wait") /\ UNCHANGED flight
  /\ UNCHANGED <<row, cache, locked, column, fmt, copy, answer, entitled, faults>>

(* Mutant: a new leader fetches at once. *)
CheckSkipped(r) ==
  /\ pc[r] = "check"
  /\ Goto(r, "fetch")
  /\ UNCHANGED <<row, cache, flight, locked, column, fmt, copy, answer, leader, entitled,
                 faults>>

CheckAgain(r) ==
  /\ pc[r] = "check"
  /\ IF Fresh(fmt[r])
     THEN Answer(r, Body(cache[fmt[r]].content, cache[fmt[r]].complete), "publish")
     ELSE Goto(r, "fetch") /\ UNCHANGED answer
  /\ UNCHANGED <<row, cache, flight, locked, column, fmt, copy, leader, entitled, faults>>

(* All sources answer, some do, or nothing usable comes of it.               *)
Fetch(r) ==
  /\ pc[r] = "fetch"
  /\ \/ Answer(r, Body(copy[r].content, TRUE), "store")
     \/ Answer(r, Body(copy[r].content, FALSE), "publish")
     \/ Answer(r, Failure("noItems"), "publish")
  /\ UNCHANGED <<row, cache, flight, locked, column, fmt, copy, leader, entitled, faults>>

(* Mutant: a panic unwinds past the end of the flight. *)
PanicsThrough(r) ==
  /\ pc[r] = "fetch"
  /\ Fault
  /\ Answer(r, Failure("broken"), "reply")
  /\ UNCHANGED <<row, cache, flight, locked, column, fmt, copy, leader, entitled>>

Panics(r) ==
  /\ pc[r] = "fetch"
  /\ Fault
  /\ Answer(r, Failure("broken"), "publish")
  /\ UNCHANGED <<row, cache, flight, locked, column, fmt, copy, leader, entitled>>

Store(r) ==
  /\ pc[r] = "store"
  /\ cache' = [cache EXCEPT ![fmt[r]] =
                 [content |-> answer[r].content, complete |-> answer[r].complete, kind |-> "fresh"]]
  /\ Goto(r, "publish")
  /\ UNCHANGED <<row, flight, locked, column, fmt, copy, answer, leader, entitled, faults>>

(* The deferred end of a flight: out of the map, then the channel is closed. *)
Publish(r) ==
  /\ pc[r] = "publish"
  /\ flight' = [flight EXCEPT ![fmt[r]] = NoRequest]
  /\ Goto(r, "close")
  /\ UNCHANGED <<row, cache, locked, column, fmt, copy, answer, leader, entitled, faults>>

Followers(r) == {q \in Requests : pc[q] = "wait" /\ leader[q] = r}

Close(r) ==
  /\ pc[r] = "close"
  /\ pc' = [q \in Requests |-> IF q \in Followers(r) \cup {r} THEN "reply" ELSE pc[q]]
  /\ answer' = [q \in Requests |-> IF q \in Followers(r) THEN answer[r] ELSE answer[q]]
  /\ leader' = [q \in Requests |-> IF q \in Followers(r) THEN NoRequest ELSE leader[q]]
  /\ UNCHANGED <<row, cache, flight, locked, column, fmt, copy, entitled, faults>>

Reply(r) ==
  /\ pc[r] = "reply"
  /\ Answer(r, Nothing, "done")
  /\ copy' = [copy EXCEPT ![r] = Blank]
  /\ entitled' = [entitled EXCEPT ![r] = FALSE]
  /\ UNCHANGED <<row, cache, flight, locked, column, fmt, leader, faults>>

-----------------------------------------------------------------------------
(* The services, time and the cache's own housekeeping                       *)

Change ==
  /\ content < MaxChanges
  /\ content' = content + 1 /\ due' = due + 1
  /\ live' \in BOOLEAN
  /\ entitled' = [r \in Requests |-> entitled[r] \/ (live' /\ pc[r] \notin {"idle", "done"})]
  /\ UNCHANGED <<cache, flight, locked, pc, fmt, copy, answer, leader, faults>>

(* The transaction of a payment, or of an expiry, leaves the list alone. The *)
(* hook is called afterwards.                                                *)
Transact == Change /\ UNCHANGED column

(* A revocation, reanimation or change of plan writes every column of a row  *)
(* it loaded before: the list as it was then, or none if it reanimates.      *)
UpdateSubscription ==
  /\ Change
  /\ devices' \in past \cup {<<>>} /\ seen' = devices' /\ past' = past \cup {devices'}
  /\ rewritten' = (locked # NoRequest /\ (rewritten \/ devices' # devices))

InvalidateSubscriber ==
  /\ due > 0
  /\ due' = due - 1
  /\ cache' = [f \in Formats |-> None]
  /\ UNCHANGED <<content, live, flight, locked, column, req, faults>>

(* The paid period ends: no hook is called.                                  *)
PeriodEnds ==
  /\ live
  /\ live' = FALSE
  /\ UNCHANGED <<content, due, cache, flight, locked, column, req, faults>>

EntryExpires(f) ==
  /\ Fresh(f)
  /\ cache' = [cache EXCEPT ![f] = [content |-> cache[f].content, complete |-> cache[f].complete,
                                     kind |-> "expired"]]
  /\ UNCHANGED <<row, flight, locked, column, req, faults>>

(* The cleanup loop, or the room another subscription's answer needs.        *)
Evict(f) ==
  /\ cache[f].kind # "none"
  /\ cache' = [cache EXCEPT ![f] = None]
  /\ UNCHANGED <<row, flight, locked, column, req, faults>>

Serve(r) ==
  \/ CacheGet(r) \/ Revalidate(r) \/ DropKey(r) \/ Lock(r) \/ Load(r) \/ Record(r)
  \/ Join(r) \/ CheckAgain(r) \/ Fetch(r) \/ Store(r) \/ Publish(r) \/ Close(r) \/ Reply(r)

Next ==
  \/ \E r \in Requests : Ask(r) \/ Serve(r) \/ Panics(r)
  \/ Transact \/ UpdateSubscription \/ InvalidateSubscriber \/ PeriodEnds
  \/ \E f \in Formats : EntryExpires(f) \/ Evict(f)

Spec == Init /\ [][Next]_vars

(* A goroutine that has something to do goes on; a mutex is fair in the end; *)
(* the hook is called in the goroutine that committed.                       *)
Fairness ==
  /\ \A r \in Requests : WF_vars(Serve(r)) /\ SF_vars(Lock(r))
  /\ WF_vars(InvalidateSubscriber)
  /\ \A f \in Formats : WF_vars(EntryExpires(f))

FairSpec == Spec /\ Fairness

-----------------------------------------------------------------------------
(* Properties                                                                *)

(* A request that came after the subscription was revoked or had expired is  *)
(* not given the configuration, from the cache or from another's flight      *)
(* either.                                                                   *)
ServedWhileEntitled ==
  \A r \in Requests : pc[r] = "reply" /\ answer[r].kind = "body" => entitled[r]

(* The sources are asked by one request of a format at a time, and never     *)
(* while the cache holds a valid answer: late comers start no second fan-out.*)
NoNeedlessFanOut ==
  \A r \in Requests : pc[r] \in {"fetch", "store"} =>
    /\ ~Fresh(fmt[r])
    /\ \A q \in Requests : pc[q] \in {"fetch", "store"} /\ fmt[q] = fmt[r] => q = r

(* No request overwrites the device another one recorded: each adds its own  *)
(* to the latest of the list the column holds, in the order of their writes. *)
(* Only a service that writes the whole row back takes recorded devices away,*)
(* and a request that it overtakes restores what it loaded.                  *)
DevicesInOrder == devices = seen

(* No request waits for ever, not even behind a fetch that panicked.         *)
EveryRequestEnds == \A r \in Requests : (pc[r] = "get") ~> (pc[r] = "done")
=============================================================================
