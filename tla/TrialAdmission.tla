--------------------------- MODULE TrialAdmission ---------------------------
(***************************************************************************)
(* The invitation page: how many trials one address may ask for in an hour, *)
(* with requests in parallel, the visitor's cookie, and the cleanup that    *)
(* drops the records of old requests. (internal/web/web.go HandleInvite,    *)
(* internal/database/trials.go)                                             *)
(***************************************************************************)
EXTENDS Naturals, FiniteSets

CONSTANTS Visitors,   \* goroutines of the web server, all from one address
          RateLimit,  \* TrialRateLimit
          Hour,       \* moments in an hour
          Second,     \* moments in a second
          MaxTime

VARIABLES now,
          records,    \* trial_requests: visitor and the moment it was recorded
          admitted,   \* the same, without what the cleanup deleted
          mutex,      \* trialRateMu is taken
          at          \* where each goroutine is

vars == <<now, records, admitted, mutex, at>>

Places == {"arrive", "lock", "count", "record", "create", "page", "refused"}
Records == [by : Visitors, time : 0 .. MaxTime]

(* The clock, the records and the goroutines' places have their types.       *)
TypeOK ==
  /\ now \in 0 .. MaxTime
  /\ records \subseteq Records /\ admitted \subseteq Records
  /\ mutex \in BOOLEAN
  /\ at \in [Visitors -> Places]

Init ==
  /\ now = 0
  /\ records = {} /\ admitted = {}
  /\ mutex = FALSE
  /\ at = [v \in Visitors |-> "arrive"]

Move(v, place) == at' = [at EXCEPT ![v] = place]

(* The cookie of an unactivated trial brings its page back; a query that     *)
(* fails is taken for no cookie.                                             *)
ReadCookie(v) ==
  /\ at[v] = "arrive"
  /\ Move(v, "page") \/ Move(v, "lock")
  /\ UNCHANGED <<now, records, admitted, mutex>>

(* Mutant: the count and the record are not serialized. *)
EnterUnlocked(v) ==
  /\ at[v] = "lock"
  /\ Move(v, "count")
  /\ UNCHANGED <<now, records, admitted, mutex>>

LockRate(v) ==
  /\ at[v] = "lock" /\ ~mutex
  /\ mutex' = TRUE
  /\ Move(v, "count")
  /\ UNCHANGED <<now, records, admitted>>

Recent == {r \in records : r.time + Hour > now}

CountRequests(v) ==
  /\ at[v] = "count"
  /\ \/ /\ Cardinality(Recent) < RateLimit
        /\ Move(v, "record") /\ UNCHANGED mutex
     \/ \* over the limit, or the query fails
        /\ Move(v, "refused") /\ mutex' = FALSE
  /\ UNCHANGED <<now, records, admitted>>

RecordRequest(v) ==
  /\ at[v] = "record"
  /\ mutex' = FALSE
  /\ \/ /\ records' = records \cup {[by |-> v, time |-> now]}
        /\ admitted' = admitted \cup {[by |-> v, time |-> now]}
        /\ Move(v, "create")
     \/ Move(v, "refused") /\ UNCHANGED <<records, admitted>>
  /\ UNCHANGED now

CreateAndRender(v) ==
  /\ at[v] = "create"
  /\ Move(v, "page") \/ Move(v, "refused")
  /\ UNCHANGED <<now, records, admitted, mutex>>

(* ClaimExpiredTrials deletes what is older than an hour less a second.      *)
ForgetOld ==
  /\ records' = {r \in records : r.time + Hour >= now + Second}
  /\ records' # records
  /\ UNCHANGED <<now, admitted, mutex, at>>

Tick ==
  /\ now < MaxTime
  /\ now' = now + 1
  /\ UNCHANGED <<records, admitted, mutex, at>>

Visit(v) == ReadCookie(v) \/ LockRate(v) \/ CountRequests(v) \/ RecordRequest(v) \/ CreateAndRender(v)

Next == (\E v \in Visitors : Visit(v)) \/ ForgetOld \/ Tick

Spec == Init /\ [][Next]_vars

-----------------------------------------------------------------------------
(* No hour less a second, wherever it starts, sees more trials from one      *)
(* address than the limit, although requests overlap and the cleanup deletes *)
(* what they count.                                                          *)
HourlyLimit ==
  \A start \in 0 .. MaxTime :
    Cardinality({r \in admitted : start <= r.time /\ r.time + Second <= start + Hour}) <= RateLimit
=============================================================================
