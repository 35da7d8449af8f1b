------------------------ MODULE TrialAdmissionProofs ------------------------
(***************************************************************************)
(* The limit of trials per address, for any visitors, limit and lengths of   *)
(* the hour and of the second. What makes it hold: between counting and      *)
(* recording nobody else records, for the lock is held; and the cleanup      *)
(* spares whatever any window of an hour less a second that reaches the      *)
(* present may still count.                                                  *)
(***************************************************************************)
EXTENDS TrialAdmission, FiniteSetTheorems, TLAPS

(* What the constants have to be.                                            *)
Bounds == RateLimit \in Nat /\ Hour \in Nat /\ Second \in Nat \ {0} /\ MaxTime \in Nat

Window(start) == {r \in admitted : start <= r.time /\ r.time + Second <= start + Hour}

Shape ==
  /\ now \in 0 .. MaxTime
  /\ records \subseteq Records /\ admitted \subseteq Records
  /\ IsFiniteSet(records) /\ IsFiniteSet(admitted)
  /\ mutex \in BOOLEAN
  /\ at \in [Visitors -> Places]

(* Between the count and the record a visitor is alone.                      *)
Inside(v) == at[v] \in {"count", "record"}
Serialized ==
  /\ \A v \in Visitors : Inside(v) => mutex
  /\ \A v, w \in Visitors : Inside(v) /\ Inside(w) => v = w

(* The cleanup has spared what an hour less a second that ends now counts.   *)
Spared == \A r \in admitted : now + Second <= r.time + Hour => r \in records

(* Who is about to record leaves room for its record.                        *)
Room == \A v \in Visitors : at[v] = "record" => Cardinality(Recent) < RateLimit

IInv == Shape /\ Serialized /\ Spared /\ Room /\ HourlyLimit

LEMMA RecentIsFinite == ASSUME Shape PROVE IsFiniteSet(Recent) /\ Cardinality(Recent) \in Nat
<1>1. Recent \subseteq records
  BY DEF Recent
<1> QED
  BY <1>1, FS_Subset, FS_CardinalityType DEF Shape

LEMMA InitHolds == Bounds /\ Init => IInv
<1> SUFFICES ASSUME Bounds, Init PROVE IInv
  OBVIOUS
<1>1. Shape
  <2>1. now \in 0 .. MaxTime
    BY DEF Init, Bounds
  <2> QED
    BY <2>1, FS_EmptySet DEF Init, Shape, Places
<1>2. Serialized /\ Spared /\ Room
  BY DEF Init, Serialized, Inside, Spared, Room
<1>3. HourlyLimit
  <2>1. ASSUME NEW start \in 0 .. MaxTime PROVE Window(start) = {}
    BY DEF Init, Window
  <2> QED
    BY <2>1, FS_EmptySet DEF HourlyLimit, Window, Bounds
<1> QED
  BY <1>1, <1>2, <1>3 DEF IInv

(* A step that neither records nor forgets nor lets time pass.               *)
LEMMA ArriveKeeps ==
  \A v \in Visitors : Bounds /\ IInv /\ (ReadCookie(v) \/ CreateAndRender(v)) => IInv'
<1> SUFFICES ASSUME NEW v \in Visitors, Bounds, IInv, ReadCookie(v) \/ CreateAndRender(v) PROVE IInv'
  OBVIOUS
<1>1. UNCHANGED <<now, records, admitted, mutex>>
  BY DEF ReadCookie, CreateAndRender
<1>2. PICK p \in {"page", "lock", "refused"} : at' = [at EXCEPT ![v] = p]
  BY DEF ReadCookie, CreateAndRender, Move
<1>3. Shape'
  BY <1>1, <1>2 DEF IInv, Shape, Places
<1>4. \A w \in Visitors : at'[w] = at[w] \/ at'[w] \in {"page", "lock", "refused"}
  BY <1>2 DEF IInv, Shape
<1>5. Serialized' /\ Room'
  BY <1>1, <1>4 DEF IInv, Serialized, Inside, Room, Recent
<1>6. Spared' /\ HourlyLimit'
  BY <1>1 DEF IInv, Spared, HourlyLimit
<1> QED
  BY <1>3, <1>5, <1>6 DEF IInv

LEMMA LockKeeps == \A v \in Visitors : Bounds /\ IInv /\ LockRate(v) => IInv'
<1> SUFFICES ASSUME NEW v \in Visitors, Bounds, IInv, LockRate(v) PROVE IInv'
  OBVIOUS
<1>1. UNCHANGED <<now, records, admitted>> /\ ~mutex /\ mutex' = TRUE
  BY DEF LockRate
<1>2. at' = [at EXCEPT ![v] = "count"]
  BY DEF LockRate, Move
<1>3. Shape'
  BY <1>1, <1>2 DEF IInv, Shape, Places
<1>4. at'[v] = "count" /\ \A w \in Visitors \ {v} : at'[w] = at[w]
  BY <1>2 DEF IInv, Shape
<1>5. \A w \in Visitors : ~Inside(w)
  BY <1>1 DEF IInv, Serialized
<1>6. Serialized' /\ Room'
  BY <1>1, <1>4, <1>5 DEF Serialized, Inside, Room
<1>7. Spared' /\ HourlyLimit'
  BY <1>1 DEF IInv, Spared, HourlyLimit
<1> QED
  BY <1>3, <1>6, <1>7 DEF IInv

LEMMA CountKeeps == \A v \in Visitors : Bounds /\ IInv /\ CountRequests(v) => IInv'
<1> SUFFICES ASSUME NEW v \in Visitors, Bounds, IInv, CountRequests(v) PROVE IInv'
  OBVIOUS
<1>1. UNCHANGED <<now, records, admitted>> /\ Inside(v)
  BY DEF CountRequests, Inside
<1>2. PICK p \in {"record", "refused"} :
        /\ at' = [at EXCEPT ![v] = p]
        /\ p = "record" => Cardinality(Recent) < RateLimit /\ mutex' = mutex
        /\ p = "refused" => mutex' = FALSE
  BY DEF CountRequests, Move
<1>3. Shape'
  BY <1>1, <1>2 DEF IInv, Shape, Places
<1>4. at'[v] = p /\ \A w \in Visitors \ {v} : at'[w] = at[w] /\ ~Inside(w)
  BY <1>1, <1>2 DEF IInv, Shape, Serialized
<1>5. Serialized' /\ Room'
  BY <1>1, <1>2, <1>4 DEF IInv, Serialized, Inside, Room, Recent
<1>6. Spared' /\ HourlyLimit'
  BY <1>1 DEF IInv, Spared, HourlyLimit
<1> QED
  BY <1>3, <1>5, <1>6 DEF IInv

(* Every window that the new record falls into counts only recent records.   *)
LEMMA RecordKeeps == \A v \in Visitors : Bounds /\ IInv /\ RecordRequest(v) => IInv'
<1> SUFFICES ASSUME NEW v \in Visitors, Bounds, IInv, RecordRequest(v) PROVE IInv'
  OBVIOUS
<1> DEFINE new == [by |-> v, time |-> now]
<1>1. at[v] = "record" /\ Inside(v) /\ now' = now /\ mutex' = FALSE
  BY DEF RecordRequest, Inside
<1>2. PICK p \in {"create", "refused"} : at' = [at EXCEPT ![v] = p]
  BY DEF RecordRequest, Move
<1>3. \/ records' = records \cup {new} /\ admitted' = admitted \cup {new}
      \/ records' = records /\ admitted' = admitted
  BY DEF RecordRequest
<1>4. new \in Records /\ new.time = now /\ now \in Nat
  BY DEF IInv, Shape, Records, Bounds
<1>5. at'[v] = p /\ \A w \in Visitors \ {v} : at'[w] = at[w] /\ ~Inside(w)
  BY <1>1, <1>2 DEF IInv, Shape, Serialized
<1>6. Shape'
  <2>1. IsFiniteSet(records \cup {new}) /\ IsFiniteSet(admitted \cup {new})
    BY FS_AddElement DEF IInv, Shape
  <2> QED
    BY <2>1, <1>1, <1>2, <1>3, <1>4 DEF IInv, Shape, Places
<1>7. Serialized' /\ Room'
  BY <1>5 DEF Serialized, Inside, Room
<1>8. Spared'
  BY <1>1, <1>3, <1>4 DEF IInv, Spared
<1>9. HourlyLimit'
  <2>1. CASE admitted' = admitted
    BY <2>1 DEF IInv, HourlyLimit
  <2>2. CASE admitted' = admitted \cup {new}
    <3> SUFFICES ASSUME NEW start \in 0 .. MaxTime
                 PROVE Cardinality(Window(start)') <= RateLimit
      BY DEF HourlyLimit, Window
    <3>1. CASE start <= now /\ now + Second <= start + Hour
      <4>1. \A r \in Window(start) : r \in Recent
        <5> SUFFICES ASSUME NEW r \in Window(start) PROVE r \in Recent
          OBVIOUS
        <5>1. r \in admitted /\ start <= r.time /\ r.time \in Nat
          BY DEF Window, IInv, Shape, Records
        <5>2. now + Second <= r.time + Hour /\ r.time + Hour > now
          BY <5>1, <3>1, <1>4 DEF Bounds
        <5> QED
          BY <5>1, <5>2 DEF IInv, Spared, Recent
      <4>2. Window(start)' \subseteq Recent \cup {new}
        BY <4>1, <2>2 DEF Window
      <4>3. IsFiniteSet(Recent) /\ Cardinality(Recent) \in Nat
        BY RecentIsFinite DEF IInv
      <4>4. /\ IsFiniteSet(Recent \cup {new})
            /\ Cardinality(Recent \cup {new}) <= Cardinality(Recent) + 1
        BY <4>3, FS_AddElement
      <4>5. Cardinality(Recent) < RateLimit
        BY <1>1 DEF IInv, Room
      <4>6. /\ Cardinality(Window(start)') \in Nat
            /\ Cardinality(Window(start)') <= Cardinality(Recent \cup {new})
        BY <4>2, <4>4, FS_Subset, FS_CardinalityType
      <4>7. Cardinality(Recent \cup {new}) \in Nat
        BY <4>4, FS_CardinalityType
      <4> QED
        BY <4>3, <4>4, <4>5, <4>6, <4>7 DEF Bounds
    <3>2. CASE ~(start <= now /\ now + Second <= start + Hour)
      <4>1. Window(start)' = Window(start)
        BY <2>2, <3>2, <1>4 DEF Window
      <4> QED
        BY <4>1 DEF IInv, HourlyLimit, Window
    <3> QED
      BY <3>1, <3>2
  <2> QED
    BY <1>3, <2>1, <2>2
<1> QED
  BY <1>6, <1>7, <1>8, <1>9 DEF IInv

(* What is recent only shrinks with time and cleanup.                        *)
LEMMA TimeKeeps == Bounds /\ IInv /\ (ForgetOld \/ Tick) => IInv'
<1> SUFFICES ASSUME Bounds, IInv, ForgetOld \/ Tick PROVE IInv'
  OBVIOUS
<1>1. UNCHANGED <<admitted, mutex, at>> /\ records' \subseteq records
  BY DEF ForgetOld, Tick
<1>2. now \in Nat /\ now' \in 0 .. MaxTime /\ (now' = now \/ now' = now + 1)
  BY DEF ForgetOld, Tick, IInv, Shape, Bounds
<1>3. \A r \in records : r.time \in Nat
  BY DEF IInv, Shape, Records
<1>4. Shape'
  BY <1>1, <1>2, FS_Subset DEF IInv, Shape
<1>5. Serialized' /\ HourlyLimit'
  BY <1>1 DEF IInv, Serialized, Inside, HourlyLimit
<1>6. Spared'
  <2>1. CASE ForgetOld
    BY <2>1 DEF ForgetOld, IInv, Spared
  <2>2. CASE Tick
    <3> SUFFICES ASSUME NEW r \in admitted, now + 1 + Second <= r.time + Hour PROVE r \in records
      BY <2>2 DEF Tick, Spared
    <3>1. r.time \in Nat
      BY DEF IInv, Shape, Records
    <3> QED
      BY <3>1, <1>2 DEF IInv, Spared, Bounds
  <2> QED
    BY <2>1, <2>2
<1>7. Room'
  <2>1. Recent' \subseteq Recent
    BY <1>1, <1>2, <1>3 DEF Recent, Bounds
  <2>2. /\ Cardinality(Recent') <= Cardinality(Recent)
        /\ Cardinality(Recent') \in Nat /\ Cardinality(Recent) \in Nat
    BY <2>1, RecentIsFinite, FS_Subset, FS_CardinalityType DEF IInv
  <2> QED
    BY <2>2, <1>1 DEF IInv, Room, Bounds
<1> QED
  BY <1>4, <1>5, <1>6, <1>7 DEF IInv

LEMMA StutterKeeps == IInv /\ UNCHANGED vars => IInv'
BY DEF IInv, vars, Shape, Serialized, Inside, Spared, Room, Recent, HourlyLimit

LEMMA StepKeeps == Bounds /\ IInv /\ [Next]_vars => IInv'
BY ArriveKeeps, LockKeeps, CountKeeps, RecordKeeps, TimeKeeps, StutterKeeps DEF Next, Visit

LEMMA Invariance == ASSUME Bounds PROVE Spec => []IInv
<1>1. Init => IInv
  BY InitHolds
<1>2. IInv /\ [Next]_vars => IInv'
  BY StepKeeps
<1> QED
  BY <1>1, <1>2, PTL DEF Spec

-----------------------------------------------------------------------------
(* The clock, the records and the goroutines' places keep their types.       *)
THEOREM TypeCorrect == ASSUME Bounds PROVE Spec => []TypeOK
<1>1. IInv => TypeOK
  BY DEF IInv, Shape, TypeOK
<1> QED
  BY <1>1, Invariance, PTL

(* No hour less a second sees more trials of one address than the limit,     *)
(* however many requests overlap and whenever the cleanup runs (HandleInvite,*)
(* ClaimExpiredTrials).                                                      *)
THEOREM LimitHolds == ASSUME Bounds PROVE Spec => []HourlyLimit
<1>1. IInv => HourlyLimit
  BY DEF IInv
<1> QED
  BY <1>1, Invariance, PTL
=============================================================================
