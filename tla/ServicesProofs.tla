---------------------------- MODULE ServicesProofs ----------------------------
(***************************************************************************)
(* The services, for all the values of their constants: each part keeps its  *)
(* types and its promise, and together they keep all of them.                *)
(*                                                                         *)
(* Trials and their admission are proved about in modules of their own and   *)
(* carried over. Reminders, the calls of a panel and backups are proved      *)
(* about here, each from an inductive invariant that says what its promise   *)
(* rests on: when a window is looked at next (reminders), which flows are    *)
(* still to be sent (calls), what a copy under way already holds (backups).  *)
(* Of the traffic pass and of the process, the safety behind what they       *)
(* promise to do eventually: what stays on record, what is closed last.      *)
(***************************************************************************)
EXTENDS Services, KeyedLockProofs, FiniteSetTheorems, SequenceTheorems, TLAPS

--------------------------------------------------------------------------------
(* Trials and their admission.  What is proved about the two modules by       *)
(* themselves is said here of the same modules as parts of the services.      *)
TrialProofs == INSTANCE TrialLifecycleProofs WITH MaxFaults <- MaxTrialFaults, faults <- trialFaults

AdmissionProofs == INSTANCE TrialAdmissionProofs WITH
  MaxTime <- LastRequest, now <- requestTime, at <- visitor

LEMMA TrialInitIsProved == Trials!Init => TrialProofs!Init
BY DEF Trials!Init, TrialProofs!Init, Trials!NoClient, TrialProofs!NoClient

LEMMA TrialStepIsProved == [Trials!Next]_Trials!vars => [TrialProofs!Next]_TrialProofs!vars
<1> SUFFICES ASSUME [Trials!Next]_Trials!vars PROVE [TrialProofs!Next]_TrialProofs!vars
  OBVIOUS
<1>0. /\ Trials!TrialEmail = TrialProofs!TrialEmail /\ Trials!NoClient = TrialProofs!NoClient
      /\ \A u : Trials!EmailOf(u) = TrialProofs!EmailOf(u)
      /\ Trials!Unbound = TrialProofs!Unbound /\ (Trials!Fault <=> TrialProofs!Fault)
      /\ \A b, place : Trials!Step(b, place) <=> TrialProofs!Step(b, place)
  BY DEF Trials!TrialEmail, TrialProofs!TrialEmail, Trials!NoClient, TrialProofs!NoClient,
         Trials!EmailOf, TrialProofs!EmailOf, Trials!Unbound, TrialProofs!Unbound,
         Trials!Fault, TrialProofs!Fault, Trials!Step, TrialProofs!Step
<1>1. Trials!Create => TrialProofs!Create
  BY <1>0 DEF Trials!Create, TrialProofs!Create, Trials!AddClient, TrialProofs!AddClient,
     Trials!InsertRow, TrialProofs!InsertRow, Trials!UndoClient, TrialProofs!UndoClient
<1>2. ASSUME NEW b \in Binders PROVE Trials!Bind(b) => TrialProofs!Bind(b)
  <2>1. Trials!LoadTrial(b) => TrialProofs!LoadTrial(b)
    BY <1>0 DEF Trials!LoadTrial, TrialProofs!LoadTrial
  <2>2. Trials!RenameClient(b) => TrialProofs!RenameClient(b)
    BY <1>0 DEF Trials!RenameClient, TrialProofs!RenameClient
  <2>3. Trials!CommitBinding(b) => TrialProofs!CommitBinding(b)
    BY <1>0 DEF Trials!CommitBinding, TrialProofs!CommitBinding
  <2>4. Trials!VerifyUnbound(b) => TrialProofs!VerifyUnbound(b)
    BY <1>0 DEF Trials!VerifyUnbound, TrialProofs!VerifyUnbound
  <2>5. Trials!RestoreClient(b) => TrialProofs!RestoreClient(b)
    BY <1>0 DEF Trials!RestoreClient, TrialProofs!RestoreClient
  <2> QED BY <2>1, <2>2, <2>3, <2>4, <2>5 DEF Trials!Bind, TrialProofs!Bind
<1>3. Trials!Clean => TrialProofs!Clean
  BY <1>0 DEF Trials!Clean, TrialProofs!Clean, Trials!ClaimExpired, TrialProofs!ClaimExpired,
     Trials!Deprovision, TrialProofs!Deprovision, Trials!DeleteClaimed, TrialProofs!DeleteClaimed,
     Trials!tally, TrialProofs!tally
<1>4. Trials!TrialEnds \/ Trials!Crash => TrialProofs!TrialEnds \/ TrialProofs!Crash
  BY <1>0 DEF Trials!TrialEnds, TrialProofs!TrialEnds, Trials!Crash, TrialProofs!Crash,
     Trials!tally, TrialProofs!tally
<1>5. UNCHANGED Trials!vars => UNCHANGED TrialProofs!vars
  BY DEF Trials!vars, TrialProofs!vars
<1> QED BY <1>1, <1>2, <1>3, <1>4, <1>5 DEF Trials!Next, TrialProofs!Next

LEMMA AdmissionCardinality ==
  /\ \A S : Admission!Cardinality(S) = Cardinality(S)
  /\ \A S : AdmissionProofs!Cardinality(S) = Cardinality(S)
<1>1. ASSUME NEW S PROVE Admission!Cardinality(S) = Cardinality(S)
  BY DEF Admission!Cardinality, Cardinality, Admission!IsFiniteSet, IsFiniteSet
<1>2. ASSUME NEW S PROVE AdmissionProofs!Cardinality(S) = Cardinality(S)
  BY DEF AdmissionProofs!Cardinality, Cardinality, AdmissionProofs!IsFiniteSet, IsFiniteSet
<1> QED BY <1>1, <1>2

LEMMA AdmissionInitIsProved == Admission!Init => AdmissionProofs!Init
BY DEF Admission!Init, AdmissionProofs!Init

LEMMA AdmissionStepIsProved ==
  [Admission!Next]_Admission!vars => [AdmissionProofs!Next]_AdmissionProofs!vars
<1> SUFFICES ASSUME [Admission!Next]_Admission!vars PROVE [AdmissionProofs!Next]_AdmissionProofs!vars
  OBVIOUS
<1>0. /\ \A v, place : Admission!Move(v, place) <=> AdmissionProofs!Move(v, place)
      /\ Admission!Recent = AdmissionProofs!Recent
      /\ Admission!Cardinality(Admission!Recent) = AdmissionProofs!Cardinality(AdmissionProofs!Recent)
  BY AdmissionCardinality DEF Admission!Move, AdmissionProofs!Move, Admission!Recent, AdmissionProofs!Recent
<1>1. ASSUME NEW v \in Visitors PROVE Admission!Visit(v) => AdmissionProofs!Visit(v)
  <2>1. Admission!ReadCookie(v) => AdmissionProofs!ReadCookie(v)
    BY <1>0 DEF Admission!ReadCookie, AdmissionProofs!ReadCookie
  <2>2. Admission!LockRate(v) => AdmissionProofs!LockRate(v)
    BY <1>0 DEF Admission!LockRate, AdmissionProofs!LockRate
  <2>3. Admission!CountRequests(v) => AdmissionProofs!CountRequests(v)
    BY <1>0 DEF Admission!CountRequests, AdmissionProofs!CountRequests
  <2>4. Admission!RecordRequest(v) => AdmissionProofs!RecordRequest(v)
    BY <1>0 DEF Admission!RecordRequest, AdmissionProofs!RecordRequest
  <2>5. Admission!CreateAndRender(v) => AdmissionProofs!CreateAndRender(v)
    BY <1>0 DEF Admission!CreateAndRender, AdmissionProofs!CreateAndRender
  <2> QED BY <2>1, <2>2, <2>3, <2>4, <2>5 DEF Admission!Visit, AdmissionProofs!Visit
<1>2. Admission!ForgetOld \/ Admission!Tick => AdmissionProofs!ForgetOld \/ AdmissionProofs!Tick
  BY DEF Admission!ForgetOld, AdmissionProofs!ForgetOld, Admission!Tick, AdmissionProofs!Tick
<1>3. UNCHANGED Admission!vars => UNCHANGED AdmissionProofs!vars
  BY DEF Admission!vars, AdmissionProofs!vars
<1> QED BY <1>1, <1>2, <1>3 DEF Admission!Next, AdmissionProofs!Next

(* While a trial's row is bound, the client on the panel is its owner's and   *)
(* stays, whatever other binders, the cleanup and failed calls do            *)
(* (BindTrial, CleanupExpiredTrials): for any followers, binders, binds and  *)
(* faults.                                                                   *)
THEOREM BoundTrialsKeepAccess == Trials!Spec => []BoundKeepsAccess
<1>1. TrialProofs!Spec => []TrialProofs!BoundKeepsAccess
  BY TrialProofs!BoundTrialKeepsAccess
<1>2. TrialProofs!BoundKeepsAccess => BoundKeepsAccess
  BY DEF BoundKeepsAccess, Trials!BoundKeepsAccess, TrialProofs!BoundKeepsAccess,
         Trials!EmailOf, TrialProofs!EmailOf
<1> QED BY <1>1, <1>2, TrialInitIsProved, TrialStepIsProved, PTL DEF Trials!Spec, TrialProofs!Spec

(* An address gets no more trials within an hour than the limit says, however *)
(* its requests overlap with each other and with the deletion of old records *)
(* (HandleInvite): for any visitors, limit, hour and second.                 *)
THEOREM TrialsAreRateLimited == Admission!Spec => []HourlyLimit
<1>1. AdmissionProofs!Bounds
  BY AdmissionAssumption DEF AdmissionProofs!Bounds
<1>2. AdmissionProofs!Spec => []AdmissionProofs!HourlyLimit
  BY <1>1, AdmissionProofs!LimitHolds
<1>3. AdmissionProofs!HourlyLimit => HourlyLimit
  BY AdmissionCardinality DEF HourlyLimit, Admission!HourlyLimit, AdmissionProofs!HourlyLimit
<1> QED BY <1>2, <1>3, AdmissionInitIsProved, AdmissionStepIsProved, PTL
    DEF Admission!Spec, AdmissionProofs!Spec
--------------------------------------------------------------------------------
(* Reminders.  The pass that has loaded the row's present date for window w. *)
Serving(w) == window = w /\ reminderCopy = date

(* The bit of a window is set by the pass that is about to send, or once the *)
(* reminder is out, unless the reminder was lost.                            *)
BitMeans(w) ==
  /\ w \in sent => \/ <<date, w>> \in told \cup spoilt
                   \/ Serving(w) /\ step \in {"send", "release"}
  /\ <<date, w>> \in confirmed => w \in sent

(* No success is repeated: what is being sent is not confirmed yet.          *)
NotYetConfirmed ==
  /\ ~repeated
  /\ window # 0 /\ step \in {"send", "release"} =>
       /\ <<reminderCopy, window>> \notin confirmed
       /\ reminderCopy = date => window \in sent
  /\ window # 0 /\ step # "query" => reminderCopy <= date
  /\ window # 0 /\ step = "release" => <<reminderCopy, window>> \in failed
  /\ \A pair \in confirmed : pair[1] <= date

(* When window w is looked at next.                                          *)
Ahead(w) == \/ window # 0 /\ window < w
            \/ window = w /\ step = "query"
            \/ Serving(w) /\ step \in {"claim", "send"}
Attempt(w) == IF Ahead(w) THEN now ELSE next

(* The reminder of a window that opens after the date was set and that is    *)
(* neither out nor lost: its attempt is not too late, even after a failure.  *)
Due(w) == /\ Expiries[date] >= since + Leads[w] + HalfTick
          /\ <<date, w>> \notin told \cup spoilt
Slack(w) == IF <<date, w>> \in failed THEN Interval + Interval ELSE Interval
InTime(w) == Due(w) => Attempt(w) + Leads[w] + HalfTick <= Expiries[date] + Slack(w)

Clock ==
  /\ now \in Nat /\ next \in Nat /\ since \in Nat /\ since <= now
  /\ now <= next /\ next <= now + Interval

RemindersInv ==
  /\ Reminders!TypeOK /\ Clock /\ NotYetConfirmed
  /\ \A w \in Reminders!Windows : BitMeans(w) /\ InTime(w)

(* What the bounds are, as numbers.                                          *)
LEMMA RemindersNumbers ==
  ASSUME Reminders!TypeOK
  PROVE  /\ HalfTick \in Nat /\ Interval \in Nat \ {0} /\ Interval <= HalfTick
         /\ Reminders!Windows = 1 .. Len(Leads) /\ Len(Leads) \in Nat
         /\ Reminders!Dates = 1 .. Len(Expiries) /\ Len(Expiries) \in Nat \ {0}
         /\ \A w \in Reminders!Windows : Leads[w] \in Nat
         /\ \A d \in Reminders!Dates : Expiries[d] \in Nat
         /\ date \in Reminders!Dates /\ reminderCopy \in Reminders!Dates
         /\ window \in Nat /\ window <= Len(Leads) /\ (window # 0 => window \in Reminders!Windows)
BY RemindersAssumption DEF Reminders!TypeOK, Reminders!Windows, Reminders!Dates

LEMMA RemindersInit == Reminders!Init => RemindersInv
<1> SUFFICES ASSUME Reminders!Init PROVE RemindersInv
  OBVIOUS
<1>1. Reminders!TypeOK
  <2>1. 1 \in Reminders!Dates /\ Len(Leads) \in Nat
    BY RemindersAssumption DEF Reminders!Dates
  <2>2. next \in 0 .. LastReminder + Interval
    BY RemindersAssumption DEF Reminders!Init
  <2>3. /\ now \in 0 .. LastReminder /\ since \in 0 .. LastReminder /\ window \in 0 .. Len(Leads)
        /\ reminderFaults \in 0 .. MaxReminderFaults
    BY <2>1, RemindersAssumption DEF Reminders!Init
  <2> QED BY <2>1, <2>2, <2>3 DEF Reminders!Init, Reminders!TypeOK, Reminders!Steps
<1>2. Clock /\ NotYetConfirmed
  BY RemindersAssumption DEF Reminders!Init, Clock, NotYetConfirmed
<1>3. ASSUME NEW w \in Reminders!Windows PROVE BitMeans(w) /\ InTime(w)
  <2>1. Leads[w] \in Nat /\ w # 0 /\ Expiries[date] \in Nat
    BY <1>1, RemindersNumbers
  <2>2. Attempt(w) = next /\ next \in Nat /\ next < Interval /\ since = 0
    BY <2>1, RemindersAssumption DEF Reminders!Init, Attempt, Ahead, Serving
  <2>3. InTime(w)
    <3> DEFINE e == Expiries[date]
               l == Leads[w]
    <3>1. Slack(w) \in Nat /\ Interval <= Slack(w)
      BY RemindersAssumption DEF Slack
    <3>2. l \in Nat /\ e \in Nat
      BY <2>1
    <3> HIDE DEF e, l
    <3>3. e >= 0 + l + HalfTick => next + l + HalfTick <= e + Slack(w)
      BY <2>2, <3>1, <3>2, RemindersAssumption
    <3> QED BY <2>2, <3>3 DEF InTime, Due, e, l
  <2> QED BY <2>3 DEF Reminders!Init, BitMeans
<1> QED BY <1>1, <1>2, <1>3 DEF RemindersInv

(* The pass moves on to the next window: those behind it wait for the next   *)
(* pass.                                                                     *)
LEMMA NextWindowMoves ==
  ASSUME RemindersInv, Reminders!NextWindow, window # 0
  PROVE  /\ window' \in 0 .. Len(Leads) /\ step' = "query"
         /\ \A w \in Reminders!Windows : (window' # 0 /\ window' <= w) <=> window < w
<1>1. window \in Nat /\ window <= Len(Leads) /\ Reminders!Windows = 1 .. Len(Leads) /\ Len(Leads) \in Nat
  BY RemindersNumbers DEF RemindersInv
<1> QED BY <1>1 DEF Reminders!NextWindow

(* A step that uses no attempt up and moves nothing keeps a reminder in time. *)
LEMMA StillInTime ==
  ASSUME RemindersInv, NEW w \in Reminders!Windows, UNCHANGED <<date, since>>,
         told \subseteq told', spoilt \subseteq spoilt', failed \subseteq failed',
         Attempt(w)' \in Nat, Attempt(w)' <= Attempt(w)
  PROVE  InTime(w)'
<1> SUFFICES ASSUME Due(w)'
             PROVE  Attempt(w)' + Leads[w] + HalfTick <= Expiries[date] + Slack(w)'
  BY DEF InTime
<1>1. Due(w) /\ InTime(w)
  BY DEF Due, RemindersInv
<1>2. Attempt(w) \in Nat /\ Leads[w] \in Nat /\ HalfTick \in Nat /\ Expiries[date] \in Nat
  BY RemindersNumbers DEF RemindersInv, Clock, Attempt
<1>3. Slack(w) \in Nat /\ Slack(w)' \in Nat /\ Slack(w) <= Slack(w)'
  BY RemindersAssumption DEF Slack
<1> DEFINE e == Expiries[date]
           l == Leads[w]
<1>4. Attempt(w) + l + HalfTick <= e + Slack(w) /\ l \in Nat /\ e \in Nat
  BY <1>1, <1>2 DEF InTime
<1> HIDE DEF e, l
<1>5. Attempt(w)' + l + HalfTick <= e + Slack(w)'
  BY <1>2, <1>3, <1>4
<1> QED BY <1>5 DEF e, l

(* An attempt that failed for the first time, or came before the window      *)
(* opened, leaves time for the next one.                                     *)
LEMMA AnotherInTime ==
  ASSUME RemindersInv, NEW w \in Reminders!Windows, UNCHANGED <<date, since, now, next>>,
         told \subseteq told', spoilt \subseteq spoilt', failed \subseteq failed',
         Attempt(w) = now, Attempt(w)' = next,
         \/ <<date, w>> \in failed' /\ (<<date, w>> \in failed => <<date, w>> \in spoilt')
         \/ now + Leads[w] + HalfTick < Expiries[date]
  PROVE  InTime(w)'
<1> SUFFICES ASSUME Due(w)'
             PROVE  next + Leads[w] + HalfTick <= Expiries[date] + Slack(w)'
  BY DEF InTime
<1>1. Due(w) /\ InTime(w)
  BY DEF Due, RemindersInv
<1>2. /\ now \in Nat /\ next \in Nat /\ next <= now + Interval
      /\ Leads[w] \in Nat /\ HalfTick \in Nat /\ Expiries[date] \in Nat /\ Interval \in Nat
  BY RemindersNumbers DEF RemindersInv, Clock
<1> DEFINE e == Expiries[date]
           l == Leads[w]
<1>3. /\ l \in Nat /\ e \in Nat /\ now + l + HalfTick <= e + Slack(w)
      /\ \/ now + l + HalfTick < e
         \/ <<date, w>> \in failed' /\ <<date, w>> \notin failed
  BY <1>1, <1>2 DEF InTime, Due
<1>4. /\ Slack(w)' = Interval \/ Slack(w)' = Interval + Interval
      /\ <<date, w>> \in failed' /\ <<date, w>> \notin failed
           => Slack(w) = Interval /\ Slack(w)' = Interval + Interval
  BY DEF Slack
<1> HIDE DEF e, l
<1>5. next + l + HalfTick <= e + Slack(w)'
  BY <1>2, <1>3, <1>4
<1> QED BY <1>5 DEF e, l

LEMMA RemindersFault ==
  ASSUME Reminders!TypeOK, window # 0, NEW d \in Reminders!Dates, NEW b \in BOOLEAN, Reminders!Fault(d, b)
  PROVE  /\ reminderFaults' \in 0 .. MaxReminderFaults
         /\ failed' \in SUBSET (Reminders!Dates \X Reminders!Windows)
         /\ spoilt' \in SUBSET (Reminders!Dates \X Reminders!Windows)
         /\ failed \subseteq failed' /\ spoilt \subseteq spoilt' /\ <<d, window>> \in failed'
         /\ <<d, window>> \in failed \/ b => <<d, window>> \in spoilt'
<1>1. window \in Reminders!Windows
  BY RemindersNumbers
<1>2. reminderFaults' \in 0 .. MaxReminderFaults
  BY RemindersAssumption DEF Reminders!TypeOK, Reminders!Fault
<1> QED BY <1>1, <1>2 DEF Reminders!TypeOK, Reminders!Fault

(* Every action keeps the types and the clock.                               *)
LEMMA RemindersTypes == RemindersInv /\ Reminders!Next => Reminders!TypeOK' /\ Clock'
<1> SUFFICES ASSUME RemindersInv, Reminders!Next PROVE Reminders!TypeOK' /\ Clock'
  OBVIOUS
<1> USE DEF RemindersInv
<1>0. /\ 1 \in 0 .. Len(Leads) /\ 0 \in 0 .. Len(Leads)
      /\ window \in 0 .. Len(Leads) /\ reminderFaults \in 0 .. MaxReminderFaults
      /\ now \in 0 .. LastReminder /\ next \in 0 .. LastReminder + Interval
      /\ now + Interval \in 0 .. LastReminder + Interval /\ now \in 0 .. LastReminder + Interval
  BY RemindersAssumption, RemindersNumbers DEF Reminders!TypeOK
<1>1. CASE Reminders!StartPass
  <2>1. Clock'
    BY <1>1, RemindersNumbers DEF Reminders!StartPass, Clock
  <2> QED BY <1>0, <1>1, <2>1 DEF Reminders!StartPass, Reminders!TypeOK, Reminders!Steps
<1>2. CASE Reminders!Query
  <2>1. Clock'
    BY <1>2 DEF Reminders!Query, Clock
  <2>2. window' \in 0 .. Len(Leads) /\ step' \in Reminders!Steps /\ reminderCopy' \in Reminders!Dates
    BY <1>2, NextWindowMoves DEF Reminders!Query, Reminders!TypeOK, Reminders!Steps
  <2>3. /\ reminderFaults' \in 0 .. MaxReminderFaults
        /\ {failed', spoilt'} \subseteq SUBSET (Reminders!Dates \X Reminders!Windows)
    BY <1>2, RemindersFault DEF Reminders!Query, Reminders!TypeOK, Reminders!Calm
  <2> QED BY <1>0, <1>2, <2>1, <2>2, <2>3 DEF Reminders!Query, Reminders!TypeOK
<1>3. CASE Reminders!Claim
  <2>1. Clock'
    BY <1>3 DEF Reminders!Claim, Clock
  <2>2. window' \in 0 .. Len(Leads) /\ step' \in Reminders!Steps
    BY <1>3, NextWindowMoves DEF Reminders!Claim, Reminders!TypeOK, Reminders!Steps
  <2>3. /\ reminderFaults' \in 0 .. MaxReminderFaults
        /\ {failed', spoilt'} \subseteq SUBSET (Reminders!Dates \X Reminders!Windows)
    BY <1>3, RemindersFault DEF Reminders!Claim, Reminders!TypeOK, Reminders!Calm
  <2>4. sent' \subseteq Reminders!Windows
    BY <1>3, RemindersNumbers DEF Reminders!Claim, Reminders!TypeOK
  <2> QED BY <1>0, <1>3, <2>1, <2>2, <2>3, <2>4 DEF Reminders!Claim, Reminders!TypeOK
<1>4. CASE Reminders!Send
  <2>1. Clock'
    BY <1>4 DEF Reminders!Send, Clock
  <2>2. window' \in 0 .. Len(Leads) /\ step' \in Reminders!Steps
    BY <1>4, NextWindowMoves DEF Reminders!Send, Reminders!TypeOK, Reminders!Steps
  <2>3. /\ reminderFaults' \in 0 .. MaxReminderFaults
        /\ {failed', spoilt'} \subseteq SUBSET (Reminders!Dates \X Reminders!Windows)
    BY <1>4, RemindersFault DEF Reminders!Send, Reminders!TypeOK, Reminders!Calm
  <2>4. window \in Reminders!Windows
    BY <1>4, RemindersNumbers DEF Reminders!Send
  <2>5. {told', confirmed'} \subseteq SUBSET (Reminders!Dates \X Reminders!Windows)
    <3>1. /\ told \subseteq Reminders!Dates \X Reminders!Windows
          /\ confirmed \subseteq Reminders!Dates \X Reminders!Windows
          /\ reminderCopy \in Reminders!Dates
      BY DEF Reminders!TypeOK
    <3>2. /\ told' = told \/ told' = told \cup {<<reminderCopy, window>>}
          /\ confirmed' = confirmed \/ confirmed' = confirmed \cup {<<reminderCopy, window>>}
      BY <1>4 DEF Reminders!Send
    <3> QED BY <2>4, <3>1, <3>2
  <2>6. repeated' \in BOOLEAN
    BY <1>4, Zenon DEF Reminders!Send, Reminders!TypeOK
  <2> QED BY <1>0, <1>4, <2>1, <2>2, <2>3, <2>5, <2>6 DEF Reminders!Send, Reminders!TypeOK
<1>5. CASE Reminders!Release
  <2>1. Clock'
    BY <1>5 DEF Reminders!Release, Clock
  <2>2. window' \in 0 .. Len(Leads) /\ step' \in Reminders!Steps
    BY <1>5, NextWindowMoves DEF Reminders!Release, Reminders!TypeOK, Reminders!Steps
  <2>3. /\ reminderFaults' \in 0 .. MaxReminderFaults
        /\ {failed', spoilt'} \subseteq SUBSET (Reminders!Dates \X Reminders!Windows)
    BY <1>5, RemindersFault DEF Reminders!Release, Reminders!TypeOK, Reminders!Calm
  <2> QED BY <1>0, <1>5, <2>1, <2>2, <2>3 DEF Reminders!Release, Reminders!TypeOK
<1>6. CASE Reminders!Restart
  <2>1. Clock'
    BY <1>6, RemindersAssumption DEF Reminders!Restart, Clock
  <2>3. /\ reminderFaults' \in 0 .. MaxReminderFaults
        /\ {failed', spoilt'} \subseteq SUBSET (Reminders!Dates \X Reminders!Windows)
    <3>1. CASE window = 0
      BY <1>6, <3>1, <1>0, RemindersAssumption DEF Reminders!Restart, Reminders!TypeOK
    <3>2. CASE window # 0
      <4>1. reminderCopy \in Reminders!Dates /\ (step \in {"send", "release"}) \in BOOLEAN
        BY DEF Reminders!TypeOK
      <4>2. Reminders!Fault(reminderCopy, step \in {"send", "release"})
        BY <1>6, <3>2 DEF Reminders!Restart
      <4> QED BY <3>2, <4>1, <4>2, RemindersFault
    <3> QED BY <3>1, <3>2
  <2>4. told' \in SUBSET (Reminders!Dates \X Reminders!Windows)
    <3>1. told \subseteq Reminders!Dates \X Reminders!Windows /\ reminderCopy \in Reminders!Dates
      BY DEF Reminders!TypeOK
    <3>2. told' = told \/ (window # 0 /\ told' = told \cup {<<reminderCopy, window>>})
      BY <1>6 DEF Reminders!Restart
    <3> QED BY <3>1, <3>2, RemindersNumbers
  <2>5. repeated' \in BOOLEAN
    BY <1>6, Zenon DEF Reminders!Restart, Reminders!TypeOK
  <2> QED BY <1>0, <1>6, <2>1, <2>3, <2>4, <2>5 DEF Reminders!Restart, Reminders!TypeOK, Reminders!Steps
<1>7. CASE Reminders!Renew
  <2>1. Clock'
    BY <1>7 DEF Reminders!Renew, Reminders!pass, Clock
  <2> QED BY <1>0, <1>7, <2>1 DEF Reminders!Renew, Reminders!pass, Reminders!TypeOK
<1>8. CASE Reminders!Tick
  <2>1. Clock'
    BY <1>8, RemindersAssumption DEF Reminders!Tick, Reminders!pass, Clock
  <2>2. now' \in 0 .. LastReminder
    BY <1>0, <1>8, RemindersAssumption DEF Reminders!Tick
  <2> QED BY <1>0, <1>8, <2>1, <2>2 DEF Reminders!Tick, Reminders!pass, Reminders!TypeOK
<1> QED BY <1>1, <1>2, <1>3, <1>4, <1>5, <1>6, <1>7, <1>8 DEF Reminders!Next

(* What is ahead in a pass once it has moved on, and away from its window.   *)
LEMMA AheadAfter ==
  ASSUME RemindersInv, Reminders!NextWindow, window # 0, NEW w \in Reminders!Windows
  PROVE  Ahead(w)' <=> window < w
<1>1. window \in Nat /\ window' \in Nat /\ w \in Nat /\ w # 0
  BY RemindersNumbers, NextWindowMoves DEF RemindersInv
<1>2. step' = "query" /\ ((window' # 0 /\ window' <= w) <=> window < w)
  BY NextWindowMoves
<1> QED BY <1>1, <1>2 DEF Ahead, Serving

LEMMA AheadElsewhere ==
  ASSUME RemindersInv, window # 0, NEW w \in Reminders!Windows, w # window
  PROVE  Ahead(w) <=> window < w
BY DEF Ahead, Serving

(* Every action keeps what the bits mean.                                    *)
LEMMA RemindersBits ==
  RemindersInv /\ Reminders!Next => NotYetConfirmed' /\ \A w \in Reminders!Windows : BitMeans(w)'
<1> SUFFICES ASSUME RemindersInv, Reminders!Next
             PROVE  NotYetConfirmed' /\ \A w \in Reminders!Windows : BitMeans(w)'
  OBVIOUS
<1> USE DEF RemindersInv
<1>0. date \in Nat /\ reminderCopy \in Nat /\ (window # 0 => window \in Reminders!Windows)
  BY RemindersNumbers
<1>1. CASE Reminders!StartPass
  <2>1. NotYetConfirmed'
    BY <1>1 DEF Reminders!StartPass, NotYetConfirmed
  <2>2. ASSUME NEW w \in Reminders!Windows PROVE BitMeans(w)'
    BY <1>1, RemindersNumbers DEF Reminders!StartPass, BitMeans, Serving
  <2> QED BY <2>1, <2>2
<1>2. CASE Reminders!Query
  <2>0. window # 0 /\ step = "query" /\ spoilt \subseteq spoilt' /\ UNCHANGED <<date, told, confirmed, sent, repeated>>
    BY <1>2, RemindersFault DEF Reminders!Query, Reminders!Calm, Reminders!TypeOK
  <2>1. step' # "release" /\ step' # "send" /\ (step' = "query" \/ reminderCopy' = date)
    BY <1>2 DEF Reminders!Query, Reminders!NextWindow
  <2>2. NotYetConfirmed'
    BY <1>0, <2>0, <2>1 DEF NotYetConfirmed
  <2>3. ASSUME NEW w \in Reminders!Windows PROVE BitMeans(w)'
    BY <2>0 DEF BitMeans, Serving
  <2> QED BY <2>2, <2>3
<1>3. CASE Reminders!Claim
  <2>0. window # 0 /\ step = "claim" /\ UNCHANGED <<date, told, confirmed, repeated, reminderCopy>>
    BY <1>3 DEF Reminders!Claim
  <2>1. CASE date = reminderCopy /\ window \notin sent /\ sent' = sent \cup {window}
             /\ step' = "send" /\ UNCHANGED window /\ Reminders!Calm
    <3>1. <<date, window>> \notin confirmed
      BY <1>0, <2>0, <2>1 DEF BitMeans
    <3>2. NotYetConfirmed'
      BY <2>0, <2>1, <3>1 DEF NotYetConfirmed
    <3>3. ASSUME NEW w \in Reminders!Windows PROVE BitMeans(w)'
      BY <2>0, <2>1, <3>1 DEF BitMeans, Serving, Reminders!Calm
    <3> QED BY <3>2, <3>3
  <2>2. CASE step' = "query" /\ UNCHANGED sent /\ spoilt \subseteq spoilt'
    <3>2. NotYetConfirmed'
      BY <2>0, <2>2 DEF NotYetConfirmed
    <3>3. ASSUME NEW w \in Reminders!Windows PROVE BitMeans(w)'
      BY <2>0, <2>2 DEF BitMeans, Serving
    <3> QED BY <3>2, <3>3
  <2>3. CASE Reminders!NextWindow /\ Reminders!Fault(reminderCopy, FALSE) /\ UNCHANGED sent
    <3>1. spoilt \subseteq spoilt' /\ step' = "query"
      BY <2>0, <2>3, RemindersFault, RemindersNumbers DEF Reminders!NextWindow
    <3> QED BY <2>2, <2>3, <3>1
  <2> QED BY <1>3, <2>1, <2>2, <2>3 DEF Reminders!Claim, Reminders!NextWindow, Reminders!Calm
<1>4. CASE Reminders!Send
  <2>0. /\ window # 0 /\ step = "send" /\ UNCHANGED <<date, sent, reminderCopy>>
        /\ <<reminderCopy, window>> \notin confirmed /\ (reminderCopy = date => window \in sent)
        /\ reminderCopy <= date /\ ~repeated'
    BY <1>4 DEF Reminders!Send, NotYetConfirmed
  <2>1. CASE /\ told' = told \cup {<<reminderCopy, window>>} /\ Reminders!NextWindow /\ Reminders!Calm
             /\ confirmed' = confirmed \cup {<<reminderCopy, window>>}
    <3>1. step' = "query"
      BY <2>1 DEF Reminders!NextWindow
    <3>2. NotYetConfirmed'
      BY <1>0, <2>0, <2>1, <3>1 DEF NotYetConfirmed
    <3>3. ASSUME NEW w \in Reminders!Windows PROVE BitMeans(w)'
      BY <2>0, <2>1 DEF BitMeans, Serving, Reminders!Calm
    <3> QED BY <3>2, <3>3
  <2>2. CASE /\ Reminders!Fault(reminderCopy, FALSE) /\ step' = "release"
             /\ UNCHANGED <<confirmed, window>> /\ told \subseteq told'
    <3>1. spoilt \subseteq spoilt' /\ <<reminderCopy, window>> \in failed'
      BY <2>0, <2>2, RemindersFault, RemindersNumbers
    <3>2. NotYetConfirmed'
      BY <2>0, <2>2, <3>1 DEF NotYetConfirmed
    <3>3. ASSUME NEW w \in Reminders!Windows PROVE BitMeans(w)'
      BY <2>0, <2>2, <3>1 DEF BitMeans, Serving
    <3> QED BY <3>2, <3>3
  <2> QED BY <1>4, <2>1, <2>2 DEF Reminders!Send
<1>5. CASE Reminders!Release
  <2>0. /\ window # 0 /\ step = "release" /\ step' = "query"
        /\ UNCHANGED <<date, told, confirmed, repeated, reminderCopy>>
        /\ <<reminderCopy, window>> \notin confirmed
    BY <1>5 DEF Reminders!Release, Reminders!NextWindow, NotYetConfirmed
  <2>1. NotYetConfirmed'
    BY <2>0 DEF NotYetConfirmed
  <2>2. CASE sent' = (IF date = reminderCopy THEN sent \ {window} ELSE sent) /\ Reminders!Calm
    BY <2>0, <2>1, <2>2 DEF BitMeans, Serving, Reminders!Calm
  <2>3. CASE Reminders!Fault(reminderCopy, TRUE) /\ UNCHANGED sent
    <3>1. spoilt \subseteq spoilt' /\ <<reminderCopy, window>> \in spoilt'
      BY <2>0, <2>3, RemindersFault, RemindersNumbers
    <3>2. ASSUME NEW w \in Reminders!Windows PROVE BitMeans(w)'
      BY <2>0, <2>3, <3>1 DEF BitMeans, Serving
    <3> QED BY <2>1, <3>2
  <2> QED BY <1>5, <2>2, <2>3 DEF Reminders!Release
<1>6. CASE Reminders!Restart
  <2>0. window' = 0 /\ UNCHANGED <<date, sent, confirmed>> /\ told \subseteq told' /\ ~repeated'
    <3>1. window' = 0 /\ UNCHANGED <<date, sent, confirmed>>
      BY <1>6 DEF Reminders!Restart
    <3>2. \/ UNCHANGED <<told, repeated>>
          \/ /\ told' = told \cup {<<reminderCopy, window>>}
             /\ repeated' = (repeated \/ <<reminderCopy, window>> \in confirmed)
             /\ window # 0 /\ step = "send"
      BY <1>6 DEF Reminders!Restart
    <3>3. ~repeated /\ (window # 0 /\ step = "send" => <<reminderCopy, window>> \notin confirmed)
      BY DEF NotYetConfirmed
    <3>4. told \subseteq told'
      BY <3>2
    <3>5. ~repeated'
      BY <3>2, <3>3
    <3> QED BY <3>1, <3>4, <3>5
  <2>1. NotYetConfirmed'
    BY <2>0 DEF NotYetConfirmed
  <2>2. CASE window = 0
    <3>0. spoilt' = spoilt
      BY <1>6, <2>2 DEF Reminders!Restart
    <3>1. ASSUME NEW w \in Reminders!Windows PROVE BitMeans(w)'
      <4>1. ~Serving(w)
        BY <2>2, RemindersNumbers DEF Serving
      <4> QED BY <2>0, <3>0, <4>1 DEF BitMeans
    <3> QED BY <2>1, <3>1
  <2>3. CASE window # 0
    <3>0. reminderCopy \in Reminders!Dates /\ (step \in {"send", "release"}) \in BOOLEAN
      BY DEF Reminders!TypeOK
    <3>1. Reminders!Fault(reminderCopy, step \in {"send", "release"})
      BY <1>6, <2>3 DEF Reminders!Restart
    <3>2. /\ spoilt \subseteq spoilt'
          /\ step \in {"send", "release"} => <<reminderCopy, window>> \in spoilt'
      BY <2>3, <3>0, <3>1, RemindersFault
    <3>3. ASSUME NEW w \in Reminders!Windows PROVE BitMeans(w)'
      BY <2>0, <2>3, <3>2 DEF BitMeans, Serving
    <3> QED BY <2>1, <3>3
  <2> QED BY <2>2, <2>3
<1>7. CASE Reminders!Renew
  <2>0. date' = date + 1 /\ sent' = {} /\ UNCHANGED <<told, confirmed, repeated, window, step, reminderCopy, failed>>
    BY <1>7 DEF Reminders!Renew, Reminders!pass
  <2>1. \A pair \in confirmed : pair[1] <= date /\ pair[1] \in Nat
    <3>1. confirmed \subseteq Reminders!Dates \X Reminders!Windows
      BY DEF Reminders!TypeOK
    <3>2. Reminders!Dates = 1 .. Len(Expiries) /\ Len(Expiries) \in Nat
      BY RemindersNumbers
    <3>3. \A pair \in confirmed : pair[1] \in Nat
      BY <3>1, <3>2
    <3> QED BY <3>3 DEF NotYetConfirmed
  <2>2. \A w \in Reminders!Windows : <<date + 1, w>> \notin confirmed
    BY <1>0, <2>1
  <2>3. NotYetConfirmed'
    BY <1>0, <2>0, <2>1 DEF NotYetConfirmed
  <2>4. ASSUME NEW w \in Reminders!Windows PROVE BitMeans(w)'
    BY <2>0, <2>2 DEF BitMeans
  <2> QED BY <2>3, <2>4
<1>8. CASE Reminders!Tick
  BY <1>8 DEF Reminders!Tick, Reminders!pass, NotYetConfirmed, BitMeans, Serving
<1> QED BY <1>1, <1>2, <1>3, <1>4, <1>5, <1>6, <1>7, <1>8 DEF Reminders!Next

(* Every action keeps each reminder in time.                                 *)
LEMMA RemindersInTime ==
  RemindersInv /\ Reminders!Next => \A w \in Reminders!Windows : InTime(w)'
<1> SUFFICES ASSUME RemindersInv, Reminders!Next, NEW w \in Reminders!Windows PROVE InTime(w)'
  OBVIOUS
<1>0. /\ date \in Reminders!Dates /\ reminderCopy \in Reminders!Dates /\ Expiries[date] \in Nat
      /\ Leads[w] \in Nat /\ HalfTick \in Nat /\ Interval \in Nat \ {0} /\ Interval <= HalfTick
      /\ now \in Nat /\ next \in Nat /\ next <= now + Interval /\ now <= next /\ since \in Nat
      /\ w \in Nat /\ w # 0 /\ window \in Nat
  BY RemindersNumbers DEF RemindersInv, Clock
<1>a. Reminders!TypeOK /\ BitMeans(w) /\ InTime(w) /\ Attempt(w) \in Nat
  BY <1>0 DEF RemindersInv, Attempt
(* A call failed for the window the pass is at, and the pass moves on.       *)
<1>b. ASSUME window # 0, Reminders!Fault(reminderCopy, FALSE), Reminders!NextWindow,
             step = "claim", UNCHANGED <<now, date, since, next, told, reminderCopy>>
      PROVE  InTime(w)'
  <2>1. /\ failed \subseteq failed' /\ spoilt \subseteq spoilt' /\ <<reminderCopy, window>> \in failed'
        /\ <<reminderCopy, window>> \in failed => <<reminderCopy, window>> \in spoilt'
    BY <1>0, <1>a, <1>b, RemindersFault
  <2>2. Ahead(w)' <=> window < w
    BY <1>b, AheadAfter
  <2>3. CASE Serving(w)
    <3>1. Attempt(w) = now /\ Attempt(w)' = next
      BY <1>0, <1>b, <2>2, <2>3 DEF Attempt, Ahead, Serving
    <3> QED BY <1>b, <2>1, <2>3, <3>1, AnotherInTime DEF Serving
  <2>4. CASE ~Serving(w)
    <3>1. Attempt(w)' = Attempt(w)
      BY <1>0, <1>b, <2>2, <2>4 DEF Attempt, Ahead, Serving
    <3> QED BY <1>0, <1>a, <1>b, <2>1, <3>1, StillInTime
  <2> QED BY <2>3, <2>4
<1>1. CASE Reminders!StartPass
  <2>1. Attempt(w) = now /\ Attempt(w)' = now
    BY <1>0, <1>1 DEF Reminders!StartPass, Attempt, Ahead, Serving
  <2> QED BY <1>0, <1>1, <2>1, StillInTime DEF Reminders!StartPass
<1>2. CASE Reminders!Query
  <2>0. /\ window # 0 /\ step = "query"
        /\ UNCHANGED <<now, date, since, next, told>>
    BY <1>2 DEF Reminders!Query
  <2>1. CASE reminderCopy' = date /\ step' = "claim" /\ UNCHANGED window /\ Reminders!Calm
    <3>1. Attempt(w)' = Attempt(w)
      BY <2>0, <2>1 DEF Attempt, Ahead, Serving
    <3> QED BY <1>0, <1>a, <2>0, <2>1, <3>1, StillInTime DEF Reminders!Calm
  <2>2. CASE ~Reminders!InWindow(window) /\ Reminders!NextWindow /\ Reminders!Calm
    <3>1. Ahead(w)' <=> window < w
      BY <2>0, <2>2, AheadAfter
    <3>2. CASE w # window
      <4>1. Attempt(w)' = Attempt(w)
        BY <2>0, <3>1, <3>2, AheadElsewhere DEF Attempt
      <4> QED BY <1>0, <1>a, <2>0, <2>2, <4>1, StillInTime DEF Reminders!Calm
    <3>3. CASE w = window /\ ~Due(w)
      BY <2>0, <2>2, <3>3 DEF InTime, Due, Reminders!Calm
    <3>4. CASE w = window /\ Due(w)
      <4>1. Attempt(w) = now /\ Attempt(w)' = next
        BY <1>0, <2>0, <3>1, <3>4 DEF Attempt, Ahead
      <4> DEFINE e == Expiries[date]
                 l == Leads[w]
      <4>2. /\ l \in Nat /\ e \in Nat /\ now + l + HalfTick <= e + Slack(w)
            /\ ~(e + HalfTick >= now + l /\ e <= now + l + HalfTick)
        BY <1>0, <1>a, <2>2, <3>4, <4>1 DEF InTime, Reminders!InWindow
      <4>3. Slack(w) = Interval \/ Slack(w) = Interval + Interval
        BY DEF Slack
      <4> HIDE DEF e, l
      <4>4. now + l + HalfTick < e
        BY <1>0, <4>2, <4>3
      <4>5. now + Leads[w] + HalfTick < Expiries[date]
        BY <4>4 DEF e, l
      <4> QED BY <2>0, <2>2, <4>1, <4>5, AnotherInTime DEF Reminders!Calm
    <3> QED BY <3>2, <3>3, <3>4
  <2>3. CASE Reminders!Fault(date, FALSE) /\ Reminders!NextWindow
    <3>0. /\ failed \subseteq failed' /\ spoilt \subseteq spoilt' /\ <<date, window>> \in failed'
          /\ <<date, window>> \in failed => <<date, window>> \in spoilt'
      BY <1>0, <1>a, <2>0, <2>3, RemindersFault
    <3>1. Ahead(w)' <=> window < w
      BY <2>0, <2>3, AheadAfter
    <3>2. CASE w # window
      <4>1. Attempt(w)' = Attempt(w)
        BY <2>0, <3>1, <3>2, AheadElsewhere DEF Attempt
      <4> QED BY <1>0, <1>a, <2>0, <3>0, <4>1, StillInTime
    <3>3. CASE w = window
      <4>1. Attempt(w) = now /\ Attempt(w)' = next
        BY <1>0, <2>0, <3>1, <3>3 DEF Attempt, Ahead
      <4> QED BY <2>0, <3>0, <3>3, <4>1, AnotherInTime
    <3> QED BY <3>2, <3>3
  <2> QED BY <1>2, <2>1, <2>2, <2>3 DEF Reminders!Query
<1>3. CASE Reminders!Claim
  <2>0. /\ window # 0 /\ step = "claim"
        /\ UNCHANGED <<now, date, since, next, told, reminderCopy>>
    BY <1>3 DEF Reminders!Claim
  <2>1. CASE date = reminderCopy /\ step' = "send" /\ UNCHANGED window /\ Reminders!Calm
    <3>1. Attempt(w)' = Attempt(w)
      BY <2>0, <2>1 DEF Attempt, Ahead, Serving
    <3> QED BY <1>0, <1>a, <2>0, <2>1, <3>1, StillInTime DEF Reminders!Calm
  <2>2. CASE (date # reminderCopy \/ window \in sent) /\ Reminders!NextWindow /\ Reminders!Calm
    <3>1. Ahead(w)' <=> window < w
      BY <2>0, <2>2, AheadAfter
    <3>2. CASE Serving(w)
      <4>1. ~Due(w)
        BY <1>a, <2>0, <2>2, <3>2 DEF BitMeans, Serving, Due
      <4> QED BY <2>0, <2>2, <4>1 DEF InTime, Due, Reminders!Calm
    <3>3. CASE ~Serving(w)
      <4>1. Attempt(w)' = Attempt(w)
        BY <1>0, <2>0, <3>1, <3>3 DEF Attempt, Ahead, Serving
      <4> QED BY <1>0, <1>a, <2>0, <2>2, <4>1, StillInTime DEF Reminders!Calm
    <3> QED BY <3>2, <3>3
  <2>3. CASE Reminders!Fault(reminderCopy, FALSE) /\ Reminders!NextWindow
    BY <1>b, <2>0, <2>3
  <2> QED BY <1>3, <2>1, <2>2, <2>3 DEF Reminders!Claim
<1>4. CASE Reminders!Send
  <2>0. /\ window # 0 /\ step = "send"
        /\ UNCHANGED <<now, date, since, next, reminderCopy>>
    BY <1>4 DEF Reminders!Send
  <2>1. CASE told' = told \cup {<<reminderCopy, window>>} /\ Reminders!NextWindow /\ Reminders!Calm
    <3>1. Ahead(w)' <=> window < w
      BY <2>0, <2>1, AheadAfter
    <3>2. CASE Serving(w)
      BY <2>0, <2>1, <3>2 DEF InTime, Due, Serving
    <3>3. CASE ~Serving(w)
      <4>1. Attempt(w)' = Attempt(w)
        BY <1>0, <2>0, <3>1, <3>3 DEF Attempt, Ahead, Serving
      <4> QED BY <1>0, <1>a, <2>0, <2>1, <4>1, StillInTime DEF Reminders!Calm
    <3> QED BY <3>2, <3>3
  <2>2. CASE Reminders!Fault(reminderCopy, FALSE) /\ step' = "release" /\ UNCHANGED window /\ told \subseteq told'
    <3>1. /\ failed \subseteq failed' /\ spoilt \subseteq spoilt' /\ <<reminderCopy, window>> \in failed'
          /\ <<reminderCopy, window>> \in failed => <<reminderCopy, window>> \in spoilt'
      BY <1>0, <1>a, <2>0, <2>2, RemindersFault
    <3>2. CASE Serving(w)
      <4>1. Attempt(w) = now /\ Attempt(w)' = next
        BY <1>0, <2>0, <2>2, <3>2 DEF Attempt, Ahead, Serving
      <4> QED BY <2>0, <2>2, <3>1, <3>2, <4>1, AnotherInTime DEF Serving
    <3>3. CASE ~Serving(w)
      <4>1. Attempt(w)' = Attempt(w)
        BY <1>0, <2>0, <2>2, <3>3 DEF Attempt, Ahead, Serving
      <4> QED BY <1>0, <1>a, <2>0, <2>2, <3>1, <4>1, StillInTime
    <3> QED BY <3>2, <3>3
  <2> QED BY <1>4, <2>1, <2>2 DEF Reminders!Send
<1>5. CASE Reminders!Release
  <2>0. /\ window # 0 /\ step = "release" /\ Reminders!NextWindow
        /\ UNCHANGED <<now, date, since, next, told>>
    BY <1>5 DEF Reminders!Release
  <2>1. failed \subseteq failed' /\ spoilt \subseteq spoilt'
    BY <1>0, <1>a, <1>5, <2>0, RemindersFault DEF Reminders!Release, Reminders!Calm
  <2>2. Ahead(w)' <=> window < w
    BY <2>0, AheadAfter
  <2>3. Attempt(w)' = Attempt(w)
    BY <1>0, <2>0, <2>2 DEF Attempt, Ahead
  <2> QED BY <1>0, <1>a, <2>0, <2>1, <2>3, StillInTime
<1>6. CASE Reminders!Restart
  <2>0. window' = 0 /\ next' = now /\ UNCHANGED <<now, date, since>> /\ told \subseteq told'
    BY <1>6 DEF Reminders!Restart
  <2>1. failed \subseteq failed' /\ spoilt \subseteq spoilt'
    BY <1>6 DEF Reminders!Restart, Reminders!Fault
  <2>2. Attempt(w)' = now /\ now <= Attempt(w)
    BY <1>0, <2>0 DEF Attempt, Ahead, Serving
  <2> QED BY <1>0, <1>a, <2>0, <2>1, <2>2, StillInTime
<1>7. CASE Reminders!Renew
  <2>1. Reminders!TypeOK' /\ UNCHANGED <<now, next>> /\ since' = now
    BY <1>7, RemindersTypes DEF Reminders!Renew, Reminders!pass
  <2>2. Expiries[date'] \in Nat
    BY <2>1, RemindersAssumption DEF Reminders!TypeOK, Reminders!Dates
  <2>3. Attempt(w)' = now \/ Attempt(w)' = next
    BY <2>1 DEF Attempt
  <2>4. Slack(w)' = Interval \/ Slack(w)' = Interval + Interval
    BY DEF Slack
  <2> DEFINE e == Expiries[date']
             l == Leads[w]
  <2>5. l \in Nat /\ e \in Nat
    BY <1>0, <2>2
  <2> HIDE DEF e, l
  <2>6. e >= now + l + HalfTick => Attempt(w)' + l + HalfTick <= e + Slack(w)'
    BY <1>0, <2>3, <2>4, <2>5
  <2> QED BY <2>1, <2>6 DEF InTime, Due, e, l
<1>8. CASE Reminders!Tick
  <2>0. /\ window = 0 /\ window' = 0
        /\ UNCHANGED <<date, since, next, told, spoilt, failed>>
    BY <1>8 DEF Reminders!Tick, Reminders!pass
  <2>1. Attempt(w)' = Attempt(w)
    BY <1>0, <2>0 DEF Attempt, Ahead, Serving
  <2> QED BY <1>0, <1>a, <2>0, <2>1, StillInTime
<1> QED BY <1>1, <1>2, <1>3, <1>4, <1>5, <1>6, <1>7, <1>8, RemindersAssumption DEF Reminders!Next

LEMMA RemindersStep == RemindersInv /\ [Reminders!Next]_Reminders!vars => RemindersInv'
<1> SUFFICES ASSUME RemindersInv, [Reminders!Next]_Reminders!vars PROVE RemindersInv'
  OBVIOUS
<1>1. CASE Reminders!Next
  BY <1>1, RemindersTypes, RemindersBits, RemindersInTime DEF RemindersInv, Reminders!Windows
<1>2. CASE UNCHANGED Reminders!vars
  BY <1>2 DEF Reminders!vars, Reminders!pass, RemindersInv, Reminders!TypeOK, Clock, NotYetConfirmed, BitMeans,
              InTime, Due, Slack, Attempt, Ahead, Serving
<1> QED BY <1>1, <1>2

(* Who is due and was not told has an attempt ahead that is not too late: so  *)
(* a window that is over has been told.                                       *)
LEMMA RemindersAreInTime == RemindersInv => RemindedOnceInTime
<1> SUFFICES ASSUME RemindersInv PROVE RemindedOnceInTime
  OBVIOUS
<1>1. ~repeated
  BY DEF RemindersInv, NotYetConfirmed
<1>2. ASSUME NEW w \in Reminders!Windows,
             Expiries[date] >= since + Leads[w] + HalfTick,
             now + Leads[w] > Expiries[date] + HalfTick,
             <<date, w>> \notin spoilt, <<date, w>> \notin told
      PROVE  FALSE
  <2>1. InTime(w) /\ Due(w)
    BY <1>2 DEF RemindersInv, Due
  <2>2. /\ Expiries[date] \in Nat /\ Leads[w] \in Nat /\ HalfTick \in Nat /\ Interval \in Nat
        /\ Interval <= HalfTick /\ now \in Nat /\ Attempt(w) \in Nat /\ now <= Attempt(w)
    BY RemindersNumbers DEF RemindersInv, Clock, Attempt
  <2>3. Slack(w) = Interval \/ Slack(w) = Interval + Interval
    BY DEF Slack
  <2> DEFINE e == Expiries[date]
             l == Leads[w]
  <2>4. e \in Nat /\ l \in Nat /\ now + l > e + HalfTick /\ Attempt(w) + l + HalfTick <= e + Slack(w)
    BY <1>2, <2>1, <2>2 DEF InTime
  <2> HIDE DEF e, l
  <2> QED BY <2>2, <2>3, <2>4
<1> QED BY <1>1, <1>2 DEF RemindedOnceInTime, Reminders!RemindedOnceInTime

LEMMA RemindersInvariant == Reminders!Spec => []RemindersInv
<1>1. RemindersInv /\ [Reminders!Next]_Reminders!vars => RemindersInv'
  BY RemindersStep
<1> QED BY <1>1, RemindersInit, PTL DEF Reminders!Spec

(* For every choice of windows, dates and numbers of faults: a reminder whose *)
(* sending has succeeded is not sent again, and who keeps a date long enough  *)
(* is told before it is too late, unless calls for it failed twice or left    *)
(* its bit claimed (SendExpiryReminder).                                      *)
THEOREM RemindersReachTheUser == Reminders!Spec => []RemindedOnceInTime
BY RemindersInvariant, RemindersAreInTime, PTL
--------------------------------------------------------------------------------
(* The calls of a panel.  Each inbound has its flow, is off, or its group is *)
(* still to be sent.                                                         *)
LeftToApply ==
  \A i \in requested : FlowOf[i] \in Panel!Range(groups) \/ on[i] \in {Panel!Off, FlowOf[i]}

PanelInv ==
  /\ Panel!TypeOK
  /\ requested # {} /\ groups \in Seq(Panel!Flows)
  /\ applied + Len(groups) <= Panel!Cardinality(Panel!Flows)
  /\ panelPc = "group" => applied = 0
  /\ panelPc = "apply" => groups # <<>>
  /\ panelPc = "verify" => groups = <<>> /\ ours /\ (op = "rename" => email # "old")
  /\ panelPc \in {"apply", "verify"} /\ op # "delete" => LeftToApply
  /\ FullMembership

LEMMA PanelCardinality ==
  /\ \A S : Panel!Cardinality(S) = Cardinality(S)
  /\ IsFiniteSet(Panel!Flows) /\ Cardinality(Panel!Flows) \in Nat
<1>1. ASSUME NEW S PROVE Panel!Cardinality(S) = Cardinality(S)
  BY DEF Panel!Cardinality, Cardinality, Panel!IsFiniteSet, IsFiniteSet
<1>2. IsFiniteSet(Panel!Flows)
  <2>1. FlowOf \in Surjection(Inbounds, Panel!Flows)
    BY PanelAssumption DEF Surjection, Panel!Flows
  <2> QED BY <2>1, PanelAssumption, FS_Surjection
<1> QED BY <1>1, <1>2, FS_CardinalityType

LEMMA PanelInit == Panel!Init => PanelInv
<1> SUFFICES ASSUME Panel!Init PROVE PanelInv
  OBVIOUS
<1>1. groups = <<>> /\ groups \in Seq(Panel!Flows) /\ Len(groups) = 0 /\ Panel!Range(groups) = {}
  BY DEF Panel!Init, Panel!Range
<1>2. Panel!TypeOK
  BY <1>1, PanelAssumption, PanelCardinality DEF Panel!Init, Panel!TypeOK, Panel!None, Panel!Results
<1>3. requested # {} /\ panelPc = "group" /\ applied = 0
  <2>1. requested \in (SUBSET Inbounds) \ {{}} /\ panelPc = "group" /\ applied = 0
    BY Zenon DEF Panel!Init
  <2> QED BY <2>1
<1>5. FullMembership
  BY <1>3 DEF FullMembership, Panel!FullMembership
<1>4. 0 + 0 <= Panel!Cardinality(Panel!Flows)
  BY PanelCardinality
<1> QED BY <1>1, <1>2, <1>3, <1>4, <1>5 DEF PanelInv

(* What a request changes: the inbounds of its group, which get its flow.    *)
LEMMA PanelProcess ==
  ASSUME PanelInv, panelPc = "apply", NEW ids \in SUBSET Panel!Group,
         Panel!Process(Head(groups), ids)
  PROVE  /\ email' \in {"none", "old", "new"} /\ ours' \in BOOLEAN
         /\ on' \in [Inbounds -> Panel!Flows \cup {Panel!Off}]
         /\ Panel!Answer # "ok" => email' = email /\ ours' = ours /\ on' = on
         /\ Panel!Answer = "ok" => ours' /\ (op = "rename" => email' = "new")
         /\ op # "delete" =>
              \A i \in Inbounds : on'[i] = on[i] \/ (i \in Panel!Group /\ on'[i] = FlowOf[i])
         /\ op # "delete" /\ Panel!Answer = "ok" =>
              \A i \in Panel!Group : (i \in ids \/ on[i] = Panel!Off) => on'[i] \in {Panel!Off, FlowOf[i]}
<1>1. /\ op \in {"add", "update", "rename", "delete"} /\ email \in {"none", "old", "new"}
      /\ ours \in BOOLEAN /\ on \in [Inbounds -> Panel!Flows \cup {Panel!Off}]
      /\ requested \subseteq Inbounds
  BY DEF PanelInv, Panel!TypeOK
<1>2. /\ \A i \in Panel!Group : i \in Inbounds /\ FlowOf[i] = Head(groups) /\ FlowOf[i] \in Panel!Flows
      /\ ids \subseteq Panel!Group /\ Head(groups) \in Panel!Flows
  BY <1>1 DEF Panel!Group, Panel!Flows, PanelInv
<1>3. CASE Panel!Answer # "ok"
  <2>1. email' = email /\ ours' = ours /\ on' = on
    BY <1>3 DEF Panel!Process, Panel!panel
  <2>2. ours' \in BOOLEAN
    BY <1>1, <2>1, Zenon
  <2>3. email' \in {"none", "old", "new"} /\ on' \in [Inbounds -> Panel!Flows \cup {Panel!Off}]
    BY <1>1, <2>1
  <2>4. \A i \in Inbounds : on'[i] = on[i]
    BY <2>1
  <2> QED BY <1>3, <2>1, <2>2, <2>3, <2>4, Zenon
<1>4. CASE Panel!Answer = "ok" /\ op = "add"
  <2>1. email' = "old" /\ ours' = TRUE /\ on' = [i \in Inbounds |-> IF i \in ids THEN Head(groups) ELSE on[i]]
    BY <1>4 DEF Panel!Process, Panel!Grown
  <2>2. on' \in [Inbounds -> Panel!Flows \cup {Panel!Off}]
    BY <1>1, <1>2, <2>1
  <2>3. \A i \in Inbounds : on'[i] = IF i \in ids THEN Head(groups) ELSE on[i]
    BY <2>1
  <2>4. ASSUME NEW i \in Inbounds PROVE on'[i] = on[i] \/ (i \in Panel!Group /\ on'[i] = FlowOf[i])
    <3>1. i \in ids => i \in Panel!Group /\ FlowOf[i] = Head(groups)
      BY <1>2
    <3>2. on'[i] = on[i] \/ (i \in ids /\ on'[i] = Head(groups))
      BY <2>3
    <3> QED BY <3>1, <3>2
  <2>5. \A i \in Panel!Group : (i \in ids \/ on[i] = Panel!Off) => on'[i] \in {Panel!Off, FlowOf[i]}
    BY <1>2, <2>3
  <2>6. ours' \in BOOLEAN /\ ours'
    BY <2>1, Zenon
  <2>7. email' \in {"none", "old", "new"} /\ op # "rename"
    BY <1>4, <2>1
  <2> QED BY <1>4, <2>2, <2>4, <2>5, <2>6, <2>7, Zenon
<1>5. CASE Panel!Answer = "ok" /\ op = "delete"
  <2>1. email' = "none" /\ ours' = TRUE /\ on' = [i \in Inbounds |-> Panel!Off]
    BY <1>5 DEF Panel!Process
  <2> QED BY <1>1, <1>5, <2>1
<1>6. CASE Panel!Answer = "ok" /\ op \in {"update", "rename"}
  <2>1. /\ email' = (IF op = "rename" THEN "new" ELSE "old") /\ ours' = TRUE
        /\ on' = [i \in Inbounds |-> IF i \in ids /\ on[i] # Panel!Off THEN Head(groups) ELSE on[i]]
    BY <1>6 DEF Panel!Process, Panel!Rewritten
  <2>2. on' \in [Inbounds -> Panel!Flows \cup {Panel!Off}]
    BY <1>1, <1>2, <2>1
  <2>3. \A i \in Inbounds : on'[i] = IF i \in ids /\ on[i] # Panel!Off THEN Head(groups) ELSE on[i]
    BY <2>1
  <2>4. ASSUME NEW i \in Inbounds PROVE on'[i] = on[i] \/ (i \in Panel!Group /\ on'[i] = FlowOf[i])
    <3>1. i \in ids => i \in Panel!Group /\ FlowOf[i] = Head(groups)
      BY <1>2
    <3>2. on'[i] = on[i] \/ (i \in ids /\ on'[i] = Head(groups))
      BY <2>3
    <3> QED BY <3>1, <3>2
  <2>5. \A i \in Panel!Group : (i \in ids \/ on[i] = Panel!Off) => on'[i] \in {Panel!Off, FlowOf[i]}
    BY <1>2, <2>3
  <2>6. ours' \in BOOLEAN /\ ours'
    BY <2>1, Zenon
  <2>7. email' \in {"none", "old", "new"} /\ (op = "rename" => email' = "new")
    BY <2>1
  <2> QED BY <1>6, <2>2, <2>4, <2>5, <2>6, <2>7, Zenon
<1> QED BY <1>1, <1>3, <1>4, <1>5, <1>6

(* The groups behind the one that is done are those still to be sent.        *)
LEMMA PanelGroups ==
  ASSUME PanelInv, panelPc = "apply"
  PROVE  /\ Len(groups) \in Nat \ {0} /\ Head(groups) \in Panel!Range(groups)
         /\ Tail(groups) \in Seq(Panel!Flows) /\ Len(Tail(groups)) = Len(groups) - 1
         /\ Panel!Range(groups) \subseteq {Head(groups)} \cup Panel!Range(Tail(groups))
         /\ Len(groups) = 1 => Tail(groups) = <<>>
         /\ Len(groups) > 1 => Tail(groups) # <<>>
<1> groups \in Seq(Panel!Flows) /\ groups # <<>>
  BY DEF PanelInv
<1>1. /\ Len(groups) \in Nat /\ groups \in [1 .. Len(groups) -> Panel!Flows]
      /\ Len(groups) # 0 /\ Head(groups) = groups[1]
      /\ Tail(groups) \in Seq(Panel!Flows) /\ Len(Tail(groups)) = Len(groups) - 1
  BY EmptySeq, LenProperties, HeadTailProperties
<1>2. \A k \in 1 .. Len(groups) - 1 : Tail(groups)[k] = groups[k + 1]
  BY <1>1, HeadTailProperties
<1>3. DOMAIN Tail(groups) = 1 .. Len(groups) - 1 /\ DOMAIN groups = 1 .. Len(groups)
  BY <1>1, LenProperties
<1>4. Head(groups) \in Panel!Range(groups)
  BY <1>1, <1>3 DEF Panel!Range
<1>5. ASSUME NEW f \in Panel!Range(groups), f # Head(groups) PROVE f \in Panel!Range(Tail(groups))
  <2>1. PICK k \in 1 .. Len(groups) : groups[k] = f
    BY <1>3, <1>5 DEF Panel!Range
  <2>2. k # 1 /\ k - 1 \in 1 .. Len(groups) - 1
    BY <1>1, <1>5, <2>1
  <2>3. Tail(groups)[k - 1] = f
    BY <1>1, <1>2, <2>1, <2>2
  <2>4. k - 1 \in DOMAIN Tail(groups)
    BY <1>3, <2>2
  <2> QED BY <2>3, <2>4 DEF Panel!Range
<1>5a. \A s \in Seq(Panel!Flows) : s # <<>> => Len(s) \in Nat \ {0}
  BY EmptySeq, Zenon
<1>5b. Len(<<>>) = 0
  BY EmptySeq
<1> DEFINE n == Len(groups)
           t == Tail(groups)
<1>c. n \in Nat \ {0} /\ t \in Seq(Panel!Flows) /\ Len(t) = n - 1
  BY <1>1
<1> HIDE DEF n, t
<1>6. n = 1 => t = <<>>
  BY <1>c, <1>5a
<1>7. n > 1 => t # <<>>
  BY <1>c, <1>5b
<1> USE DEF n, t
<1> QED BY <1>1, <1>4, <1>5, <1>6, <1>7

LEMMA PanelGroupByFlow == PanelInv /\ Panel!GroupByFlow => PanelInv'
<1> SUFFICES ASSUME PanelInv, Panel!GroupByFlow PROVE PanelInv'
  OBVIOUS
<1>1. /\ panelPc = "group" /\ applied = 0 /\ applied' = applied /\ tries' = tries /\ edits' = edits
      /\ op' = op /\ requested' = requested /\ email' = email /\ ours' = ours /\ on' = on
  BY DEF PanelInv, Panel!GroupByFlow, Panel!panel
<1>2. /\ requested # {} /\ requested \subseteq Inbounds /\ tries \in 0 .. MaxTries
      /\ Panel!TypeOK
  BY DEF PanelInv, Panel!TypeOK
<1>3. CASE panelPc' = "apply" /\ result' = result /\ panelFaults' = panelFaults
           /\ groups' \in IF op = "delete" THEN {<<FlowOf[CHOOSE i \in requested : TRUE]>>}
                          ELSE Panel!Orders({FlowOf[i] : i \in requested})
  <2>1. /\ groups' \in Seq(Panel!Flows) /\ groups' # <<>> /\ Len(groups') <= Cardinality(Panel!Flows)
        /\ Panel!Range(groups') \subseteq Panel!Flows
        /\ op # "delete" => \A i \in requested : FlowOf[i] \in Panel!Range(groups')
    <3>1. CASE op = "delete"
      <4> DEFINE f == FlowOf[CHOOSE i \in requested : TRUE]
      <4>1. groups' = <<f>> /\ f \in Panel!Flows
        BY <1>2, <1>3, <3>1 DEF Panel!Flows
      <4> HIDE DEF f
      <4>2. /\ groups' \in Seq(Panel!Flows) /\ groups' # <<>> /\ Len(groups') = 1
            /\ Panel!Range(groups') = {f}
        BY <4>1 DEF Panel!Range
      <4>3. Cardinality(Panel!Flows) # 0
        BY <4>1, PanelCardinality, FS_EmptySet
      <4> QED BY <3>1, <4>1, <4>2, <4>3, PanelCardinality
    <3>2. CASE op # "delete"
      <4> DEFINE S == {FlowOf[i] : i \in requested}
      <4>1. S \in SUBSET Panel!Flows /\ S # {}
        BY <1>2 DEF Panel!Flows
      <4>2. groups' \in Panel!Orders(S)
        BY <1>3, <3>2
      <4>3. \A i \in requested : FlowOf[i] \in S
        OBVIOUS
      <4> HIDE DEF S
      <4>4. IsFiniteSet(S) /\ Cardinality(S) <= Cardinality(Panel!Flows)
        BY <4>1, PanelCardinality, FS_Subset
      <4>5. Cardinality(S) \in Nat \ {0}
        BY <4>1, <4>4, FS_CardinalityType, FS_EmptySet
      <4>6. groups' \in [1 .. Cardinality(S) -> S] /\ Panel!Range(groups') = S
        BY <4>2, PanelCardinality DEF Panel!Orders
      <4>7. groups' \in Seq(Panel!Flows) /\ Len(groups') = Cardinality(S)
        BY <4>1, <4>5, <4>6
      <4>8. groups' # <<>>
        BY <4>5, <4>7, EmptySeq
      <4> QED BY <4>1, <4>3, <4>4, <4>6, <4>7, <4>8
    <3> QED BY <3>1, <3>2
  <2>2. applied' + Len(groups') <= Panel!Cardinality(Panel!Flows)
    BY <1>1, <2>1, PanelCardinality, LenProperties
  <2>3. Panel!TypeOK'
    BY <1>1, <1>2, <1>3, <2>1, Zenon DEF Panel!TypeOK, Panel!Flows, Panel!Results, Panel!Cardinality
  <2>4. op' # "delete" => LeftToApply'
    BY <1>1, <2>1 DEF LeftToApply
  <2>5. FullMembership'
    BY <1>3 DEF FullMembership, Panel!FullMembership
  <2>6. groups' \in Seq(Panel!Flows')
    BY <2>1 DEF Panel!Flows
  <2>7. requested' # {} /\ panelPc' = "apply" /\ groups' # <<>>
    BY <1>1, <1>2, <1>3, <2>1
  <2> QED BY <2>2, <2>3, <2>4, <2>5, <2>6, <2>7 DEF PanelInv, Panel!Flows
<1>4. CASE Panel!Fault /\ Panel!End("refused", FALSE) /\ UNCHANGED groups
  <2>1. panelPc' = "done" /\ result' = [kind |-> "refused", incomplete |-> FALSE] /\ groups' = groups
    BY <1>4 DEF Panel!End
  <2>2. panelFaults' \in 0 .. MaxCallFaults
    BY <1>2, <1>4, PanelAssumption DEF Panel!Fault, Panel!TypeOK
  <2>3. result' \in [kind : Panel!Results, incomplete : BOOLEAN] /\ result'.kind = "refused"
    BY <2>1 DEF Panel!Results
  <2>4. Panel!TypeOK'
    BY <1>1, <1>2, <2>1, <2>2, <2>3, Zenon DEF Panel!TypeOK, Panel!Flows, Panel!Results, Panel!Cardinality
  <2>5. FullMembership'
    BY <2>3 DEF FullMembership, Panel!FullMembership
  <2>6. /\ requested' # {} /\ groups' \in Seq(Panel!Flows)
        /\ applied' + Len(groups') <= Panel!Cardinality(Panel!Flows)
    BY <1>1, <2>1 DEF PanelInv
  <2>7. panelPc' = "done" 
    BY <2>1
  <2> QED BY <2>4, <2>5, <2>6, <2>7 DEF PanelInv, Panel!Flows
<1> QED BY <1>3, <1>4 DEF Panel!GroupByFlow

(* How a request ends: with its group done, or with the call over.           *)
LEMMA PanelGiveUp ==
  ASSUME PanelInv, panelPc = "apply", op' = op, requested' = requested, edits' = edits,
         panelFaults' \in 0 .. MaxCallFaults,
         email' \in {"none", "old", "new"}, ours' \in BOOLEAN,
         on' \in [Inbounds -> Panel!Flows \cup {Panel!Off}],
         NEW kind \in Panel!Results, Panel!GiveUp(kind), kind # "ok",
         kind = "notFound" /\ op # "add" => email' # "old"
  PROVE  PanelInv'
<1>1. /\ panelPc' = "done" /\ result' = [kind |-> kind, incomplete |-> applied > 0]
      /\ groups' = groups /\ applied' = applied /\ tries' = tries
  BY DEF Panel!GiveUp, Panel!End
<1>2. (applied > 0) \in BOOLEAN
  OBVIOUS
<1>3. result' \in [kind : Panel!Results, incomplete : BOOLEAN] /\ result'.kind = kind
  BY <1>1, <1>2
<1>4. Panel!TypeOK'
  BY <1>1, <1>3, Zenon DEF PanelInv, Panel!TypeOK, Panel!Flows, Panel!Results, Panel!Cardinality, Panel!Off
<1>5. FullMembership'
  BY <1>3 DEF FullMembership, Panel!FullMembership
<1>6. /\ requested' # {} /\ groups' \in Seq(Panel!Flows)
      /\ applied' + Len(groups') <= Panel!Cardinality(Panel!Flows)
  BY <1>1 DEF PanelInv
<1> QED BY <1>1, <1>4, <1>5, <1>6 DEF PanelInv, Panel!Flows

LEMMA PanelGroupDone ==
  ASSUME PanelInv, panelPc = "apply", op' = op, requested' = requested, edits' = edits,
         panelFaults' \in 0 .. MaxCallFaults,
         email' \in {"none", "old", "new"}, ours' \in BOOLEAN, ours',
         on' \in [Inbounds -> Panel!Flows \cup {Panel!Off}],
         op = "rename" => email' = "new",
         op # "delete" => \A i \in requested :
           \/ i \notin Panel!Group /\ on'[i] = on[i]
           \/ on'[i] \in {Panel!Off, FlowOf[i]},
         Panel!GroupDone
  PROVE  PanelInv'
<1>1. groups' = Tail(groups) /\ applied' = applied + 1 /\ tries' = 0
  BY DEF Panel!GroupDone
<1>2. /\ applied \in Nat /\ applied + Len(groups) <= Cardinality(Panel!Flows)
      /\ Cardinality(Panel!Flows) \in Nat
  BY PanelCardinality DEF PanelInv, Panel!TypeOK
<1>3. applied' + Len(groups') <= Cardinality(Panel!Flows) /\ applied' \in 0 .. Cardinality(Panel!Flows)
  BY <1>1, <1>2, PanelGroups
<1>4. Panel!Range(groups') \subseteq Panel!Flows /\ groups' \in Seq(Panel!Flows)
  <2>1. groups' \in Seq(Panel!Flows)
    BY <1>1, PanelGroups
  <2> QED BY <2>1, LenProperties DEF Panel!Range
<1>5. op # "delete" => LeftToApply'
  <2> SUFFICES ASSUME op # "delete", NEW i \in requested
               PROVE  FlowOf[i] \in Panel!Range(groups') \/ on'[i] \in {Panel!Off, FlowOf[i]}
    BY DEF LeftToApply, Panel!Off
  <2>1. CASE i \notin Panel!Group /\ on'[i] = on[i]
    BY <1>1, <2>1, PanelGroups DEF PanelInv, LeftToApply, Panel!Group
  <2>2. CASE on'[i] \in {Panel!Off, FlowOf[i]}
    BY <2>2
  <2> QED BY <2>1, <2>2
<1>6. /\ requested' # {} /\ 0 \in 0 .. MaxTries
      /\ op \in {"add", "update", "rename", "delete"} /\ requested \subseteq Inbounds
      /\ edits \in 0 .. MaxEdits /\ result \in [kind : Panel!Results, incomplete : BOOLEAN]
  BY PanelAssumption DEF PanelInv, Panel!TypeOK
<1>7. ASSUME panelPc' \in {"group", "apply", "verify", "done"},
             result' \in [kind : Panel!Results, incomplete : BOOLEAN]
      PROVE  Panel!TypeOK'
  BY <1>1, <1>3, <1>4, <1>6, <1>7, PanelCardinality, Zenon
  DEF Panel!TypeOK, Panel!Flows, Panel!Results, Panel!Cardinality, Panel!Off
<1>8. CASE Len(groups) > 1 /\ UNCHANGED <<panelPc, result>>
  <2>1. panelPc' = "apply" /\ groups' # <<>>
    BY <1>1, <1>8, PanelGroups
  <2>2. Panel!TypeOK'
    BY <1>6, <1>7, <1>8, <2>1
  <2>3. FullMembership'
    BY <2>1 DEF FullMembership, Panel!FullMembership
  <2>4. applied' + Len(groups') <= Panel!Cardinality(Panel!Flows)
    BY <1>3, PanelCardinality
  <2> QED BY <1>4, <1>5, <1>6, <2>1, <2>2, <2>3, <2>4 DEF PanelInv, Panel!Flows
<1>9. CASE Len(groups) <= 1 /\ panelPc' = "verify" /\ UNCHANGED result
  <2>1. groups' = <<>>
    BY <1>1, <1>9, PanelGroups
  <2>2. Panel!TypeOK'
    BY <1>6, <1>7, <1>9
  <2>3. FullMembership'
    BY <1>9 DEF FullMembership, Panel!FullMembership
  <2>4. applied' + Len(groups') <= Panel!Cardinality(Panel!Flows)
    BY <1>3, PanelCardinality
  <2>5. ours' /\ (op' = "rename" => email' # "old")
    OBVIOUS
  <2> QED BY <1>4, <1>5, <1>6, <1>9, <2>1, <2>2, <2>3, <2>4, <2>5 DEF PanelInv, Panel!Flows
<1>10. CASE ~Panel!Multi /\ Panel!End("ok", FALSE)
  <2>1. panelPc' = "done" /\ result' = [kind |-> "ok", incomplete |-> FALSE]
    BY <1>10 DEF Panel!End
  <2>2. result' \in [kind : Panel!Results, incomplete : BOOLEAN] /\ result'.kind = "ok"
    BY <2>1 DEF Panel!Results
  <2>3. Panel!TypeOK'
    BY <1>7, <2>1, <2>2
  <2>4. FullMembership'
    <3>1. ~Panel!Multi'
      BY <1>10 DEF Panel!Multi, Panel!Cardinality
    <3> QED BY <2>2, <3>1 DEF FullMembership, Panel!FullMembership
  <2>5. applied' + Len(groups') <= Panel!Cardinality(Panel!Flows)
    BY <1>3, PanelCardinality
  <2> QED BY <1>4, <1>6, <2>1, <2>3, <2>4, <2>5 DEF PanelInv, Panel!Flows
<1>11. Len(groups) > 1 \/ Len(groups) <= 1
  BY PanelGroups
<1> QED BY <1>8, <1>9, <1>10, <1>11 DEF Panel!GroupDone

LEMMA PanelFaults ==
  ASSUME PanelInv
  PROVE  /\ panelFaults \in 0 .. MaxCallFaults
         /\ Panel!Fault => panelFaults' \in 0 .. MaxCallFaults
BY PanelAssumption DEF PanelInv, Panel!TypeOK, Panel!Fault

LEMMA PanelTypes ==
  ASSUME PanelInv
  PROVE  /\ op \in {"add", "update", "rename", "delete"} /\ email \in {"none", "old", "new"}
         /\ ours \in BOOLEAN /\ on \in [Inbounds -> Panel!Flows \cup {Panel!Off}]
         /\ requested \subseteq Inbounds /\ Panel!Group \subseteq Inbounds
BY Zenon DEF PanelInv, Panel!TypeOK, Panel!Group

(* A request the panel answered.                                             *)
LEMMA PanelAnswer ==
  ASSUME PanelInv, panelPc = "apply", op' = op, requested' = requested, edits' = edits,
         panelFaults' \in 0 .. MaxCallFaults,
         NEW ids \in SUBSET Panel!Group, \A i \in Panel!Group : i \in ids \/ on[i] = Panel!Off,
         Panel!Process(Head(groups), ids),
         IF Panel!Answer = "ok" THEN Panel!GroupDone ELSE Panel!GiveUp(Panel!Answer)
  PROVE  PanelInv'
<1>1. /\ email' \in {"none", "old", "new"} /\ ours' \in BOOLEAN
      /\ on' \in [Inbounds -> Panel!Flows \cup {Panel!Off}]
  BY PanelProcess
<1>2. CASE Panel!Answer = "ok"
  <2>1. ours' /\ (op = "rename" => email' = "new")
    BY <1>2, PanelProcess
  <2>2. op # "delete" => \A i \in requested :
           \/ i \notin Panel!Group /\ on'[i] = on[i]
           \/ on'[i] \in {Panel!Off, FlowOf[i]}
    <3> SUFFICES ASSUME op # "delete", NEW i \in requested
                 PROVE  \/ i \notin Panel!Group /\ on'[i] = on[i]
                        \/ on'[i] \in {Panel!Off, FlowOf[i]}
      OBVIOUS
    <3>1. CASE i \in Panel!Group
      BY <1>2, <3>1, PanelProcess
    <3>2. CASE i \notin Panel!Group
      BY <3>2, PanelTypes, PanelProcess
    <3> QED BY <3>1, <3>2
  <2> QED BY <1>1, <1>2, <2>1, <2>2, PanelGroupDone
<1>3. CASE Panel!Answer # "ok"
  <2>1. email' = email
    BY <1>3, PanelProcess
  <2>2. CASE op = "add"
    <3>1. Panel!Answer = "exists"
      BY <1>3, <2>2, Zenon DEF Panel!Answer
    <3> QED BY <1>1, <1>3, <3>1, PanelGiveUp DEF Panel!Results
  <2>3. CASE op = "delete"
    <3>1. Panel!Answer = "notFound" /\ email = "none"
      BY <1>3, <2>3 DEF Panel!Answer
    <3> QED BY <1>1, <1>3, <2>1, <3>1, PanelGiveUp DEF Panel!Results
  <2>4. CASE op \in {"update", "rename"}
    <3>1. Panel!Answer = "notFound" /\ email # "old"
      BY <1>3, <2>4 DEF Panel!Answer
    <3> QED BY <1>1, <1>3, <2>1, <3>1, PanelGiveUp DEF Panel!Results
  <2> QED BY <2>2, <2>3, <2>4, PanelTypes
<1> QED BY <1>2, <1>3

(* A request that was cut short, whether or not the panel acted on it.       *)
LEMMA PanelCutShort ==
  ASSUME PanelInv, panelPc = "apply",
         \/ UNCHANGED Panel!panel
         \/ Panel!Process(Head(groups), Panel!Group)
  PROVE  /\ email' \in {"none", "old", "new"} /\ ours' \in BOOLEAN
         /\ on' \in [Inbounds -> Panel!Flows \cup {Panel!Off}]
         /\ op # "delete" =>
              \A i \in Inbounds : on'[i] = on[i] \/ (i \in Panel!Group /\ on'[i] = FlowOf[i])
<1>1. CASE UNCHANGED Panel!panel
  <2>1. email' = email /\ ours' = ours /\ on' = on
    BY <1>1 DEF Panel!panel
  <2>2. ours' \in BOOLEAN
    BY <2>1, PanelTypes, Zenon
  <2>3. email' \in {"none", "old", "new"} /\ on' \in [Inbounds -> Panel!Flows \cup {Panel!Off}]
    BY <2>1, PanelTypes
  <2>4. \A i \in Inbounds : on'[i] = on[i]
    BY <2>1
  <2> QED BY <2>2, <2>3, <2>4, Zenon
<1>2. CASE Panel!Process(Head(groups), Panel!Group)
  <2>1. Panel!Group \in SUBSET Panel!Group
    OBVIOUS
  <2> QED BY <1>2, <2>1, PanelProcess
<1> QED BY <1>1, <1>2

LEMMA PanelStep == PanelInv /\ [Panel!Next]_Panel!vars => PanelInv'
<1> SUFFICES ASSUME PanelInv, [Panel!Next]_Panel!vars PROVE PanelInv'
  OBVIOUS
<1>1. CASE Panel!GroupByFlow
  BY <1>1, PanelGroupByFlow
<1>2. CASE Panel!Answered
  <2>1. /\ panelPc = "apply" /\ op' = op /\ requested' = requested /\ edits' = edits
        /\ IF Panel!Answer = "ok" THEN Panel!GroupDone ELSE Panel!GiveUp(Panel!Answer)
    BY <1>2 DEF Panel!Answered
  <2>2. CASE Panel!Process(Head(groups), Panel!Group) /\ UNCHANGED panelFaults
    <3>1. Panel!Group \in SUBSET Panel!Group /\ panelFaults' \in 0 .. MaxCallFaults
      BY <2>2, PanelFaults
    <3> QED BY <2>1, <2>2, <3>1, PanelAnswer
  <2>3. ASSUME Panel!Fault, NEW missed \in SUBSET {i \in Panel!Group : on[i] = Panel!Off},
               Panel!Process(Head(groups), Panel!Group \ missed)
        PROVE  PanelInv'
    <3>1. Panel!Group \ missed \in SUBSET Panel!Group
      OBVIOUS
    <3>2. \A i \in Panel!Group : i \in Panel!Group \ missed \/ on[i] = Panel!Off
      OBVIOUS
    <3>3. panelFaults' \in 0 .. MaxCallFaults
      BY <2>3, PanelFaults
    <3> QED BY <2>1, <2>3, <3>1, <3>2, <3>3, PanelAnswer
  <2> QED BY <1>2, <2>2, <2>3 DEF Panel!Answered
<1>3. CASE Panel!Broken
  <2>1. /\ panelPc = "apply" /\ op' = op /\ requested' = requested /\ edits' = edits
        /\ panelFaults' \in 0 .. MaxCallFaults
        /\ UNCHANGED Panel!panel \/ Panel!Process(Head(groups), Panel!Group)
    BY <1>3, PanelFaults DEF Panel!Broken
  <2>2. /\ email' \in {"none", "old", "new"} /\ ours' \in BOOLEAN
        /\ on' \in [Inbounds -> Panel!Flows \cup {Panel!Off}]
        /\ op # "delete" =>
              \A i \in Inbounds : on'[i] = on[i] \/ (i \in Panel!Group /\ on'[i] = FlowOf[i])
    BY <2>1, PanelCutShort
  <2>3. CASE tries + 1 < MaxTries /\ tries' = tries + 1 /\ UNCHANGED <<groups, applied, panelPc, result>>
    <3>1. tries' \in 0 .. MaxTries /\ panelPc' = "apply"
      BY <2>1, <2>3, PanelAssumption DEF PanelInv, Panel!TypeOK
    <3>2. Panel!TypeOK'
      <4>1. groups' = groups /\ applied' = applied /\ panelPc' = panelPc /\ result' = result
        BY <2>3
      <4> QED BY <2>1, <2>2, <3>1, <4>1, Zenon
          DEF PanelInv, Panel!TypeOK, Panel!Flows, Panel!Results, Panel!Cardinality, Panel!Off
    <3>3. op' # "delete" => LeftToApply'
      <4> SUFFICES ASSUME op # "delete", NEW i \in requested
                   PROVE  FlowOf[i] \in Panel!Range(groups') \/ on'[i] \in {Panel!Off, FlowOf[i]}
        BY <2>1 DEF LeftToApply, Panel!Off
      <4> QED BY <2>1, <2>2, <2>3, PanelTypes DEF PanelInv, LeftToApply
    <3>4. FullMembership'
      BY <3>1 DEF FullMembership, Panel!FullMembership
    <3> QED BY <2>1, <2>3, <3>1, <3>2, <3>3, <3>4 DEF PanelInv, Panel!Flows
  <2>4. CASE Panel!GiveUp("broken")
    BY <2>1, <2>2, <2>4, PanelGiveUp DEF Panel!Results
  <2> QED BY <1>3, <2>3, <2>4 DEF Panel!Broken
<1>4. CASE Panel!NotRepeated
  <2>1. /\ panelPc = "apply" /\ op' = op /\ requested' = requested /\ edits' = edits
        /\ panelFaults' \in 0 .. MaxCallFaults
        /\ UNCHANGED Panel!panel \/ Panel!Process(Head(groups), Panel!Group)
        /\ Panel!GiveUp("timeout") \/ Panel!GiveUp("refused")
    BY <1>4, PanelFaults DEF Panel!NotRepeated
  <2>2. /\ email' \in {"none", "old", "new"} /\ ours' \in BOOLEAN
        /\ on' \in [Inbounds -> Panel!Flows \cup {Panel!Off}]
    BY <2>1, PanelCutShort
  <2>3. CASE Panel!GiveUp("timeout")
    BY <2>1, <2>2, <2>3, PanelGiveUp DEF Panel!Results
  <2>4. CASE Panel!GiveUp("refused")
    BY <2>1, <2>2, <2>4, PanelGiveUp DEF Panel!Results
  <2> QED BY <2>1, <2>3, <2>4
<1>5. CASE Panel!Verify
  <2>1. /\ panelPc = "verify" /\ op' = op /\ requested' = requested /\ edits' = edits
        /\ email' = email /\ ours' = ours /\ on' = on
        /\ groups' = groups /\ applied' = applied /\ tries' = tries
    BY <1>5 DEF Panel!Verify, Panel!panel
  <2>2. ours /\ groups = <<>> /\ (op = "rename" => email # "old") /\ (op # "delete" => LeftToApply)
    BY <2>1 DEF PanelInv
  <2>3. /\ panelFaults' \in 0 .. MaxCallFaults /\ panelPc' = "done"
        /\ \E kind \in Panel!Results, b \in BOOLEAN : result' = [kind |-> kind, incomplete |-> b]
    BY <1>5, PanelFaults DEF Panel!Verify, Panel!End, Panel!Results
  <2>4. Panel!TypeOK'
    <3>1. result' \in [kind : Panel!Results, incomplete : BOOLEAN]
      BY <2>3
    <3> QED BY <2>1, <2>3, <3>1, Zenon
        DEF PanelInv, Panel!TypeOK, Panel!Flows, Panel!Results, Panel!Cardinality, Panel!Off
  <2>5. result'.kind = "ok" => \A i \in requested : on[i] # Panel!Off
    BY <1>5 DEF Panel!Verify, Panel!End
  <2>6. result'.kind = "notFound" => email # (IF op = "rename" THEN "new" ELSE "old")
    BY <1>5 DEF Panel!Verify, Panel!End
  <2>7. ASSUME op # "delete", result'.kind = "ok", NEW i \in requested PROVE on[i] = FlowOf[i]
    BY <2>2, <2>5, <2>7 DEF LeftToApply, Panel!Range
  <2>8. Panel!Multi' = Panel!Multi /\ (Panel!Multi => op # "delete")
    BY <2>1, Zenon DEF Panel!Multi, Panel!Cardinality
  <2>9. FullMembership'
    BY <2>1, <2>2, <2>6, <2>7, <2>8 DEF FullMembership, Panel!FullMembership
  <2> QED BY <2>1, <2>3, <2>4, <2>9 DEF PanelInv, Panel!Flows
<1>6. CASE Panel!Edit
  <2>1. /\ panelPc # "done" /\ op' = op /\ requested' = requested
        /\ groups' = groups /\ applied' = applied /\ tries' = tries /\ panelPc' = panelPc
        /\ result' = result /\ panelFaults' = panelFaults
    BY <1>6 DEF Panel!Edit, Panel!call
  <2>2. edits' \in 0 .. MaxEdits
    BY <1>6, PanelAssumption DEF Panel!Edit, PanelInv, Panel!TypeOK
  <2>3. /\ on' \in [Inbounds -> Panel!Flows \cup {Panel!Off}]
        /\ \A i \in Inbounds : on'[i] = on[i] \/ on'[i] = Panel!Off
    BY <1>6, PanelTypes DEF Panel!Edit
  <2>4. /\ email' \in {"none", "old", "new"} /\ (email' = email \/ email' = "none")
    BY <1>6, PanelTypes DEF Panel!Edit
  <2>5. ours' \in BOOLEAN /\ (ours => ours')
    <3>1. ours' = ours \/ ours' = TRUE
      BY <1>6 DEF Panel!Edit
    <3>2. ours \in BOOLEAN
      BY PanelTypes
    <3>3. CASE ours' = ours
      BY <3>2, <3>3, Zenon
    <3>4. CASE ours' = TRUE
      BY <3>4, Zenon
    <3> QED BY <3>1, <3>3, <3>4, Zenon
  <2>6. Panel!TypeOK'
    BY <2>1, <2>2, <2>3, <2>4, <2>5, Zenon
    DEF PanelInv, Panel!TypeOK, Panel!Flows, Panel!Results, Panel!Cardinality, Panel!Off
  <2>7. LeftToApply => LeftToApply'
    <3> SUFFICES ASSUME LeftToApply, NEW i \in requested
                 PROVE  FlowOf[i] \in Panel!Range(groups') \/ on'[i] \in {Panel!Off, FlowOf[i]}
      BY <2>1 DEF LeftToApply, Panel!Off
    <3> QED BY <2>1, <2>3, PanelTypes DEF LeftToApply
  <2>8. FullMembership'
    BY <2>1 DEF FullMembership, Panel!FullMembership
  <2>9. panelPc' = "verify" => ours' /\ (op' = "rename" => email' # "old")
    BY <2>1, <2>4, <2>5 DEF PanelInv
  <2> QED BY <2>1, <2>6, <2>7, <2>8, <2>9 DEF PanelInv, Panel!Flows
<1>7. CASE UNCHANGED Panel!vars
  BY <1>7 DEF Panel!vars, Panel!panel, Panel!call, PanelInv, Panel!TypeOK, Panel!Flows, Panel!Cardinality,
              LeftToApply, FullMembership, Panel!FullMembership, Panel!Multi, Panel!Range
<1> QED BY <1>1, <1>2, <1>3, <1>4, <1>5, <1>6, <1>7 DEF Panel!Next

LEMMA PanelInvariant == Panel!Spec => []PanelInv
<1>1. PanelInv /\ [Panel!Next]_Panel!vars => PanelInv'
  BY PanelStep
<1> QED BY <1>1, PanelInit, PTL DEF Panel!Spec

(* For every set of inbounds, every flow they need and every number of       *)
(* retries, faults and edits: success of a call on inbounds of several flows *)
(* means a full membership, and "not found" that no client has the email it   *)
(* was looked up by, although a rename can end so with the client under the   *)
(* new one (xui/client.go).                                                  *)
THEOREM CallsTellTheTruth == Panel!Spec => []FullMembership
<1>1. PanelInv => FullMembership
  BY DEF PanelInv
<1> QED BY <1>1, PanelInvariant, PTL
--------------------------------------------------------------------------------
(* Backups: a copy holds what was committed when its backup began, because  *)
(* the checkpoint moves that into the file before the copy, and nothing     *)
(* moves back; and the last copy published is of the latest day, so that    *)
(* pruning, which spares the newest, spares it.                             *)
BackupFaithful ==
  /\ stage = "copy" => main >= began
  /\ \A k \in DOMAIN temp : temp[k] >= began
  /\ \A f \in rotated \cup {base} : Backup!Complete(f)

BackupOrder ==
  /\ rotated \subseteq everRotated /\ IsFiniteSet(everRotated)
  /\ published.day <= days
  /\ \A f \in everRotated \cup {base} : f.day <= published.day
  /\ stage = "rotate" => base = published
  /\ published # Backup!NoFile => published \in rotated \cup {base}

(* The pages read so far leave room for the next one.                       *)
BackupRoom ==
  /\ stage = "copy" => Len(temp) < Pages
  /\ stage \notin {"copy", "verify", "publish"} => temp = <<>>

BackupInv == /\ Backup!TypeOK /\ BackupRoom /\ BackupFaithful /\ BackupOrder
             /\ Backup!Newest(everRotated) \subseteq rotated

LEMMA BackupCardinality == \A S : Backup!Cardinality(S) = Cardinality(S)
BY DEF Backup!Cardinality, Cardinality, Backup!IsFiniteSet, IsFiniteSet

(* A file that is among the newest of many is among the newest of fewer.    *)
LEMMA NewestOfFewer ==
  ASSUME NEW many, IsFiniteSet(many), NEW few \in SUBSET many, NEW f \in few,
         f \in Backup!Newest(many)
  PROVE  f \in Backup!Newest(few)
<1> DEFINE Later(files) == {g \in files : g.day > f.day}
<1>1. IsFiniteSet(Later(many)) /\ Later(few) \subseteq Later(many)
  BY FS_Subset
<1>2. Cardinality(Later(few)) <= Cardinality(Later(many))
  BY <1>1, FS_Subset
<1>3. Cardinality(Later(few)) \in Nat /\ Cardinality(Later(many)) \in Nat
  BY <1>1, FS_Subset, FS_CardinalityType
<1>4. Cardinality(Later(many)) < Keep
  BY BackupCardinality DEF Backup!Newest
<1>5. Cardinality(Later(few)) < Keep
  BY <1>2, <1>3, <1>4, BackupAssumption
<1> QED BY <1>5, BackupCardinality DEF Backup!Newest

LEMMA LatestIsNewest ==
  ASSUME NEW files, NEW f \in files, \A g \in files : ~(g.day > f.day)
  PROVE  f \in Backup!Newest(files)
<1>1. {g \in files : g.day > f.day} = {}
  OBVIOUS
<1>2. Cardinality({g \in files : g.day > f.day}) < Keep
  BY <1>1, FS_EmptySet, BackupAssumption
<1> QED BY <1>2, BackupCardinality DEF Backup!Newest

LEMMA BackupInit == Backup!Init => BackupInv
<1> SUFFICES ASSUME Backup!Init PROVE BackupInv
  OBVIOUS
<1>1. <<>> \in UNION {[1 .. k -> Backup!Versions] : k \in 0 .. Pages}
  <2>1. <<>> \in [1 .. 0 -> Backup!Versions] /\ 0 \in 0 .. Pages
    BY BackupAssumption
  <2> QED BY <2>1
<1>2. Backup!NoFile \in Backup!Files
  BY <1>1, BackupAssumption DEF Backup!NoFile, Backup!Files, Backup!Versions
<1>3. Backup!TypeOK
  BY <1>1, <1>2, BackupAssumption DEF Backup!Init, Backup!TypeOK, Backup!Versions, Backup!Stages
<1>4. BackupRoom /\ BackupFaithful
  BY DEF Backup!Init, BackupRoom, BackupFaithful, Backup!Complete, Backup!NoFile
<1>5. BackupOrder
  BY FS_EmptySet DEF Backup!Init, BackupOrder, Backup!NoFile
<1>6. Backup!Newest(everRotated) \subseteq rotated
  BY DEF Backup!Init, Backup!Newest
<1> QED BY <1>3, <1>4, <1>5, <1>6 DEF BackupInv

(* One more page.                                                           *)
LEMMA PageRead ==
  ASSUME BackupInv, stage = "copy"
  PROVE  /\ Append(temp, main) \in UNION {[1 .. k -> Backup!Versions] : k \in 0 .. Pages}
         /\ Len(Append(temp, main)) = Len(temp) + 1 /\ Len(temp) \in Nat /\ Len(temp) + 1 <= Pages
         /\ \A k \in DOMAIN Append(temp, main) : Append(temp, main)[k] >= began
<1>1. PICK k \in 0 .. Pages : temp \in [1 .. k -> Backup!Versions]
  BY DEF BackupInv, Backup!TypeOK
<1>2. temp \in Seq(Backup!Versions) /\ Len(temp) = k /\ main \in Backup!Versions
  <2>1. main \in Backup!Versions
    BY BackupAssumption DEF BackupInv, Backup!TypeOK, Backup!Versions
  <2> QED BY <1>1, <2>1, BackupAssumption
<1>3. k < Pages
  BY <1>2 DEF BackupInv, BackupRoom
<1>4. Append(temp, main) \in [1 .. k + 1 -> Backup!Versions] /\ k + 1 \in 0 .. Pages
  <2>1. Append(temp, main) \in Seq(Backup!Versions) /\ Len(Append(temp, main)) = k + 1
    BY <1>2
  <2>2. k + 1 \in 0 .. Pages
    BY <1>3, BackupAssumption
  <2> QED BY <2>1, <2>2, LenProperties
<1>5. \A j \in DOMAIN Append(temp, main) : Append(temp, main)[j] >= began
  BY <1>1, <1>2 DEF BackupInv, BackupFaithful
<1> QED BY <1>1, <1>2, <1>3, <1>4, <1>5, BackupAssumption

(* The steps that leave the copies as they are.                             *)
LEMMA CopiesStay ==
  ASSUME BackupInv, UNCHANGED <<base, rotated, published, everRotated>>, days' \in Nat,
         days <= days', stage' = "rotate" => stage = "rotate"
  PROVE  /\ BackupOrder' /\ (Backup!Newest(everRotated) \subseteq rotated)'
         /\ \A f \in (rotated \cup {base})' : Backup!Complete(f)
<1>1. published.day \in Nat /\ days \in Nat
  BY BackupAssumption DEF BackupInv, Backup!TypeOK, Backup!Files
<1>2. published'.day <= days'
  BY <1>1 DEF BackupInv, BackupOrder
<1>3. BackupOrder'
  BY <1>2 DEF BackupInv, BackupOrder, Backup!NoFile
<1>4. (Backup!Newest(everRotated) \subseteq rotated)'
  BY DEF BackupInv, Backup!Newest
<1> QED BY <1>3, <1>4 DEF BackupInv, BackupFaithful

LEMMA NoPages == /\ <<>> \in UNION {[1 .. k -> Backup!Versions] : k \in 0 .. Pages}
                 /\ DOMAIN <<>> = {}
<1>1. <<>> \in [1 .. 0 -> Backup!Versions] /\ 0 \in 0 .. Pages
  BY BackupAssumption
<1> QED BY <1>1

LEMMA BackupRuns ==
  ASSUME BackupInv,
         \/ Backup!Commit \/ Backup!AutoCheckpoint \/ Backup!Start \/ Backup!Checkpoint
         \/ Backup!Read \/ Backup!Verify \/ Backup!Restart
  PROVE  BackupInv'
<1>1. /\ UNCHANGED <<base, rotated, published, everRotated>>
      /\ committed \in 0 .. MaxCommits /\ main \in 0 .. committed /\ began \in 0 .. committed
      /\ days \in 0 .. MaxDays /\ MaxCommits \in Nat /\ MaxDays \in Nat /\ Pages \in Nat
      /\ stage \in Backup!Stages
      /\ temp \in UNION {[1 .. k -> Backup!Versions] : k \in 0 .. Pages}
      /\ Backup!Versions = 0 .. MaxCommits
  BY BackupAssumption
     DEF BackupInv, Backup!TypeOK, Backup!Commit, Backup!AutoCheckpoint, Backup!Start,
         Backup!Checkpoint, Backup!Read, Backup!Verify, Backup!Restart, Backup!history, Backup!Versions
<1>2. /\ days' \in 0 .. MaxDays /\ days <= days'
      /\ stage' = "rotate" => stage = "rotate"
      /\ committed' \in 0 .. MaxCommits /\ main' \in 0 .. committed' /\ began' \in 0 .. committed'
      /\ stage' \in Backup!Stages
      /\ temp' = temp \/ temp' = <<>> \/ (Backup!Read /\ temp' = Append(temp, main))
  BY <1>1 DEF Backup!Commit, Backup!AutoCheckpoint, Backup!Start, Backup!Checkpoint,
              Backup!Read, Backup!Verify, Backup!Restart, Backup!End, Backup!Stages
<1>3. temp' \in UNION {[1 .. k -> Backup!Versions] : k \in 0 .. Pages}
  BY <1>1, <1>2, NoPages, PageRead DEF Backup!Read
<1>4. Backup!TypeOK'
  BY <1>1, <1>2, <1>3 DEF BackupInv, Backup!TypeOK
<1>5. BackupRoom'
  <2>1. CASE Backup!Read
    <3>1. CASE Backup!End
      BY <3>1 DEF Backup!End, BackupRoom
    <3>2. CASE ~Backup!End
      <4>1. /\ temp' = Append(temp, main) /\ stage' = IF Len(temp) + 1 = Pages THEN "verify" ELSE "copy"
            /\ Len(temp') = Len(temp) + 1 /\ Len(temp) \in Nat /\ Len(temp) + 1 <= Pages
        BY <2>1, <3>2, PageRead DEF Backup!Read
      <4> QED BY <1>1, <4>1 DEF BackupRoom
    <3> QED BY <3>1, <3>2
  <2>2. CASE ~Backup!Read
    <3>1. stage' = "copy" => stage = "copy" \/ (stage = "checkpoint" /\ temp = <<>>)
      BY <2>2 DEF Backup!Commit, Backup!AutoCheckpoint, Backup!Start, Backup!Checkpoint,
         Backup!Verify, Backup!Restart, Backup!End, BackupInv, BackupRoom
    <3>2. UNCHANGED temp \/ temp' = <<>>
      BY <2>2, <1>2
    <3>3. stage' \notin {"copy", "verify", "publish"} => temp' = <<>>
      BY <2>2 DEF Backup!Commit, Backup!AutoCheckpoint, Backup!Start, Backup!Checkpoint,
         Backup!Verify, Backup!Restart, Backup!End, BackupInv, BackupRoom
    <3>4. Len(<<>>) < Pages
      BY BackupAssumption
    <3> QED BY <3>1, <3>2, <3>3, <3>4 DEF BackupInv, BackupRoom
  <2> QED BY <2>1, <2>2
<1>6. /\ stage' = "copy" => main' >= began'
      /\ \A k \in DOMAIN temp' : temp'[k] >= began'
  <2>1. CASE Backup!Read
    BY <2>1, PageRead, NoPages DEF Backup!Read, Backup!End, BackupInv, BackupFaithful
  <2>2. CASE Backup!Start
    BY <1>1, <2>2, NoPages DEF Backup!Start, BackupInv, BackupRoom
  <2>3. CASE Backup!Checkpoint
    BY <1>1, <2>3, NoPages DEF Backup!Checkpoint, Backup!End, BackupInv, BackupFaithful
  <2>4. CASE Backup!Commit \/ Backup!AutoCheckpoint \/ Backup!Verify \/ Backup!Restart
    BY <1>1, <2>4, NoPages DEF Backup!Commit, Backup!AutoCheckpoint, Backup!Verify,
       Backup!Restart, Backup!End, BackupInv, BackupFaithful
  <2> QED BY <2>1, <2>2, <2>3, <2>4
<1>7. /\ BackupOrder' /\ (Backup!Newest(everRotated) \subseteq rotated)'
      /\ \A f \in (rotated \cup {base})' : Backup!Complete(f)
  BY <1>1, <1>2, CopiesStay
<1> QED BY <1>4, <1>5, <1>6, <1>7 DEF BackupInv, BackupFaithful, Backup!Complete

(* A copy that is not published is like a restart.                          *)
LEMMA BackupPublishes == ASSUME BackupInv, Backup!Publish PROVE BackupInv'
<1>1. /\ stage = "publish" /\ UNCHANGED <<committed, main, rotated, days, everRotated>>
      /\ temp' = <<>> /\ began' = 0
  BY DEF Backup!Publish, Backup!End, BackupInv, BackupRoom
<1>2. CASE Backup!End /\ UNCHANGED <<base, published>>
  <2>1. Backup!Restart
    BY <1>1, <1>2 DEF Backup!Restart, Backup!history
  <2> QED BY <2>1, BackupRuns
<1>3. CASE ~(Backup!End /\ UNCHANGED <<base, published>>)
  <2>1. /\ base' = [day |-> days, began |-> began, pages |-> temp]
        /\ published' = base' /\ stage' = "rotate"
    BY <1>3 DEF Backup!Publish
  <2>2. base' \in Backup!Files /\ base'.day = days /\ Backup!Complete(base')
    <3>1. /\ temp \in UNION {[1 .. k -> Backup!Versions] : k \in 0 .. Pages}
          /\ days \in 0 .. MaxDays /\ began \in Backup!Versions
      BY BackupAssumption DEF BackupInv, Backup!TypeOK, Backup!Versions
    <3>2. base' \in Backup!Files
      BY <2>1, <3>1 DEF Backup!Files
    <3> QED BY <2>1, <3>2 DEF BackupInv, BackupFaithful, Backup!Complete
  <2>3. Backup!TypeOK'
    <3>1. committed' \in Backup!Versions /\ main' \in 0 .. committed' /\ 0 \in 0 .. committed'
      BY <1>1, BackupAssumption DEF BackupInv, Backup!TypeOK, Backup!Versions
    <3>2. stage' \in Backup!Stages
      BY <2>1 DEF Backup!Stages
    <3>3. /\ days' \in 0 .. MaxDays /\ base' \in Backup!Files /\ published' \in Backup!Files
          /\ rotated' \subseteq Backup!Files /\ everRotated' \subseteq Backup!Files
      BY <1>1, <2>1, <2>2 DEF BackupInv, Backup!TypeOK
    <3> QED BY <1>1, <3>1, <3>2, <3>3, NoPages DEF Backup!TypeOK
  <2>4. BackupRoom' /\ BackupFaithful'
    BY <1>1, <2>1, <2>2, NoPages DEF BackupInv, BackupRoom, BackupFaithful, Backup!Complete
  <2>5. \A f \in everRotated : f.day \in Nat /\ f.day <= days
    BY BackupAssumption DEF BackupInv, BackupOrder, Backup!TypeOK, Backup!Files
  <2>6. BackupOrder'
    BY <1>1, <2>1, <2>2, <2>5, BackupAssumption DEF BackupInv, BackupOrder, Backup!TypeOK
  <2>7. (Backup!Newest(everRotated) \subseteq rotated)'
    BY <1>1 DEF BackupInv, Backup!Newest
  <2> QED BY <2>3, <2>4, <2>6, <2>7 DEF BackupInv
<1> QED BY <1>2, <1>3

LEMMA BackupRotates == ASSUME BackupInv, Backup!Rotate PROVE BackupInv'
<1>1. /\ stage = "rotate" /\ UNCHANGED <<committed, main, temp, began, days, published>>
      /\ stage' \in {"prune", "idle"} /\ temp = <<>>
  BY DEF Backup!Rotate, BackupInv, BackupRoom
<1>2. BackupRoom'
  BY <1>1 DEF BackupRoom
<1>3. CASE UNCHANGED <<rotated, everRotated, base>>
  <2>1. /\ BackupOrder' /\ (Backup!Newest(everRotated) \subseteq rotated)'
        /\ \A f \in (rotated \cup {base})' : Backup!Complete(f)
    BY <1>1, <1>3, CopiesStay, BackupAssumption DEF BackupInv, Backup!TypeOK
  <2>2. Backup!TypeOK' /\ BackupFaithful'
    BY <1>1, <1>3, <2>1, NoPages
       DEF BackupInv, Backup!TypeOK, BackupFaithful, Backup!Stages, Backup!Complete
  <2> QED BY <1>2, <2>1, <2>2 DEF BackupInv
<1>4. CASE ~UNCHANGED <<rotated, everRotated, base>>
  <2>1. /\ rotated' = rotated \cup {base} /\ everRotated' = everRotated \cup {base}
        /\ base' = Backup!NoFile
    BY <1>4 DEF Backup!Rotate
  <2>2. base' \in Backup!Files /\ base'.day = 0 /\ Backup!Complete(base')
    BY <2>1, NoPages, BackupAssumption
       DEF Backup!NoFile, Backup!Files, Backup!Versions, Backup!Complete
  <2>3. Backup!TypeOK'
    BY <1>1, <2>1, <2>2 DEF BackupInv, Backup!TypeOK, Backup!Stages
  <2>4. BackupFaithful'
    BY <1>1, <2>1, <2>2, NoPages DEF BackupInv, BackupFaithful, Backup!Complete
  <2>5. IsFiniteSet(everRotated')
    BY <2>1, FS_AddElement DEF BackupInv, BackupOrder
  <2>6. published.day \in Nat
    BY DEF BackupInv, Backup!TypeOK, Backup!Files
  <2>7. BackupOrder'
    BY <1>1, <2>1, <2>2, <2>5, <2>6 DEF BackupInv, BackupOrder
  <2>8. ASSUME NEW f \in Backup!Newest(everRotated)' PROVE f \in rotated'
    <3>1. f \in everRotated' /\ f \in Backup!Newest(everRotated')
      BY DEF Backup!Newest
    <3>2. CASE f \in everRotated
      <4>1. f \in Backup!Newest(everRotated)
        BY <2>1, <2>5, <3>1, <3>2, NewestOfFewer
      <4> QED BY <2>1, <4>1 DEF BackupInv
    <3> QED BY <2>1, <3>1, <3>2
  <2> QED BY <1>2, <2>3, <2>4, <2>7, <2>8 DEF BackupInv
<1> QED BY <1>3, <1>4

LEMMA BackupPrunes == ASSUME BackupInv, Backup!Prune PROVE BackupInv'
<1>1. /\ stage = "prune" /\ stage' = "idle"
      /\ UNCHANGED <<committed, main, temp, began, base, days, published, everRotated>>
  BY DEF Backup!Prune, Backup!history
<1>2. PICK gone \in SUBSET (rotated \ Backup!Newest(rotated)) : rotated' = rotated \ gone
  BY DEF Backup!Prune
<1>3. ASSUME NEW f \in rotated, f \in Backup!Newest(everRotated) PROVE f \in rotated'
  <2>1. f \in Backup!Newest(rotated)
    BY <1>3, NewestOfFewer DEF BackupInv, BackupOrder
  <2> QED BY <1>2, <2>1
<1>4. published \in rotated => published \in rotated'
  <2> SUFFICES ASSUME published \in rotated PROVE published \in rotated'
    OBVIOUS
  <2>1. \A g \in everRotated : ~(g.day > published.day)
    BY DEF BackupInv, BackupOrder, Backup!TypeOK, Backup!Files
  <2>2. published \in everRotated
    BY DEF BackupInv, BackupOrder
  <2>3. published \in Backup!Newest(everRotated)
    BY <2>1, <2>2, LatestIsNewest
  <2> QED BY <1>3, <2>3
<1>5. Backup!TypeOK' /\ BackupRoom' /\ BackupFaithful'
  BY <1>1, <1>2 DEF BackupInv, Backup!TypeOK, Backup!Stages, BackupRoom, BackupFaithful, Backup!Complete
<1>6. BackupOrder'
  BY <1>1, <1>2, <1>4 DEF BackupInv, BackupOrder, Backup!NoFile
<1>7. (Backup!Newest(everRotated) \subseteq rotated)'
  <2>1. Backup!Newest(everRotated)' = Backup!Newest(everRotated)
    BY <1>1 DEF Backup!Newest
  <2> QED BY <1>3, <2>1 DEF BackupInv
<1> QED BY <1>5, <1>6, <1>7 DEF BackupInv

LEMMA BackupSteps == BackupInv /\ [Backup!Next]_Backup!vars => BackupInv'
<1> SUFFICES ASSUME BackupInv, [Backup!Next]_Backup!vars PROVE BackupInv'
  OBVIOUS
<1>1. CASE UNCHANGED Backup!vars
  BY <1>1 DEF Backup!vars, BackupInv, Backup!TypeOK, BackupRoom, BackupFaithful, BackupOrder,
              Backup!Newest, Backup!Complete, Backup!NoFile
<1>2. CASE Backup!Next
  BY <1>2, BackupRuns, BackupPublishes, BackupRotates, BackupPrunes DEF Backup!Next
<1> QED BY <1>1, <1>2

LEMMA BackupInvariant == Backup!Spec => []BackupInv
BY BackupInit, BackupSteps, PTL DEF Backup!Spec

(* Whatever fails or restarts in between, the last copy published and the   *)
(* newest ones rotated are kept, and each holds all that was committed when *)
(* its backup began: for any size of the database, any retention and any    *)
(* number of backups and commits.                                           *)
THEOREM BackupsRestore == Backup!Spec => []RestoreLosesNothing
<1>1. BackupInv => RestoreLosesNothing
  BY DEF BackupInv, BackupFaithful, BackupOrder, RestoreLosesNothing, Backup!RestoreLosesNothing
<1> QED BY <1>1, BackupInvariant, PTL
--------------------------------------------------------------------------------
(* The types of the other parts.                                             *)
LEMMA TrafficFault ==
  ASSUME Traffic!TypeOK
  PROVE  /\ UNCHANGED trafficFaults => trafficFaults' \in 0 .. MaxTrafficFaults
         /\ Traffic!Fault => trafficFaults' \in 0 .. MaxTrafficFaults
<1>1. trafficFaults \in 0 .. MaxTrafficFaults
  BY DEF Traffic!TypeOK
<1> QED BY <1>1, TrafficAssumption DEF Traffic!Fault

LEMMA TrafficInitTypes == Traffic!Init => Traffic!TypeOK
<1> SUFFICES ASSUME Traffic!Init PROVE Traffic!TypeOK
  OBVIOUS
<1>1. 0 \in 0 .. Limit /\ 0 \in 0 .. MaxCycles /\ 0 \in 0 .. MaxTrafficFaults
  BY TrafficAssumption
<1>2. Traffic!Unread \in Traffic!Readings
  BY <1>1 DEF Traffic!Unread, Traffic!Readings
<1> QED BY <1>1, <1>2 DEF Traffic!Init, Traffic!TypeOK, Traffic!Marks, Traffic!Steps

LEMMA TrafficTypes == Traffic!TypeOK /\ [Traffic!Next]_Traffic!vars => Traffic!TypeOK'
<1> SUFFICES ASSUME Traffic!TypeOK, [Traffic!Next]_Traffic!vars PROVE Traffic!TypeOK'
  OBVIOUS
<1>0. /\ mode \in {"notify", "recovery", "unlimited"}
      /\ used \in [Nodes -> 0 .. Limit] /\ enabled \in [Nodes -> BOOLEAN]
      /\ marks \subseteq Traffic!Marks /\ trafficCopy \subseteq Traffic!Marks
      /\ trafficPc \in Traffic!Steps /\ mark \in Traffic!Marks
      /\ seen \in [Nodes -> Traffic!Readings] /\ unread \subseteq Nodes
      /\ cycles \in 0 .. MaxCycles /\ trafficFaults \in 0 .. MaxTrafficFaults
  BY DEF Traffic!TypeOK
<1> USE DEF Traffic!panels, Traffic!pass, Traffic!Go, Traffic!At
<1>1. ASSUME NEW n \in Nodes, Traffic!Use(n) PROVE Traffic!TypeOK'
  <2>1. used' \in [Nodes -> 0 .. Limit]
    <3>1. used[n] + 1 \in 0 .. Limit
      BY <1>0, <1>1, TrafficAssumption DEF Traffic!Use
    <3> QED BY <1>0, <1>1, <3>1 DEF Traffic!Use
  <2> QED BY <1>0, <1>1, <2>1, Zenon DEF Traffic!Use, Traffic!TypeOK, Traffic!Readings
<1>2. ASSUME NEW n \in Nodes, Traffic!Exhaust(n) PROVE Traffic!TypeOK'
  <2>1. enabled' \in [Nodes -> BOOLEAN]
    BY <1>0, <1>2 DEF Traffic!Exhaust
  <2> QED BY <1>0, <1>2, <2>1, Zenon DEF Traffic!Exhaust, Traffic!TypeOK, Traffic!Readings
<1>3. CASE Traffic!ResetCounters
  <2>1. cycles' \in 0 .. MaxCycles /\ 0 \in 0 .. Limit
    BY <1>0, <1>3, TrafficAssumption DEF Traffic!ResetCounters
  <2>2. used' \in [Nodes -> 0 .. Limit]
    BY <1>3, <2>1 DEF Traffic!ResetCounters
  <2>3. enabled' \in [Nodes -> BOOLEAN]
    BY <1>0, <1>3 DEF Traffic!ResetCounters
  <2> QED BY <1>0, <1>3, <2>1, <2>2, <2>3, Zenon DEF Traffic!ResetCounters, Traffic!TypeOK, Traffic!Readings
<1>4. CASE Traffic!LoadTargets
  <2>1. seen' \in [Nodes -> Traffic!Readings]
    <3>1. Traffic!Unread \in Traffic!Readings
      BY TrafficAssumption DEF Traffic!Unread, Traffic!Readings
    <3> QED BY <1>4, <3>1 DEF Traffic!LoadTargets
  <2>2. unread' \subseteq Nodes /\ trafficPc' \in Traffic!Steps /\ trafficCopy' \subseteq Traffic!Marks
    BY <1>0, <1>4 DEF Traffic!LoadTargets, Traffic!Steps
  <2> QED BY <1>0, <1>4, <2>1, <2>2, Zenon DEF Traffic!LoadTargets, Traffic!TypeOK, Traffic!Readings
<1>5. ASSUME NEW n \in Nodes, Traffic!GetTraffic(n) PROVE Traffic!TypeOK'
  <2>1. seen' \in [Nodes -> Traffic!Readings]
    <3>1. [used |-> used[n], enabled |-> enabled[n], ok |-> TRUE] \in Traffic!Readings
      BY <1>0 DEF Traffic!Readings
    <3>2. \/ seen' = [seen EXCEPT ![n] = [used |-> used[n], enabled |-> enabled[n], ok |-> TRUE]]
          \/ seen' = seen
      BY <1>5, Zenon DEF Traffic!GetTraffic
    <3> QED BY <1>0, <3>1, <3>2
  <2>2. unread' \subseteq Nodes /\ trafficPc' \in Traffic!Steps
    BY <1>0, <1>5 DEF Traffic!GetTraffic, Traffic!Steps
  <2>3. trafficFaults' \in 0 .. MaxTrafficFaults
    BY <1>5, TrafficFault DEF Traffic!GetTraffic
  <2> QED BY <1>0, <1>5, <2>1, <2>2, <2>3, Zenon DEF Traffic!GetTraffic, Traffic!TypeOK, Traffic!Readings
<1>6. CASE Traffic!Decide
  <2>1. /\ seen' = seen /\ (unread' = unread \/ unread' = Nodes)
        /\ trafficPc' \in {"idle", "claim", "enable", "giveBack"}
        /\ mark' = mark \/ mark' \in {"ninety", "exhausted"}
    BY <1>6 DEF Traffic!Decide, Traffic!Send, Traffic!Rest
  <2>2. unread' \subseteq Nodes /\ trafficPc' \in Traffic!Steps /\ mark' \in Traffic!Marks
    BY <1>0, <2>1 DEF Traffic!Steps, Traffic!Marks
  <2> QED BY <1>0, <1>6, <2>1, <2>2, Zenon DEF Traffic!Decide, Traffic!TypeOK, Traffic!Readings
<1>7. ASSUME NEW n \in Nodes, Traffic!Reenable(n) PROVE Traffic!TypeOK'
  <2>1. enabled' \in [Nodes -> BOOLEAN] /\ unread' \subseteq Nodes
    BY <1>0, <1>7 DEF Traffic!Reenable
  <2>2. seen' \in [Nodes -> Traffic!Readings]
    <3>1. seen[n] \in Traffic!Readings
      BY <1>0
    <3>2. [seen[n] EXCEPT !.enabled = TRUE] \in Traffic!Readings
      BY <3>1 DEF Traffic!Readings
    <3>3. \/ seen' = [seen EXCEPT ![n] = [seen[n] EXCEPT !.enabled = TRUE]]
          \/ seen' = seen
      BY <1>0, <1>7 DEF Traffic!Reenable
    <3> QED BY <1>0, <3>2, <3>3
  <2>3. trafficFaults' \in 0 .. MaxTrafficFaults
    BY <1>7, TrafficFault DEF Traffic!Reenable
  <2> QED BY <1>0, <1>7, <2>1, <2>2, <2>3, Zenon DEF Traffic!Reenable, Traffic!TypeOK, Traffic!Readings
<1>8. CASE Traffic!Reenabled
  <2>1. trafficPc' \in Traffic!Steps
    BY <1>8 DEF Traffic!Reenabled, Traffic!Steps
  <2> QED BY <1>0, <1>8, <2>1, Zenon DEF Traffic!Reenabled, Traffic!TypeOK, Traffic!Readings
<1>9. CASE Traffic!Forget
  <2>1. marks' \subseteq Traffic!Marks /\ mark' \in Traffic!Marks /\ trafficPc' \in Traffic!Steps
    BY <1>0, <1>9 DEF Traffic!Forget, Traffic!Steps, Traffic!Marks
  <2>2. trafficFaults' \in 0 .. MaxTrafficFaults
    BY <1>9, TrafficFault DEF Traffic!Forget
  <2> QED BY <1>0, <1>9, <2>1, <2>2, Zenon DEF Traffic!Forget, Traffic!TypeOK, Traffic!Readings
<1>10. CASE Traffic!Claim
  <2>1. marks' \subseteq Traffic!Marks /\ trafficPc' \in Traffic!Steps
    BY <1>0, <1>10 DEF Traffic!Claim, Traffic!Steps
  <2>2. trafficFaults' \in 0 .. MaxTrafficFaults
    BY <1>10, TrafficFault DEF Traffic!Claim
  <2> QED BY <1>0, <1>10, <2>1, <2>2, Zenon DEF Traffic!Claim, Traffic!TypeOK, Traffic!Readings
<1>11. CASE Traffic!SendMessage
  <2>1. trafficPc' \in Traffic!Steps
    BY <1>11 DEF Traffic!SendMessage, Traffic!Steps
  <2>2. trafficFaults' \in 0 .. MaxTrafficFaults
    BY <1>11, TrafficFault DEF Traffic!SendMessage
  <2> QED BY <1>0, <1>11, <2>1, <2>2, Zenon DEF Traffic!SendMessage, Traffic!TypeOK, Traffic!Readings
<1>12. CASE Traffic!Release
  <2>1. marks' \subseteq Traffic!Marks /\ trafficPc' \in Traffic!Steps
    BY <1>0, <1>12 DEF Traffic!Release, Traffic!Steps
  <2>2. trafficFaults' \in 0 .. MaxTrafficFaults
    BY <1>12, TrafficFault DEF Traffic!Release
  <2> QED BY <1>0, <1>12, <2>1, <2>2, Zenon DEF Traffic!Release, Traffic!TypeOK, Traffic!Readings
<1>13. CASE UNCHANGED Traffic!vars
  BY <1>0, <1>13, Zenon DEF Traffic!vars, Traffic!TypeOK, Traffic!Readings
<1> QED BY <1>1, <1>2, <1>3, <1>4, <1>5, <1>6, <1>7, <1>8, <1>9, <1>10, <1>11, <1>12, <1>13
    DEF Traffic!Next, Traffic!Pass

LEMMA ProcessInitTypes ==
  Process!Init => Process!TypeOK /\ background <= launches + 1 /\ launches <= MaxLaunches
<1> SUFFICES ASSUME Process!Init
             PROVE  Process!TypeOK /\ background <= launches + 1 /\ launches <= MaxLaunches
  OBVIOUS
<1>1. 0 \in 0 .. MaxHandlers /\ 0 \in 0 .. MaxBackoff /\ 0 \in 0 .. MaxLaunches + 1
  BY ProcessAssumption
<1>2. cancelled \in BOOLEAN /\ held \in BOOLEAN
  BY Zenon DEF Process!Init
<1>3. background = 0 /\ launches = 0 /\ background \in Nat
  BY DEF Process!Init
<1>4. Process!TypeOK
  <2>1. /\ phase \in Process!Phases /\ handlers \in 0 .. MaxHandlers
        /\ worker \in [Workers -> {"none", "running", "crashed", "ended"}]
        /\ backoff \in [Workers -> 0 .. MaxBackoff]
        /\ background \in 0 .. MaxLaunches + 1 /\ web \in {"off", "serving", "ready"}
        /\ updates \in Nat /\ panics \in Nat /\ launches \in Nat
    BY <1>1 DEF Process!Init, Process!Phases
  <2> QED BY <1>2, <2>1, Zenon DEF Process!TypeOK
<1> QED BY <1>3, <1>4, ProcessAssumption

LEMMA ProcessTypes ==
  /\ Process!TypeOK /\ background <= launches + 1 /\ launches <= MaxLaunches
  /\ [Process!Next]_Process!vars
  => Process!TypeOK' /\ background' <= launches' + 1 /\ launches' <= MaxLaunches
<1> SUFFICES ASSUME Process!TypeOK, background <= launches + 1, launches <= MaxLaunches,
                    [Process!Next]_Process!vars
             PROVE  Process!TypeOK' /\ background' <= launches' + 1 /\ launches' <= MaxLaunches
  OBVIOUS
<1>0. /\ phase \in Process!Phases /\ cancelled \in BOOLEAN /\ held \in BOOLEAN
      /\ handlers \in 0 .. MaxHandlers
      /\ worker \in [Workers -> {"none", "running", "crashed", "ended"}]
      /\ backoff \in [Workers -> 0 .. MaxBackoff]
      /\ background \in 0 .. MaxLaunches + 1
      /\ web \in {"off", "serving", "ready"}
      /\ updates \in Nat /\ panics \in Nat /\ launches \in Nat
  BY DEF Process!TypeOK
<1> USE DEF Process!counts, Process!Exit
<1>1. CASE Process!Main
  <2>1. /\ phase' \in Process!Phases /\ web' \in {"off", "serving", "ready"}
        /\ background' \in 0 .. MaxLaunches + 1 /\ background' <= launches' + 1 /\ launches' = launches
    BY <1>0, <1>1, ProcessAssumption
    DEF Process!Main, Process!StartWebServer, Process!InitBot, Process!StartWorkers, Process!LeaveLoop,
        Process!AwaitHandlers, Process!AwaitWorkers, Process!AwaitBackground, Process!Close, Process!Phases
  <2>2. /\ cancelled' = cancelled /\ (held' = held \/ held' = FALSE)
        /\ handlers' = handlers /\ backoff' = backoff /\ updates' = updates /\ panics' = panics
        /\ worker' = worker \/ worker' = [w \in Workers |-> "running"]
    BY <1>1
    DEF Process!Main, Process!StartWebServer, Process!InitBot, Process!StartWorkers, Process!LeaveLoop,
        Process!AwaitHandlers, Process!AwaitWorkers, Process!AwaitBackground, Process!Close
  <2>3. worker' \in [Workers -> {"none", "running", "crashed", "ended"}]
    BY <1>0, <2>2
  <2>4. held' \in BOOLEAN
    <3>1. CASE held' = held
      BY <1>0, <3>1, Zenon
    <3>2. CASE held' = FALSE
      BY <3>2, Zenon
    <3> QED BY <2>2, <3>1, <3>2, Zenon
  <2>5. Process!TypeOK'
    BY <1>0, <2>1, <2>2, <2>3, <2>4, Zenon DEF Process!TypeOK, Process!Phases
  <2> QED BY <2>1, <2>5
<1>2. CASE Process!TakeUpdate
  <2>1. updates' \in Nat /\ held' = TRUE /\ UNCHANGED <<background, launches>>
    BY <1>0, <1>2 DEF Process!TakeUpdate
  <2>2. Process!TypeOK'
    BY <1>0, <1>2, <2>1, Zenon DEF Process!TakeUpdate, Process!TypeOK, Process!Phases
  <2> QED BY <2>1, <2>2
<1>3. CASE Process!Dispatch
  <2>1. handlers' \in 0 .. MaxHandlers /\ held' = FALSE /\ UNCHANGED <<background, launches>>
    BY <1>0, <1>3, ProcessAssumption DEF Process!Dispatch
  <2>2. Process!TypeOK'
    BY <1>0, <1>3, <2>1, Zenon DEF Process!Dispatch, Process!TypeOK, Process!Phases
  <2> QED BY <2>1, <2>2
<1>4. CASE Process!HandlerEnds
  <2>1. handlers' \in 0 .. MaxHandlers /\ UNCHANGED <<background, launches>>
    BY <1>0, <1>4, ProcessAssumption DEF Process!HandlerEnds
  <2>2. Process!TypeOK'
    BY <1>0, <1>4, <2>1, Zenon DEF Process!HandlerEnds, Process!TypeOK, Process!Phases
  <2> QED BY <2>1, <2>2
<1>5. CASE Process!HandlerLaunches
  <2>1. /\ launches' \in Nat /\ background' \in 0 .. MaxLaunches + 1
        /\ background' <= launches' + 1 /\ launches' <= MaxLaunches
    BY <1>0, <1>5, ProcessAssumption DEF Process!HandlerLaunches
  <2>2. Process!TypeOK'
    BY <1>0, <1>5, <2>1, Zenon DEF Process!HandlerLaunches, Process!TypeOK, Process!Phases
  <2> QED BY <2>1, <2>2
<1>6. CASE Process!Signal
  <2>1. cancelled' = TRUE /\ UNCHANGED <<background, launches>>
    BY <1>6 DEF Process!Signal
  <2>2. Process!TypeOK'
    BY <1>0, <1>6, <2>1, Zenon DEF Process!Signal, Process!TypeOK, Process!Phases
  <2> QED BY <2>1, <2>2
<1>7. CASE Process!BackgroundEnds
  <2>1. background' \in 0 .. MaxLaunches + 1 /\ background' <= launches' + 1 /\ launches' = launches
    BY <1>0, <1>7, ProcessAssumption DEF Process!BackgroundEnds
  <2>2. Process!TypeOK'
    BY <1>0, <1>7, <2>1, Zenon DEF Process!BackgroundEnds, Process!TypeOK, Process!Phases
  <2> QED BY <2>1, <2>2
<1>8. ASSUME NEW w \in Workers, Process!Panic(w) \/ Process!Restart(w) \/ Process!WorkerEnds(w)
      PROVE  Process!TypeOK' /\ background' <= launches' + 1 /\ launches' <= MaxLaunches
  <2>1. worker' \in [Workers -> {"none", "running", "crashed", "ended"}]
    BY <1>0, <1>8 DEF Process!Panic, Process!Restart, Process!WorkerEnds
  <2>2. backoff' \in [Workers -> 0 .. MaxBackoff]
    <3>1. backoff[w] \in 0 .. MaxBackoff /\ 0 \in 0 .. MaxBackoff
      BY <1>0, ProcessAssumption
    <3>2. backoff[w] # MaxBackoff => backoff[w] + 1 \in 0 .. MaxBackoff
      BY <3>1, ProcessAssumption
    <3>3. \/ backoff' = backoff
          \/ \E long \in BOOLEAN : backoff' = [backoff EXCEPT ![w] = IF long THEN 0 ELSE backoff[w]]
          \/ backoff' = [backoff EXCEPT ![w] = IF backoff[w] = MaxBackoff THEN backoff[w] ELSE backoff[w] + 1]
      BY <1>0, <1>8 DEF Process!Panic, Process!Restart, Process!WorkerEnds
    <3> QED BY <1>0, <3>1, <3>2, <3>3
  <2>3. /\ phase' = phase /\ cancelled' = cancelled /\ held' = held /\ handlers' = handlers
        /\ background' = background /\ web' = web /\ updates' = updates /\ launches' = launches
        /\ panics' \in Nat
    BY <1>0, <1>8 DEF Process!Panic, Process!Restart, Process!WorkerEnds
  <2>4. Process!TypeOK'
    BY <1>0, <2>1, <2>2, <2>3, Zenon DEF Process!TypeOK, Process!Phases
  <2> QED BY <2>3, <2>4
<1>9. CASE UNCHANGED Process!vars
  <2>1. Process!TypeOK'
    BY <1>0, <1>9, Zenon DEF Process!vars, Process!TypeOK, Process!Phases
  <2> QED BY <1>9, <2>1 DEF Process!vars
<1> QED BY <1>1, <1>2, <1>3, <1>4, <1>5, <1>6, <1>7, <1>8, <1>9
    DEF Process!Next, Process!Loop, Process!Handle

LEMMA SubscriptionRows ==
  /\ \A status \in Subscriptions!Statuses \cup {"none"} : Subscriptions!Fresh(status) \in Subscriptions!Rows
  /\ Subscriptions!NoRow \in Subscriptions!Rows
  /\ Subscriptions!NoCopy \in Subscriptions!Subs
  /\ \A plan \in Subscriptions!Plans : PlanNodes[plan] \subseteq Nodes
<1>1. ASSUME NEW status \in Subscriptions!Statuses \cup {"none"}
      PROVE  Subscriptions!Fresh(status) \in Subscriptions!Rows
  BY SubscriptionAssumption DEF Subscriptions!Fresh, Subscriptions!Rows
<1> QED BY <1>1, SubscriptionAssumption
    DEF Subscriptions!NoRow, Subscriptions!NoCopy, Subscriptions!Subs, Subscriptions!Plans

LEMMA SubscriptionReconciled ==
  ASSUME NEW rows \in [Nodes -> Subscriptions!Rows], NEW targets
  PROVE  /\ Subscriptions!Reconcile(rows, targets) \in [Nodes -> Subscriptions!Rows]
         /\ Subscriptions!MarkActive(rows, targets) \in [Nodes -> Subscriptions!Rows]
         /\ Subscriptions!ApplyPlan(rows, targets) \in [Nodes -> Subscriptions!Rows]
<1>1. \A other \in [Nodes -> Subscriptions!Rows] :
        Subscriptions!Reconcile(other, targets) \in [Nodes -> Subscriptions!Rows]
  <2> SUFFICES ASSUME NEW other \in [Nodes -> Subscriptions!Rows], NEW n \in Nodes
               PROVE  Subscriptions!ReconcileNode(n, targets, other[n], other[n]) \in Subscriptions!Rows
    BY DEF Subscriptions!Reconcile
  <2> QED BY SubscriptionRows
      DEF Subscriptions!ReconcileNode, Subscriptions!UpsertPendingAdd, Subscriptions!SetStatus,
          Subscriptions!Statuses, Subscriptions!Pending
<1>2. Subscriptions!MarkActive(rows, targets) \in [Nodes -> Subscriptions!Rows]
  BY SubscriptionRows DEF Subscriptions!MarkActive, Subscriptions!Statuses, Subscriptions!Pending
<1> QED BY <1>1, <1>2 DEF Subscriptions!ApplyPlan

LEMMA SubscriptionPasses ==
  ASSUME bind \in [Nodes -> Subscriptions!Rows], NEW rows \in Subscriptions!Passes
  PROVE  rows \in [Nodes -> Subscriptions!Rows]
<1>1. ASSUME NEW r \in Subscriptions!Rows
      PROVE  Subscriptions!Requeued(r) \in Subscriptions!Rows
  BY SubscriptionRows DEF Subscriptions!Requeued, Subscriptions!Statuses, Subscriptions!Pending
<1>2. ASSUME NEW r \in Subscriptions!Rows
      PROVE  [r EXCEPT !.at = "parked"] \in Subscriptions!Rows
  BY DEF Subscriptions!Rows
<1>3. Subscriptions!Fresh("active") \in Subscriptions!Rows
  BY SubscriptionRows DEF Subscriptions!Statuses
<1>4. ASSUME NEW r \in Subscriptions!Rows
      PROVE  Subscriptions!Outcomes(r) \subseteq Subscriptions!Rows
  BY <1>1, <1>2, <1>3, SubscriptionRows DEF Subscriptions!Outcomes
<1> QED BY <1>4 DEF Subscriptions!Passes

LEMMA SubscriptionInitTypes == Subscriptions!Init => Subscriptions!TypeOK
<1> SUFFICES ASSUME Subscriptions!Init PROVE Subscriptions!TypeOK
  OBVIOUS
<1>1. row \in Subscriptions!Subs
  BY SubscriptionRows DEF Subscriptions!Init, Subscriptions!Subs, Subscriptions!Plans
<1>2. bind \in [Nodes -> Subscriptions!Rows]
  BY SubscriptionRows DEF Subscriptions!Init, Subscriptions!NoBindings, Subscriptions!Statuses, Subscriptions!Pending
<1> QED BY <1>1, <1>2, SubscriptionRows DEF Subscriptions!Init, Subscriptions!TypeOK, Subscriptions!Places

(* Where a goroutine goes on, its copy and its nodes have their types.       *)
LEMMA SubscriptionGo ==
  ASSUME Subscriptions!TypeOK, NEW g \in Subscriptions!Goroutines, NEW place \in Subscriptions!Places,
         NEW sub \in Subscriptions!Subs, NEW missing \in SUBSET Nodes,
         Subscriptions!Go(g, place, sub, missing)
  PROVE  /\ at' \in [Subscriptions!Goroutines -> Subscriptions!Places]
         /\ copy' \in [Subscriptions!Goroutines -> Subscriptions!Subs]
         /\ todo' \in [Subscriptions!Goroutines -> SUBSET Nodes]
BY SubscriptionRows DEF Subscriptions!Go, Subscriptions!TypeOK

LEMMA SubscriptionMove ==
  ASSUME Subscriptions!TypeOK, NEW g \in Subscriptions!Goroutines, NEW place \in Subscriptions!Places,
         Subscriptions!Move(g, place)
  PROVE  /\ at' \in [Subscriptions!Goroutines -> Subscriptions!Places]
         /\ copy' \in [Subscriptions!Goroutines -> Subscriptions!Subs]
         /\ todo' \in [Subscriptions!Goroutines -> SUBSET Nodes]
<1>1. copy[g] \in Subscriptions!Subs /\ {} \in SUBSET Nodes
  BY DEF Subscriptions!TypeOK
<1> QED BY <1>1, SubscriptionGo DEF Subscriptions!Move

LEMMA SubscriptionSave ==
  ASSUME Subscriptions!TypeOK, NEW g \in Subscriptions!Goroutines, NEW place \in Subscriptions!Places,
         NEW sub \in Subscriptions!Subs, Subscriptions!Save(g, sub, place)
  PROVE  /\ row' \in Subscriptions!Subs
         /\ at' \in [Subscriptions!Goroutines -> Subscriptions!Places]
         /\ copy' \in [Subscriptions!Goroutines -> Subscriptions!Subs]
         /\ todo' \in [Subscriptions!Goroutines -> SUBSET Nodes]
<1>1. CASE Subscriptions!Current(g)
  <2>1. row' = sub /\ Subscriptions!Go(g, place, sub, {}) /\ {} \in SUBSET Nodes
    BY <1>1 DEF Subscriptions!Save
  <2> QED BY <2>1, SubscriptionGo
<1>2. CASE ~Subscriptions!Current(g)
  <2>1. row' = row /\ Subscriptions!Move(g, "idle") /\ "idle" \in Subscriptions!Places
    BY <1>2 DEF Subscriptions!Save, Subscriptions!Places
  <2> QED BY <2>1, SubscriptionMove DEF Subscriptions!TypeOK
<1> QED BY <1>1, <1>2

LEMMA SubscriptionTypes ==
  Subscriptions!TypeOK /\ [Subscriptions!Next]_Subscriptions!vars => Subscriptions!TypeOK'
<1> SUFFICES ASSUME Subscriptions!TypeOK, [Subscriptions!Next]_Subscriptions!vars
             PROVE  Subscriptions!TypeOK'
  OBVIOUS
<1> DEFINE Places == at' \in [Subscriptions!Goroutines -> Subscriptions!Places]
           Copies == copy' \in [Subscriptions!Goroutines -> Subscriptions!Subs]
           Todo == todo' \in [Subscriptions!Goroutines -> SUBSET Nodes]
<1>0. /\ row \in Subscriptions!Subs /\ bind \in [Nodes -> Subscriptions!Rows]
      /\ at \in [Subscriptions!Goroutines -> Subscriptions!Places]
      /\ copy \in [Subscriptions!Goroutines -> Subscriptions!Subs]
      /\ todo \in [Subscriptions!Goroutines -> SUBSET Nodes]
      /\ flows \in Nat /\ subFaults \in Nat
      /\ flows + 1 \in Nat /\ subFaults + 1 \in Nat
      /\ {} \in SUBSET Nodes
      /\ "admin" \in Subscriptions!Goroutines /\ "reconciler" \in Subscriptions!Goroutines
      /\ Creators \subseteq Subscriptions!Goroutines
  BY DEF Subscriptions!TypeOK, Subscriptions!Goroutines
<1>a. \A place \in {"idle", "lookup", "any", "insert", "wipe", "write", "ensure", "upsert", "sync",
           "check", "orphan", "revoke", "mark", "syncRemoval", "verify", "deleteRows",
           "deleteSub", "setPlan", "applyPlan"} : place \in Subscriptions!Places
  BY DEF Subscriptions!Places
<1>b. ASSUME row' \in Subscriptions!Subs, bind' \in [Nodes -> Subscriptions!Rows], Places, Copies, Todo,
             flows' \in Nat, subFaults' \in Nat
      PROVE  Subscriptions!TypeOK'
  BY <1>b DEF Subscriptions!TypeOK, Subscriptions!Subs, Subscriptions!Rows, Subscriptions!Statuses,
     Subscriptions!Pending, Subscriptions!Goroutines, Subscriptions!Places, Subscriptions!Plans
<1>c. ASSUME NEW g \in Subscriptions!Goroutines, NEW place \in Subscriptions!Places,
             Subscriptions!Move(g, place)
      PROVE  Places /\ Copies /\ Todo
  BY <1>c, SubscriptionMove
<1>d. ASSUME NEW g \in Subscriptions!Goroutines, NEW place \in Subscriptions!Places,
             NEW sub \in Subscriptions!Subs, NEW missing \in SUBSET Nodes,
             Subscriptions!Go(g, place, sub, missing)
      PROVE  Places /\ Copies /\ Todo
  BY <1>d, SubscriptionGo
<1>e. ASSUME NEW g \in Subscriptions!Goroutines, NEW place \in Subscriptions!Places,
             NEW sub \in Subscriptions!Subs, Subscriptions!Save(g, sub, place)
      PROVE  row' \in Subscriptions!Subs /\ Places /\ Copies /\ Todo
  BY <1>e, SubscriptionSave
<1>f. Subscriptions!NoBindings \in [Nodes -> Subscriptions!Rows]
  BY SubscriptionRows DEF Subscriptions!NoBindings
<1>g. \A g \in Subscriptions!Goroutines :
        /\ copy[g] \in Subscriptions!Subs /\ todo[g] \in SUBSET Nodes
        /\ \A st \in {"active", "revoked"} : [copy[g] EXCEPT !.status = st] \in Subscriptions!Subs
        /\ \A st \in {"active", "revoked"}, pl \in Subscriptions!Plans :
             [copy[g] EXCEPT !.status = st, !.plan = pl] \in Subscriptions!Subs
        /\ copy[g].plan \in Subscriptions!Plans
  BY <1>0 DEF Subscriptions!Subs
<1> HIDE DEF Places, Copies, Todo
<1> USE DEF Subscriptions!Tally
<1>1. ASSUME NEW g \in Subscriptions!Goroutines, Subscriptions!Create(g) PROVE Subscriptions!TypeOK'
  <2>1. CASE Subscriptions!Ask(g)
    BY <1>0, <1>a, <1>b, <1>c, <2>1 DEF Subscriptions!Ask
  <2>2. CASE Subscriptions!GetByTelegramID(g)
    <3>1. Places /\ Copies /\ Todo
      BY <1>0, <1>a, <1>c, <1>d, <2>2 DEF Subscriptions!GetByTelegramID
    <3> QED BY <1>0, <1>b, <2>2, <3>1 DEF Subscriptions!GetByTelegramID
  <2>3. CASE Subscriptions!GetAnyByTelegramID(g)
    <3>1. Places /\ Copies /\ Todo
      BY <1>0, <1>a, <1>c, <1>d, <2>3 DEF Subscriptions!GetAnyByTelegramID
    <3> QED BY <1>0, <1>b, <2>3, <3>1 DEF Subscriptions!GetAnyByTelegramID
  <2>4. CASE Subscriptions!CreateSubscription(g)
    <3>1. CASE Subscriptions!Exists
      <4>1. Places /\ Copies /\ Todo
        BY <1>0, <1>a, <1>c, <2>4, <3>1 DEF Subscriptions!CreateSubscription
      <4> QED BY <1>0, <1>b, <2>4, <3>1, <4>1 DEF Subscriptions!CreateSubscription
    <3>2. CASE ~Subscriptions!Exists
      <4>1. row' = [id |-> row.id + 1, status |-> "active", plan |-> Free]
        BY <2>4, <3>2 DEF Subscriptions!CreateSubscription
      <4>2. row' \in Subscriptions!Subs
        BY <1>0, <4>1 DEF Subscriptions!Subs, Subscriptions!Plans
      <4>3. Places /\ Copies /\ Todo
        BY <1>0, <1>a, <1>d, <2>4, <3>2, <4>2 DEF Subscriptions!CreateSubscription
      <4> QED BY <1>0, <1>b, <2>4, <4>2, <4>3 DEF Subscriptions!CreateSubscription
    <3> QED BY <3>1, <3>2
  <2>5. CASE Subscriptions!WipeBindings(g)
    <3>1. Places /\ Copies /\ Todo
      BY <1>a, <1>c, <2>5 DEF Subscriptions!WipeBindings
    <3>2. bind' \in [Nodes -> Subscriptions!Rows]
      BY <1>0, <1>f, <2>5 DEF Subscriptions!WipeBindings
    <3> QED BY <1>0, <1>b, <2>5, <3>1, <3>2 DEF Subscriptions!WipeBindings
  <2>6. CASE Subscriptions!Reanimate(g)
    <3>1. Subscriptions!Save(g, [copy[g] EXCEPT !.status = "active", !.plan = Free], "ensure")
      BY <2>6 DEF Subscriptions!Reanimate
    <3>2. [copy[g] EXCEPT !.status = "active", !.plan = Free] \in Subscriptions!Subs
      BY <1>g DEF Subscriptions!Plans
    <3>3. row' \in Subscriptions!Subs /\ Places /\ Copies /\ Todo
      BY <1>a, <1>e, <3>1, <3>2
    <3> QED BY <1>0, <1>b, <2>6, <3>3 DEF Subscriptions!Reanimate
  <2> QED BY <1>1, <2>1, <2>2, <2>3, <2>4, <2>5, <2>6 DEF Subscriptions!Create
<1>2. ASSUME NEW g \in Subscriptions!Goroutines, Subscriptions!SyncSubscription(g)
      PROVE  Subscriptions!TypeOK'
  <2>1. Places /\ Copies /\ Todo
    BY <1>a, <1>c, <1>2 DEF Subscriptions!SyncSubscription
  <2>2. bind' \in [Nodes -> Subscriptions!Rows]
    BY <1>0, <1>2, SubscriptionPasses DEF Subscriptions!SyncSubscription
  <2> QED BY <1>0, <1>b, <1>2, <2>1, <2>2 DEF Subscriptions!SyncSubscription
<1>3. ASSUME NEW g \in Subscriptions!Goroutines, Subscriptions!Ensure(g) PROVE Subscriptions!TypeOK'
  <2>1. CASE Subscriptions!LoadMissing(g)
    <3> DEFINE have == {n \in Nodes : Subscriptions!Current(g) /\ bind[n].st # "none"}
               missing == PlanNodes[copy[g].plan] \ have
    <3>1. Subscriptions!Go(g, IF missing = {} THEN "idle" ELSE "upsert", copy[g], missing)
      BY <2>1 DEF Subscriptions!LoadMissing
    <3>2. missing \in SUBSET Nodes /\ copy[g] \in Subscriptions!Subs
      BY <1>g, SubscriptionRows
    <3>3. Places /\ Copies /\ Todo
      BY <1>a, <1>d, <3>1, <3>2
    <3> QED BY <1>0, <1>b, <2>1, <3>3 DEF Subscriptions!LoadMissing
  <2>2. ASSUME NEW n \in Nodes, Subscriptions!UpsertNode(g, n) PROVE Subscriptions!TypeOK'
    <3>1. todo[g] \ {n} \in SUBSET Nodes /\ copy[g] \in Subscriptions!Subs
      BY <1>g
    <3>2. Places /\ Copies /\ Todo
      BY <1>a, <1>c, <1>d, <2>2, <3>1 DEF Subscriptions!UpsertNode
    <3>3. bind' \in [Nodes -> Subscriptions!Rows]
      <4>1. Subscriptions!Fresh("pending_add") \in Subscriptions!Rows
        BY SubscriptionRows DEF Subscriptions!Statuses, Subscriptions!Pending
      <4>2. bind' = bind \/ bind' = [bind EXCEPT ![n] = Subscriptions!Fresh("pending_add")]
        BY <2>2 DEF Subscriptions!UpsertNode, Subscriptions!UpsertPendingAdd
      <4> QED BY <1>0, <4>1, <4>2
    <3> QED BY <1>0, <1>b, <2>2, <3>2, <3>3 DEF Subscriptions!UpsertNode
  <2> QED BY <1>2, <1>3, <2>1, <2>2 DEF Subscriptions!Ensure
<1>4. CASE Subscriptions!Administer
  <2>1. CASE Subscriptions!LoadByID
    <3>1. Places /\ Copies /\ Todo
      BY <1>0, <1>a, <1>d, <2>1 DEF Subscriptions!LoadByID
    <3> QED BY <1>0, <1>b, <2>1, <3>1 DEF Subscriptions!LoadByID
  <2>2. CASE Subscriptions!MarkRevoked
    <3>1. Subscriptions!Save("admin", [copy["admin"] EXCEPT !.status = "revoked"], "mark")
      BY <2>2 DEF Subscriptions!MarkRevoked
    <3>2. [copy["admin"] EXCEPT !.status = "revoked"] \in Subscriptions!Subs
      BY <1>0, <1>g
    <3>3. row' \in Subscriptions!Subs /\ Places /\ Copies /\ Todo
      BY <1>0, <1>a, <1>e, <3>1, <3>2
    <3> QED BY <1>0, <1>b, <2>2, <3>3 DEF Subscriptions!MarkRevoked
  <2>3. CASE Subscriptions!QueueForDeprovision
    <3>1. Places /\ Copies /\ Todo
      BY <1>0, <1>a, <1>c, <2>3 DEF Subscriptions!QueueForDeprovision
    <3>2. bind' \in [Nodes -> Subscriptions!Rows]
      <4>1. ASSUME NEW n \in Nodes
            PROVE  Subscriptions!SetStatus(bind[n], "pending_remove") \in Subscriptions!Rows
        BY <1>0, SubscriptionRows DEF Subscriptions!SetStatus, Subscriptions!Statuses, Subscriptions!Pending
      <4> QED BY <1>0, <2>3, <4>1 DEF Subscriptions!QueueForDeprovision
    <3> QED BY <1>0, <1>b, <2>3, <3>1, <3>2 DEF Subscriptions!QueueForDeprovision
  <2>4. CASE Subscriptions!VerifyNoBindings
    <3>1. Places /\ Copies /\ Todo
      BY <1>0, <1>a, <1>c, <2>4 DEF Subscriptions!VerifyNoBindings
    <3> QED BY <1>0, <1>b, <2>4, <3>1 DEF Subscriptions!VerifyNoBindings
  <2>5. CASE Subscriptions!DeleteBindings
    <3>1. Places /\ Copies /\ Todo
      BY <1>0, <1>a, <1>c, <2>5 DEF Subscriptions!DeleteBindings
    <3>2. bind' \in [Nodes -> Subscriptions!Rows]
      BY <1>0, <1>f, <2>5 DEF Subscriptions!DeleteBindings
    <3> QED BY <1>0, <1>b, <2>5, <3>1, <3>2 DEF Subscriptions!DeleteBindings
  <2>6. CASE Subscriptions!DeleteSubscription
    <3>1. Places /\ Copies /\ Todo
      BY <1>0, <1>a, <1>c, <2>6 DEF Subscriptions!DeleteSubscription
    <3>2. row' \in Subscriptions!Subs
      BY <1>0, <2>6 DEF Subscriptions!DeleteSubscription, Subscriptions!Subs
    <3> QED BY <1>0, <1>b, <2>6, <3>1, <3>2 DEF Subscriptions!DeleteSubscription
  <2>7. CASE Subscriptions!SetPlan
    <3>1. PICK plan \in Subscriptions!Plans :
            Subscriptions!Save("admin", [copy["admin"] EXCEPT !.status = "active", !.plan = plan], "applyPlan")
      BY <2>7 DEF Subscriptions!SetPlan
    <3>2. [copy["admin"] EXCEPT !.status = "active", !.plan = plan] \in Subscriptions!Subs
      BY <1>0, <1>g
    <3>3. row' \in Subscriptions!Subs /\ Places /\ Copies /\ Todo
      BY <1>0, <1>a, <1>e, <3>1, <3>2
    <3> QED BY <1>0, <1>b, <2>7, <3>3 DEF Subscriptions!SetPlan
  <2>8. CASE Subscriptions!ApplyPlanToSubscription
    <3>1. Places /\ Copies /\ Todo
      BY <1>0, <1>a, <1>c, <2>8 DEF Subscriptions!ApplyPlanToSubscription
    <3>2. bind' \in [Nodes -> Subscriptions!Rows]
      BY <1>0, <2>8, SubscriptionReconciled DEF Subscriptions!ApplyPlanToSubscription
    <3> QED BY <1>0, <1>b, <2>8, <3>1, <3>2 DEF Subscriptions!ApplyPlanToSubscription
  <2> QED BY <1>4, <2>1, <2>2, <2>3, <2>4, <2>5, <2>6, <2>7, <2>8 DEF Subscriptions!Administer
<1>5. CASE Subscriptions!ConfirmOrderPaid
  <2>1. Places /\ Copies /\ Todo
    BY <1>0, <1>5 DEF Subscriptions!ConfirmOrderPaid, Subscriptions!Local, Places, Copies, Todo
  <2>2. row' \in Subscriptions!Subs
    BY <1>0, <1>5 DEF Subscriptions!ConfirmOrderPaid, Subscriptions!Subs, Subscriptions!Plans
  <2>3. bind' \in [Nodes -> Subscriptions!Rows]
    BY <1>0, <1>5, SubscriptionReconciled DEF Subscriptions!ConfirmOrderPaid
  <2> QED BY <1>0, <1>b, <1>5, <2>1, <2>2, <2>3 DEF Subscriptions!ConfirmOrderPaid
<1>6. CASE Subscriptions!ExpireSubscription
  <2>1. Places /\ Copies /\ Todo
    BY <1>0, <1>6 DEF Subscriptions!ExpireSubscription, Subscriptions!Local, Places, Copies, Todo
  <2>2. row' \in Subscriptions!Subs
    BY <1>0, <1>6 DEF Subscriptions!ExpireSubscription, Subscriptions!Subs, Subscriptions!Plans
  <2>3. bind' \in [Nodes -> Subscriptions!Rows]
    BY <1>0, <1>6, SubscriptionReconciled DEF Subscriptions!ExpireSubscription
  <2> QED BY <1>0, <1>b, <1>6, <2>1, <2>2, <2>3 DEF Subscriptions!ExpireSubscription
<1>7. CASE Subscriptions!LoadActive
  <2>1. Places /\ Copies /\ Todo
    BY <1>0, <1>a, <1>d, <1>7 DEF Subscriptions!LoadActive
  <2> QED BY <1>0, <1>b, <1>7, <2>1 DEF Subscriptions!LoadActive
<1>8. CASE Subscriptions!CheckBindings
  <2>1. Places /\ Copies /\ Todo
    BY <1>0, <1>a, <1>c, <1>8 DEF Subscriptions!CheckBindings
  <2> QED BY <1>0, <1>b, <1>8, <2>1 DEF Subscriptions!CheckBindings
<1>9. CASE Subscriptions!RevokeOrphan
  <2>1. Subscriptions!Save("reconciler", [copy["reconciler"] EXCEPT !.status = "revoked"], "idle")
    BY <1>9 DEF Subscriptions!RevokeOrphan
  <2>2. [copy["reconciler"] EXCEPT !.status = "revoked"] \in Subscriptions!Subs
    BY <1>0, <1>g
  <2>3. row' \in Subscriptions!Subs /\ Places /\ Copies /\ Todo
    BY <1>0, <1>a, <1>e, <2>1, <2>2
  <2> QED BY <1>0, <1>b, <1>9, <2>3 DEF Subscriptions!RevokeOrphan
<1>10. CASE Subscriptions!SyncPendingNodes
  <2>1. Places /\ Copies /\ Todo
    BY <1>0, <1>10 DEF Subscriptions!SyncPendingNodes, Subscriptions!Local, Places, Copies, Todo
  <2>2. bind' \in [Nodes -> Subscriptions!Rows]
    <3>1. PICK rows \in Subscriptions!Passes :
            bind' = IF row.status = "active" THEN Subscriptions!Reconcile(rows, PlanNodes[row.plan])
                                             ELSE rows
      BY <1>10 DEF Subscriptions!SyncPendingNodes
    <3>2. rows \in [Nodes -> Subscriptions!Rows]
      BY <1>0, SubscriptionPasses
    <3> QED BY <3>1, <3>2, SubscriptionReconciled
  <2>3. row' = row /\ flows' = flows /\ subFaults' \in Nat
    BY <1>0, <1>10 DEF Subscriptions!SyncPendingNodes
  <2> QED BY <1>0, <1>b, <2>1, <2>2, <2>3
<1>11. ASSUME NEW n \in Nodes, Subscriptions!ReleaseRecovered(n) PROVE Subscriptions!TypeOK'
  <2>1. Places /\ Copies /\ Todo
    BY <1>0, <1>11 DEF Subscriptions!ReleaseRecovered, Subscriptions!Local, Places, Copies, Todo
  <2>2. bind' \in [Nodes -> Subscriptions!Rows]
    <3>1. bind[n].st \in Subscriptions!Statuses \cup {"none"}
      BY <1>0 DEF Subscriptions!Rows
    <3>2. Subscriptions!Fresh(bind[n].st) \in Subscriptions!Rows
      BY <3>1, SubscriptionRows
    <3> QED BY <1>0, <1>11, <3>2 DEF Subscriptions!ReleaseRecovered
  <2> QED BY <1>0, <1>b, <1>11, <2>1, <2>2 DEF Subscriptions!ReleaseRecovered
<1>12. ASSUME NEW who, Subscriptions!Fault(who) PROVE Subscriptions!TypeOK'
  <2>1. Places
    BY <1>0, <1>a, <1>12 DEF Subscriptions!Fault, Places
  <2>2. Copies
    BY <1>0, <1>12, SubscriptionRows DEF Subscriptions!Fault, Copies
  <2>3. Todo
    BY <1>0, <1>12 DEF Subscriptions!Fault, Todo
  <2> QED BY <1>0, <1>b, <1>12, <2>1, <2>2, <2>3 DEF Subscriptions!Fault
<1>13. CASE UNCHANGED Subscriptions!vars
  BY <1>0, <1>b, <1>13 DEF Subscriptions!vars, Places, Copies, Todo
<1> QED BY <1>0, <1>1, <1>2, <1>3, <1>4, <1>5, <1>6, <1>7, <1>8, <1>9, <1>10, <1>11, <1>12, <1>13
    DEF Subscriptions!Next, Subscriptions!ReconcileOrphans
--------------------------------------------------------------------------------
(* What a pass does with the record of an exhausted quota.                   *)
TrafficRecord ==
  /\ trafficPc \in {"enable", "forget"} => "exhausted" \in trafficCopy
  /\ trafficPc = "forget" => Traffic!AnyEnabled
  /\ trafficPc \in {"read", "decide", "enable", "forget"} => trafficCopy \subseteq marks
  /\ trafficPc = "claim" /\ mark # "reset" => trafficCopy \subseteq marks
  /\ trafficPc \in {"send", "giveBack"} /\ mark = "exhausted" => "exhausted" \notin trafficCopy

TrafficForgets ==
  "exhausted" \in trafficCopy /\ "exhausted" \in marks /\ "exhausted" \notin marks'
    => trafficPc = "forget" /\ Traffic!AnyEnabled

(* The panels move by themselves, and the pass looks at its readings alone.  *)
LEMMA TrafficRecordAside ==
  ASSUME TrafficRecord,
         UNCHANGED <<trafficPc, trafficCopy, marks, mark, seen>>
  PROVE  TrafficRecord' /\ TrafficForgets
BY DEF TrafficRecord, TrafficForgets, Traffic!AnyEnabled, Traffic!Snapshots

LEMMA TrafficRecordSteps ==
  ASSUME TrafficRecord, [Traffic!Next]_Traffic!vars
  PROVE  TrafficRecord' /\ TrafficForgets
<1> USE DEF Traffic!panels, Traffic!pass, Traffic!Go, Traffic!At
<1>1. CASE \/ Traffic!ResetCounters \/ UNCHANGED Traffic!vars
           \/ \E n \in Nodes : Traffic!Use(n) \/ Traffic!Exhaust(n)
  <2>1. UNCHANGED <<trafficPc, trafficCopy, marks, mark, seen>>
    BY <1>1 DEF Traffic!ResetCounters, Traffic!Use, Traffic!Exhaust, Traffic!vars
  <2> QED BY <2>1, TrafficRecordAside
<1>2. CASE Traffic!LoadTargets
  BY <1>2 DEF Traffic!LoadTargets, TrafficRecord, TrafficForgets
<1>3. ASSUME NEW n \in Nodes, Traffic!GetTraffic(n) PROVE TrafficRecord' /\ TrafficForgets
  <2>1. /\ trafficPc = "read" /\ trafficPc' \in {"read", "decide"}
        /\ UNCHANGED <<trafficCopy, marks, mark>>
    BY <1>3 DEF Traffic!GetTraffic
  <2> QED BY <2>1 DEF TrafficRecord, TrafficForgets
<1>4. CASE Traffic!Decide
  <2>1. trafficPc = "decide" /\ UNCHANGED <<trafficCopy, marks>>
    BY <1>4 DEF Traffic!Decide
  <2>2. \/ trafficPc' = "idle"
        \/ trafficPc' = "claim" /\ mark' \in {"ninety", "exhausted"}
        \/ trafficPc' = "enable" /\ "exhausted" \in trafficCopy
        \/ trafficPc' = "giveBack" /\ mark' = "ninety"
    BY <1>4 DEF Traffic!Decide, Traffic!Send, Traffic!Rest
  <2> QED BY <2>1, <2>2 DEF TrafficRecord, TrafficForgets
<1>5. ASSUME NEW n \in Nodes, Traffic!Reenable(n) PROVE TrafficRecord' /\ TrafficForgets
  <2>1. trafficPc = "enable" /\ UNCHANGED <<trafficPc, trafficCopy, marks, mark>>
    BY <1>5 DEF Traffic!Reenable
  <2> QED BY <2>1 DEF TrafficRecord, TrafficForgets
<1>6. CASE Traffic!Reenabled
  <2>1. /\ trafficPc = "enable" /\ UNCHANGED <<trafficCopy, marks, mark, seen>>
        /\ trafficPc' = IF Traffic!AnyEnabled THEN "forget" ELSE "idle"
    BY <1>6 DEF Traffic!Reenabled
  <2>2. Traffic!AnyEnabled' <=> Traffic!AnyEnabled
    BY <2>1 DEF Traffic!AnyEnabled, Traffic!Snapshots
  <2> QED BY <2>1, <2>2 DEF TrafficRecord, TrafficForgets
<1>7. CASE Traffic!Forget
  <2>1. /\ trafficPc = "forget"
        /\ trafficPc' = "idle" \/ (trafficPc' = "claim" /\ mark' = "reset")
    BY <1>7 DEF Traffic!Forget
  <2> QED BY <2>1 DEF TrafficRecord, TrafficForgets
<1>8. CASE Traffic!Claim
  <2>1. /\ trafficPc = "claim" /\ UNCHANGED <<trafficCopy, mark>>
        /\ \/ trafficPc' = "idle"
           \/ trafficPc' = "send" /\ mark \notin marks
        /\ marks \subseteq marks'
    BY <1>8 DEF Traffic!Claim
  <2> QED BY <2>1 DEF TrafficRecord, TrafficForgets
<1>9. CASE Traffic!SendMessage
  <2>1. /\ trafficPc = "send" /\ UNCHANGED <<trafficCopy, marks, mark>>
        /\ trafficPc' \in {"idle", "giveBack"}
    BY <1>9 DEF Traffic!SendMessage
  <2> QED BY <2>1 DEF TrafficRecord, TrafficForgets
<1>10. CASE Traffic!Release
  <2>1. /\ trafficPc = "giveBack" /\ trafficPc' = "idle" /\ UNCHANGED <<trafficCopy, mark>>
        /\ marks' = marks \/ marks' = marks \ {mark}
    BY <1>10 DEF Traffic!Release
  <2> QED BY <2>1 DEF TrafficRecord, TrafficForgets
<1> QED BY <1>1, <1>2, <1>3, <1>4, <1>5, <1>6, <1>7, <1>8, <1>9, <1>10
    DEF Traffic!Next, Traffic!Pass

(* The record of an exhausted quota a pass found in the database is cleared  *)
(* only by a pass that read, or made, a client of that subscription enabled: *)
(* whatever reads, calls and statements fail and whenever the panels reset,  *)
(* a subscription that is still cut off stays on record, and the next pass   *)
(* tries again.  For any nodes, limit, number of resets and of faults.       *)
THEOREM CutOffStaysOnRecord == Traffic!Spec => [][TrafficForgets]_Traffic!vars
<1>1. Traffic!Init => TrafficRecord
  BY DEF Traffic!Init, TrafficRecord
<1>2. TrafficRecord /\ [Traffic!Next]_Traffic!vars => TrafficRecord'
  BY TrafficRecordSteps
<1>3. TrafficRecord /\ [Traffic!Next]_Traffic!vars => [TrafficForgets]_Traffic!vars
  BY TrafficRecordSteps
<1> QED BY <1>1, <1>2, <1>3, PTL DEF Traffic!Spec
--------------------------------------------------------------------------------
(* Where the shutdown is, and what may still run then.                       *)
HandlersLeft ==
  /\ handlers \in Nat /\ background \in Nat
  /\ phase \notin {"loop", "drain"} => handlers = 0
  /\ phase \notin {"loop", "drain", "workers", "background"} => background = 0

(* No handler outlasts ShutdownTimeout: the wait for them ends because they  *)
(* have.                                                                     *)
HandlersDrain == Process!AwaitHandlers => handlers = 0

NothingOnAClosedDatabase == phase \in {"close", "exited"} => background = 0

LEMMA HandlersLeftStep ==
  ASSUME HandlersLeft, HandlersDrain, [Process!Next]_Process!vars
  PROVE  HandlersLeft'
<1> USE DEF HandlersLeft, Process!counts, Process!Exit
<1>1. CASE Process!Main
  BY <1>1 DEF HandlersDrain, Process!Main, Process!StartWebServer, Process!InitBot, Process!StartWorkers,
     Process!LeaveLoop, Process!AwaitHandlers, Process!AwaitWorkers, Process!AwaitBackground, Process!Close
<1>2. CASE Process!Loop \/ Process!Handle
  BY <1>2 DEF Process!Loop, Process!TakeUpdate, Process!Dispatch,
     Process!Handle, Process!HandlerEnds, Process!HandlerLaunches
<1>3. CASE Process!Signal \/ Process!BackgroundEnds
  BY <1>3 DEF Process!Signal, Process!BackgroundEnds
<1>4. CASE \/ UNCHANGED Process!vars
           \/ \E w \in Workers : Process!Panic(w) \/ Process!Restart(w) \/ Process!WorkerEnds(w)
  <2>1. UNCHANGED <<phase, handlers, background>>
    BY <1>4 DEF Process!Panic, Process!Restart, Process!WorkerEnds, Process!vars
  <2> QED BY <2>1
<1> QED BY <1>1, <1>2, <1>3, <1>4 DEF Process!Next

(* The database and the panels' clients are closed under no goroutine a      *)
(* handler launched (a broadcast is one), unless a handler still ran when    *)
(* the wait for handlers ended: the hypothesis is that none did, and TLC     *)
(* finds the launch after the wait for goroutines without it.                *)
THEOREM ClosedAfterItsUsers ==
  Process!Spec /\ [][HandlersDrain]_Process!vars => []NothingOnAClosedDatabase
<1>1. Process!Init => HandlersLeft
  BY DEF Process!Init, HandlersLeft
<1>2. HandlersLeft /\ [Process!Next]_Process!vars /\ [HandlersDrain]_Process!vars => HandlersLeft'
  <2>1. UNCHANGED Process!vars /\ HandlersLeft => HandlersLeft'
    BY DEF Process!vars, HandlersLeft
  <2> QED BY <2>1, HandlersLeftStep
<1>3. HandlersLeft => NothingOnAClosedDatabase
  BY DEF HandlersLeft, NothingOnAClosedDatabase
<1> QED BY <1>1, <1>2, <1>3, PTL DEF Process!Spec
--------------------------------------------------------------------------------
(* The services.  A behaviour of the whole is one of each part.              *)
LEMMA FrozenParts ==
  ASSUME Frozen
  PROVE  /\ part # "locks" => UNCHANGED vars
         /\ part # "trial" => UNCHANGED Trials!vars
         /\ part # "admission" => UNCHANGED Admission!vars
         /\ part # "traffic" => UNCHANGED Traffic!vars
         /\ part # "reminders" => UNCHANGED Reminders!vars
         /\ part # "panel" => UNCHANGED Panel!vars
         /\ part # "subscription" => UNCHANGED Subscriptions!vars
         /\ part # "backup" => UNCHANGED Backup!vars
         /\ part # "process" => UNCHANGED Process!vars
<1>1. part # "locks" => UNCHANGED vars
  BY DEF Frozen
<1>2. part # "trial" => UNCHANGED Trials!vars
  BY DEF Frozen, trialVars, Trials!vars
<1>3. part # "admission" => UNCHANGED Admission!vars
  BY DEF Frozen, admissionVars, Admission!vars
<1>4. part # "traffic" => UNCHANGED Traffic!vars
  BY DEF Frozen, trafficVars, Traffic!vars, Traffic!panels, Traffic!pass
<1>5. part # "reminders" => UNCHANGED Reminders!vars
  BY DEF Frozen, remindersVars, Reminders!vars, Reminders!pass
<1>6. part # "panel" => UNCHANGED Panel!vars
  BY DEF Frozen, panelVars, Panel!vars, Panel!panel, Panel!call
<1>7. part # "subscription" => UNCHANGED Subscriptions!vars
  BY DEF Frozen, subscriptionVars, Subscriptions!vars
<1>8. part # "backup" => UNCHANGED Backup!vars
  BY DEF Frozen, backupVars, Backup!vars
<1>9. part # "process" => UNCHANGED Process!vars
  BY DEF Frozen, processVars, Process!vars
<1> QED BY <1>1, <1>2, <1>3, <1>4, <1>5, <1>6, <1>7, <1>8, <1>9

LEMMA StepOfEachPart ==
  [ServicesNext]_allVars =>
    /\ [Next]_vars /\ [Trials!Next]_Trials!vars /\ [Admission!Next]_Admission!vars
    /\ [Traffic!Next]_Traffic!vars /\ [Reminders!Next]_Reminders!vars /\ [Panel!Next]_Panel!vars
    /\ [Subscriptions!Next]_Subscriptions!vars /\ [Backup!Next]_Backup!vars
    /\ [Process!Next]_Process!vars
<1>1. CASE ServicesNext
  <2>1. Frozen
    BY <1>1 DEF ServicesNext
  <2>2. /\ part = "locks" => Next
        /\ part = "trial" => Trials!Next
        /\ part = "admission" => Admission!Next
        /\ part = "traffic" => Traffic!Next
        /\ part = "reminders" => Reminders!Next
        /\ part = "panel" => Panel!Next
        /\ part = "subscription" => Subscriptions!Next
        /\ part = "backup" => Backup!Next
        /\ part = "process" => Process!Next
    BY <1>1 DEF ServicesNext
  <2> QED BY <2>1, <2>2, FrozenParts
<1>2. CASE UNCHANGED allVars
  <2>1. /\ UNCHANGED vars /\ UNCHANGED Trials!vars /\ UNCHANGED Admission!vars
        /\ UNCHANGED Reminders!vars /\ UNCHANGED Panel!vars
    BY <1>2 DEF allVars, trialVars, Trials!vars, admissionVars, Admission!vars,
       remindersVars, Reminders!vars, Reminders!pass, panelVars, Panel!vars, Panel!panel, Panel!call
  <2>2. /\ UNCHANGED Traffic!vars /\ UNCHANGED Subscriptions!vars /\ UNCHANGED Backup!vars
        /\ UNCHANGED Process!vars
    BY <1>2 DEF allVars, trafficVars, Traffic!vars, Traffic!panels, Traffic!pass,
       subscriptionVars, Subscriptions!vars, backupVars, Backup!vars, processVars, Process!vars
  <2> QED BY <2>1, <2>2
<1> QED BY <1>1, <1>2

LEMMA ServicesFollowTheirParts ==
  ServicesSpec =>
    Spec /\ Trials!Spec /\ Admission!Spec /\ Reminders!Spec /\ Panel!Spec /\ Backup!Spec
<1>1. ServicesInit =>
        Init /\ Trials!Init /\ Admission!Init /\ Reminders!Init /\ Panel!Init /\ Backup!Init
  BY DEF ServicesInit
<1> QED BY <1>1, StepOfEachPart, PTL
    DEF ServicesSpec, Spec, Trials!Spec, Admission!Spec, Reminders!Spec, Panel!Spec, Backup!Spec

(* Every part of the services keeps its types.                               *)
THEOREM ServicesAreTyped == ServicesSpec => []TypesOK
<1> DEFINE Launched == Process!TypeOK /\ background <= launches + 1 /\ launches <= MaxLaunches
<1>1. ServicesInit => Traffic!TypeOK /\ Subscriptions!TypeOK /\ Launched
  <2>1. ServicesInit => Traffic!Init /\ Subscriptions!Init /\ Process!Init
    BY DEF ServicesInit
  <2> QED BY <2>1, TrafficInitTypes, SubscriptionInitTypes, ProcessInitTypes
<1>2. Traffic!TypeOK /\ Subscriptions!TypeOK /\ Launched /\ [ServicesNext]_allVars
        => (Traffic!TypeOK /\ Subscriptions!TypeOK /\ Launched)'
  BY StepOfEachPart, TrafficTypes, SubscriptionTypes, ProcessTypes
<1>3. ServicesSpec => [](Traffic!TypeOK /\ Subscriptions!TypeOK /\ Process!TypeOK)
  BY <1>1, <1>2, PTL DEF ServicesSpec
<1>4. Trials!Spec => []Trials!TypeOK
  <2>1. TrialProofs!Spec => []TrialProofs!TypeOK
    BY TrialProofs!TypeCorrect
  <2>2. TrialProofs!TypeOK => Trials!TypeOK
    BY Zenon DEF TrialProofs!TypeOK, Trials!TypeOK, TrialProofs!Rows, Trials!Rows, TrialProofs!Emails, Trials!Emails,
       TrialProofs!NoClient, Trials!NoClient, TrialProofs!TrialEmail, Trials!TrialEmail,
       TrialProofs!EmailOf, Trials!EmailOf, TrialProofs!BindSteps, Trials!BindSteps
  <2> QED BY <2>1, <2>2, TrialInitIsProved, TrialStepIsProved, PTL DEF Trials!Spec, TrialProofs!Spec
<1>5. Admission!Spec => []Admission!TypeOK
  <2>1. AdmissionProofs!Spec => []AdmissionProofs!TypeOK
    BY AdmissionAssumption, AdmissionProofs!TypeCorrect DEF AdmissionProofs!Bounds
  <2>2. AdmissionProofs!TypeOK => Admission!TypeOK
    BY Zenon DEF AdmissionProofs!TypeOK, Admission!TypeOK, AdmissionProofs!Records, Admission!Records,
       AdmissionProofs!Places, Admission!Places
  <2> QED BY <2>1, <2>2, AdmissionInitIsProved, AdmissionStepIsProved, PTL
      DEF Admission!Spec, AdmissionProofs!Spec
<1>6. /\ RemindersInv => Reminders!TypeOK
      /\ PanelInv => Panel!TypeOK
      /\ BackupInv => Backup!TypeOK
  BY DEF RemindersInv, PanelInv, BackupInv
<1>7. TypesOK <=> /\ TypeOK /\ Trials!TypeOK /\ Admission!TypeOK /\ Traffic!TypeOK /\ Reminders!TypeOK
                  /\ Panel!TypeOK /\ Subscriptions!TypeOK /\ Backup!TypeOK /\ Process!TypeOK
  BY DEF TypesOK
<1> QED BY <1>3, <1>4, <1>5, <1>6, <1>7, ServicesFollowTheirParts, TypeCorrect,
           RemindersInvariant, PanelInvariant, BackupInvariant, PTL

(* Whichever part is followed, the locks implement the abstract mutex and    *)
(* leave no entry behind, and the promises of the parts hold together.       *)
THEOREM ServicesKeepTheirPromises ==
  ServicesSpec =>
    /\ ImplementsMutex
    /\ [](NoLeak /\ BoundKeepsAccess /\ HourlyLimit /\ RemindedOnceInTime /\ FullMembership
          /\ RestoreLosesNothing)
BY ServicesFollowTheirParts, Refinement, NoEntryLeaks, BoundTrialsKeepAccess, TrialsAreRateLimited,
   RemindersReachTheUser, CallsTellTheTruth, BackupsRestore, PTL
=============================================================================
