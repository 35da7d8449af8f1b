---------------------------- MODULE TrafficQuota ----------------------------
(***************************************************************************)
(* The hourly traffic pass over one subscription on a limited plan: it reads*)
(* each node's counter, claims a mark in the database for every message it  *)
(* sends, and switches clients on again whose exhausted quota was reset.    *)
(* The panels count, disable and reset by themselves between its steps.     *)
(* (internal/service/subscription_traffic_notifications.go,                 *)
(* internal/database/subscription_traffic.go,                               *)
(* internal/scheduler/subscription_traffic_worker.go)                       *)
(***************************************************************************)
EXTENDS Naturals, FiniteSets, FiniteSetsExt

CONSTANTS Nodes,
          Limit,        \* the plan's limit, and each client's on its panel
          Denominator,  \* trafficQuotaWarningDenominator
          MaxCycles,    \* resets by the panels in a behaviour
          MaxFaults     \* failed reads, refused and lost calls, failed statements and sends

VARIABLES mode,    \* "notify", "recovery", or "unlimited": a plan no pass looks at
          used, enabled,  \* on each panel
          marks,   \* traffic_reminders_sent
          pc,      \* where the pass is
          copy,    \* the marks of the row it loaded
          seen,    \* its reading of each node
          todo,    \* nodes to read, then nodes to re-enable
          mark,    \* the message being sent
          cycles, faults

panels == <<used, enabled, cycles>>
pass == <<pc, copy, seen, todo, mark>>
vars == <<mode, panels, marks, pass, faults>>

Marks == {"ninety", "exhausted", "reset"}
Steps == {"idle", "read", "decide", "enable", "forget", "claim", "send", "giveBack"}
Unread == [used |-> 0, enabled |-> FALSE, ok |-> FALSE]
Readings == [used : 0 .. Limit, enabled : BOOLEAN, ok : BOOLEAN]

(* The counters, the marks and the pass have their types.                    *)
TypeOK ==
  /\ mode \in {"notify", "recovery", "unlimited"}
  /\ used \in [Nodes -> 0 .. Limit] /\ enabled \in [Nodes -> BOOLEAN]
  /\ marks \subseteq Marks /\ copy \subseteq Marks
  /\ pc \in Steps /\ mark \in Marks
  /\ seen \in [Nodes -> Readings] /\ todo \subseteq Nodes
  /\ cycles \in 0 .. MaxCycles /\ faults \in 0 .. MaxFaults

Init ==
  /\ mode \in {"notify", "recovery", "unlimited"}
  /\ used = [n \in Nodes |-> 0] /\ enabled = [n \in Nodes |-> TRUE]
  /\ marks = {} /\ copy = {}
  /\ pc = "idle" /\ mark = "ninety"
  /\ seen = [n \in Nodes |-> Unread] /\ todo = {}
  /\ cycles = 0 /\ faults = 0

Fault ==
  /\ faults < MaxFaults
  /\ faults' = faults + 1

-----------------------------------------------------------------------------
(* The panels                                                                *)

Use(n) ==
  /\ enabled[n] /\ used[n] < Limit
  /\ used' = [used EXCEPT ![n] = @ + 1]
  /\ UNCHANGED <<mode, enabled, cycles, marks, pass, faults>>

Exhaust(n) ==
  /\ enabled[n] /\ used[n] = Limit
  /\ enabled' = [enabled EXCEPT ![n] = FALSE]
  /\ UNCHANGED <<mode, used, cycles, marks, pass, faults>>

(* The monthly reset; it leaves some clients disabled.                       *)
ResetCounters ==
  /\ cycles < MaxCycles
  /\ cycles' = cycles + 1
  /\ used' = [n \in Nodes |-> 0]
  /\ \E back \in SUBSET Nodes : enabled' = [n \in Nodes |-> enabled[n] \/ n \in back]
  /\ UNCHANGED <<mode, marks, pass, faults>>

-----------------------------------------------------------------------------
(* The pass                                                                  *)

Go(place) == pc' = place
At(place) == pc = place

LoadTargets ==
  /\ At("idle") /\ mode # "unlimited"
  /\ copy' = marks
  /\ seen' = [n \in Nodes |-> Unread]
  /\ todo' = Nodes
  /\ Go("read")
  /\ UNCHANGED <<mode, panels, marks, mark, faults>>

GetTraffic(n) ==
  /\ At("read") /\ n \in todo
  /\ todo' = todo \ {n}
  /\ \/ seen' = [seen EXCEPT ![n] = [used |-> used[n], enabled |-> enabled[n], ok |-> TRUE]]
        /\ UNCHANGED faults
     \/ Fault /\ UNCHANGED seen
  /\ Go(IF todo = {n} THEN "decide" ELSE "read")
  /\ UNCHANGED <<mode, panels, marks, copy, mark>>

Snapshots == {n \in Nodes : seen[n].ok}
SeenUsed == MapThenSumSet(LAMBDA n : seen[n].used, Snapshots)
Warned == SeenUsed >= Limit - Limit \div Denominator
AnyEnabled == \E n \in Snapshots : seen[n].enabled

Send(m) == mark' = m /\ Go("claim") /\ UNCHANGED <<todo, seen>>
Rest == Go("idle") /\ UNCHANGED <<todo, mark, seen>>

(* With a node unread the pass only warns; the reset is believed, and a      *)
(* client switched on, only if the exhaustion was recorded.                  *)
Decide ==
  /\ At("decide")
  /\ \/ Snapshots = {} /\ Rest
     \/ /\ Snapshots \notin {{}, Nodes} /\ SeenUsed < Limit
        /\ IF mode = "notify" /\ Warned THEN Send("ninety") ELSE Rest
     \/ SeenUsed >= Limit /\ Send("exhausted")
     \/ /\ Snapshots = Nodes /\ SeenUsed < Limit /\ ~AnyEnabled
        /\ IF "exhausted" \in copy
           THEN todo' = Nodes /\ Go("enable") /\ UNCHANGED <<mark, seen>>
           ELSE Rest
     \/ /\ Snapshots = Nodes /\ SeenUsed < Limit /\ AnyEnabled
        /\ \/ mode = "notify" /\ Warned /\ Send("ninety")
           \/ /\ mode = "notify" /\ ~Warned
              /\ Go("giveBack") /\ mark' = "ninety" /\ UNCHANGED <<todo, seen>>
           \/ mode = "recovery" /\ Rest
  /\ UNCHANGED <<mode, panels, marks, copy, faults>>

(* Mutant: the marks are cleared although no client could be switched on. *)
ForgetAnyway ==
  /\ At("enable") /\ todo = {}
  /\ Go("forget")
  /\ UNCHANGED <<mode, panels, marks, copy, seen, todo, mark, faults>>

(* UpdateClient: done, refused, or done with its answer lost. What the pass  *)
(* switched on, it notes in its reading.                                     *)
Reenable(n) ==
  /\ At("enable") /\ n \in todo
  /\ todo' = todo \ {n}
  /\ \/ /\ enabled' = [enabled EXCEPT ![n] = TRUE]
        /\ seen' = [seen EXCEPT ![n].enabled = TRUE]
        /\ UNCHANGED faults
     \/ Fault /\ enabled' \in {enabled, [enabled EXCEPT ![n] = TRUE]} /\ UNCHANGED seen
  /\ UNCHANGED <<mode, used, cycles, marks, pc, copy, mark>>

Reenabled ==
  /\ At("enable") /\ todo = {}
  /\ Go(IF AnyEnabled THEN "forget" ELSE "idle")
  /\ UNCHANGED <<mode, panels, marks, copy, seen, todo, mark, faults>>

(* Both statements, each of which may fail.                                  *)
Forget ==
  /\ At("forget")
  /\ \/ marks' = marks \ {"exhausted", "ninety"} /\ UNCHANGED faults
     \/ Fault /\ marks' \in {marks, marks \ {"exhausted"}, marks \ {"ninety"}}
  /\ \/ mode = "notify" /\ mark' = "reset" /\ Go("claim")
     \/ mode = "recovery" /\ Go("idle") /\ UNCHANGED mark
  /\ UNCHANGED <<mode, panels, copy, seen, todo>>

(* A mark is claimed in one statement; the recovery mode records it and      *)
(* sends nothing.                                                            *)
Claim ==
  /\ At("claim")
  /\ \/ mark \notin marks /\ marks' = marks \cup {mark}
        /\ Go(IF mode = "notify" THEN "send" ELSE "idle")
        /\ UNCHANGED faults
     \/ mark \in marks /\ Go("idle") /\ UNCHANGED <<marks, faults>>
     \/ Fault /\ Go("idle") /\ UNCHANGED marks
  /\ UNCHANGED <<mode, panels, copy, seen, todo, mark>>

SendMessage ==
  /\ At("send")
  /\ \/ Go("idle") /\ UNCHANGED faults
     \/ Fault /\ Go("giveBack")
  /\ UNCHANGED <<mode, panels, marks, copy, seen, todo, mark>>

Release ==
  /\ At("giveBack")
  /\ Go("idle")
  /\ \/ marks' = marks \ {mark} /\ UNCHANGED faults
     \/ Fault /\ UNCHANGED marks
  /\ UNCHANGED <<mode, panels, copy, seen, todo, mark>>

Pass ==
  \/ LoadTargets \/ Decide \/ Reenabled \/ Forget \/ Claim \/ SendMessage \/ Release
  \/ \E n \in Nodes : GetTraffic(n) \/ Reenable(n)

Next == Pass \/ ResetCounters \/ \E n \in Nodes : Use(n) \/ Exhaust(n)

(* The worker runs every hour; what it calls returns.                        *)
Fairness == WF_vars(Pass)

Spec == Init /\ [][Next]_vars /\ Fairness

-----------------------------------------------------------------------------
(* Properties                                                                *)

Reset == \A n \in Nodes : ~enabled[n] /\ used[n] < Limit
InUse == MapThenSumSet(LAMBDA n : used[n], Nodes)

(* A subscription whose exhaustion is on record and whose counters were      *)
(* reset gets a client back, in either mode and whatever calls fail on the   *)
(* way: no pass clears the record without having switched one on.            *)
AccessRecovers ==
  (At("idle") /\ "exhausted" \in marks /\ InUse < Limit /\ Reset) ~> \E n \in Nodes : enabled[n]
=============================================================================
