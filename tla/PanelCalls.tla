----------------------------- MODULE PanelCalls -----------------------------
(***************************************************************************)
(* One call of the 3x-ui client: creating, updating, renaming or deleting a *)
(* client on a panel whose inbounds need different flows. It is a request   *)
(* per flow, each repeated after a broken connection, and a comparison at   *)
(* the end; answers get lost and an administrator works on the same panel.  *)
(* (internal/xui/client.go, internal/xui/classify.go,                       *)
(* internal/vpn/threex_ui.go, internal/utils/retry.go; the panel's side is  *)
(* the contract in doc/architecture.md, "Контракт API панели 3x-ui")        *)
(***************************************************************************)
EXTENDS Naturals, FiniteSets, Sequences, Functions

CONSTANTS Inbounds,
          FlowOf,      \* the flow each of them needs
          MaxRetries,  \* XUIMaxRetries
          MaxFaults,   \* broken connections, timeouts and partial successes in a behaviour
          MaxEdits     \* changes by the administrator in a behaviour

Off == "off"
Flows == {FlowOf[i] : i \in Inbounds}

VARIABLES op, requested,   \* the call, and the inbounds of its node
          email,           \* the panel's client is under the "old" or the "new" email, or "none"
          ours,            \* it has the subscription's subId
          on,              \* its flow on each inbound
          groups,          \* flows still to apply, in their order
          applied, tries,  \* groups done, and attempts at this one
          pc, result,
          faults, edits

panel == <<email, ours, on>>
call == <<groups, applied, tries, pc, result>>
vars == <<op, requested, panel, call, faults, edits>>

Results == {"none", "ok", "exists", "notFound", "refused", "broken", "timeout"}

(* The panel and the call have their types.                                  *)
TypeOK ==
  /\ op \in {"add", "update", "rename", "delete"}
  /\ requested \subseteq Inbounds
  /\ email \in {"none", "old", "new"} /\ ours \in BOOLEAN
  /\ on \in [Inbounds -> Flows \cup {Off}]
  /\ Range(groups) \subseteq Flows
  /\ applied \in 0 .. Cardinality(Flows) /\ tries \in 0 .. MaxRetries
  /\ pc \in {"group", "apply", "verify", "done"}
  /\ result \in [kind : Results, incomplete : BOOLEAN]
  /\ faults \in 0 .. MaxFaults /\ edits \in 0 .. MaxEdits

None == [kind |-> "none", incomplete |-> FALSE]

(* The panel has whatever earlier calls and its administrator left on it.    *)
Init ==
  /\ op \in {"add", "update", "rename", "delete"}
  /\ requested \in (SUBSET Inbounds) \ {{}}
  /\ email \in {"none", "old"} /\ ours \in BOOLEAN
  /\ on \in [Inbounds -> Flows \cup {Off}]
  /\ email = "none" => ours /\ on = [i \in Inbounds |-> Off]
  /\ groups = <<>> /\ applied = 0 /\ tries = 0
  /\ pc = "group" /\ result = None
  /\ faults = 0 /\ edits = 0

Fault ==
  /\ faults < MaxFaults
  /\ faults' = faults + 1

-----------------------------------------------------------------------------
(* The panel                                                                 *)

Grown(flow, ids) == [i \in Inbounds |-> IF i \in ids THEN flow ELSE on[i]]

(* Mutant: without ?inboundIds= an update writes its flow everywhere. *)
RewrittenAll(flow, ids) == [i \in Inbounds |-> IF on[i] # Off THEN flow ELSE Off]

Rewritten(flow, ids) == [i \in Inbounds |-> IF i \in ids /\ on[i] # Off THEN flow ELSE on[i]]

(* What the panel answers, and whether it changes anything.                  *)
Answer ==
  CASE op = "add"    -> IF email = "none" \/ ours THEN "ok" ELSE "exists"
    [] op = "delete" -> IF email = "none" THEN "notFound" ELSE "ok"
    [] OTHER         -> IF email = "old" THEN "ok" ELSE "notFound"

Process(flow, ids) ==
  IF Answer # "ok" THEN UNCHANGED panel ELSE
  CASE op = "add" -> email' = "old" /\ ours' = TRUE /\ on' = Grown(flow, ids)
    [] op = "delete" -> email' = "none" /\ ours' = TRUE /\ on' = [i \in Inbounds |-> Off]
    [] OTHER -> /\ email' = (IF op = "rename" THEN "new" ELSE "old")
                /\ ours' = TRUE /\ on' = Rewritten(flow, ids)

-----------------------------------------------------------------------------
(* The client                                                                *)

End(kind, partly) ==
  /\ pc' = "done"
  /\ result' = [kind |-> kind, incomplete |-> partly]

(* Each flow once. sort.Strings puts "" before the others, whose order does  *)
(* not matter.                                                               *)
Orders(flows) == {s \in [1 .. Cardinality(flows) -> flows] :
                    Range(s) = flows /\ \A k \in DOMAIN s : s[k] = "" => k = 1}

(* Every inbound is asked for its flow.                                      *)
GroupByFlow ==
  /\ pc = "group"
  /\ \/ /\ groups' \in IF op = "delete" THEN {<<FlowOf[CHOOSE i \in requested : TRUE]>>}
                       ELSE Orders({FlowOf[i] : i \in requested})
        /\ pc' = "apply" /\ UNCHANGED <<result, faults>>
     \/ Fault /\ op # "delete" /\ End("refused", FALSE) /\ UNCHANGED groups
  /\ UNCHANGED <<op, requested, panel, applied, tries, edits>>

Group == {i \in requested : FlowOf[i] = Head(groups)}

Multi == Cardinality({FlowOf[i] : i \in requested}) > 1 /\ op # "delete"

GroupDone ==
  /\ groups' = Tail(groups) /\ applied' = applied + 1 /\ tries' = 0
  /\ IF Len(groups) > 1 THEN UNCHANGED <<pc, result>>
     ELSE IF Multi THEN pc' = "verify" /\ UNCHANGED result
     ELSE End("ok", FALSE)

GiveUp(kind) ==
  /\ End(kind, applied > 0)
  /\ UNCHANGED <<groups, applied, tries>>

(* The panel answers. It may report success without having put the client on *)
(* each of the inbounds.                                                     *)
Answered ==
  /\ pc = "apply"
  /\ \/ Process(Head(groups), Group) /\ UNCHANGED faults
     \/ /\ Fault /\ op = "add"
        /\ \E missed \in SUBSET {i \in Group : on[i] = Off} : Process(Head(groups), Group \ missed)
  /\ IF Answer = "ok" THEN GroupDone ELSE GiveUp(Answer)
  /\ UNCHANGED <<op, requested, edits>>

(* The connection breaks before the panel acts or after it: it is repeated.  *)
Broken ==
  /\ pc = "apply"
  /\ Fault
  /\ UNCHANGED panel \/ Process(Head(groups), Group)
  /\ IF tries + 1 < MaxRetries
     THEN tries' = tries + 1 /\ UNCHANGED <<groups, applied, pc, result>>
     ELSE GiveUp("broken")
  /\ UNCHANGED <<op, requested, edits>>

(* A timeout counts as an end of the context, and a status other than 200 as *)
(* an answer: neither is repeated.                                           *)
NotRepeated ==
  /\ pc = "apply"
  /\ Fault
  /\ \/ GiveUp("timeout") /\ (UNCHANGED panel \/ Process(Head(groups), Group))
     \/ GiveUp("refused") /\ UNCHANGED panel
  /\ UNCHANGED <<op, requested, edits>>

(* verifyClientInbounds, one request                                         *)
Verify ==
  /\ pc = "verify"
  /\ \/ /\ email # (IF op = "rename" THEN "new" ELSE "old")
        /\ End("notFound", FALSE) /\ UNCHANGED faults
     \/ /\ email = (IF op = "rename" THEN "new" ELSE "old")
        /\ IF \E i \in requested : on[i] = Off THEN End("refused", TRUE) ELSE End("ok", FALSE)
        /\ UNCHANGED faults
     \/ Fault /\ End("broken", FALSE)
  /\ UNCHANGED <<op, requested, panel, groups, applied, tries, edits>>

(* The administrator takes the client off an inbound, or deletes it.         *)
Edit ==
  /\ edits < MaxEdits /\ email # "none" /\ pc # "done"
  /\ edits' = edits + 1
  /\ \/ \E i \in Inbounds : on[i] # Off /\ on' = [on EXCEPT ![i] = Off] /\ UNCHANGED <<email, ours>>
     \/ email' = "none" /\ ours' = TRUE /\ on' = [i \in Inbounds |-> Off]
  /\ UNCHANGED <<op, requested, call, faults>>

Next == GroupByFlow \/ Answered \/ Broken \/ NotRepeated \/ Verify \/ Edit

Spec == Init /\ [][Next]_vars

-----------------------------------------------------------------------------
(* Properties                                                                *)

(* A call on several flows that reports success leaves the client on every   *)
(* inbound of the node, with the flow that inbound needs, whatever requests  *)
(* were repeated, cut short or only partly obeyed. And what the sync service *)
(* takes for the client's absence is its absence: an update that failed      *)
(* there never leaves the client under the email it was looked up by.        *)
FullMembership ==
  pc = "done" =>
    /\ result.kind = "ok" /\ Multi =>
         /\ ours
         /\ \A i \in requested : on[i] = FlowOf[i]
    /\ result.kind = "notFound" /\ op # "add" => email # "old"

(* A rename that meets no failure succeeds. It does not hold on a node with  *)
(* two flows.                                                                *)
RenameCompletes ==
  pc = "done" /\ op = "rename" /\ faults = 0 /\ edits = 0 /\ result.kind = "notFound"
    => email = "none"
=============================================================================
