----------------------------- MODULE Broadcasts -----------------------------
(***************************************************************************)
(* Broadcasts: the delivery of a campaign, and the dialogue that prepares   *)
(* one. A behaviour follows one of them; the delivery starts from the row   *)
(* the dialogue creates.                                                    *)
(***************************************************************************)
EXTENDS BroadcastDelivery

CONSTANTS Calls, Audiences, Everyone, NoSession, NoCount, MaxDrafts, MaxUpdates, MaxFailures

ASSUME DraftAssumption ==
  /\ Everyone \in Audiences
  /\ MaxDrafts \in Nat /\ MaxUpdates \in Nat /\ MaxFailures \in Nat

VARIABLES part, session, call, drafts, campaigns, revived, taken, updates, failures

Draft == INSTANCE BroadcastDraft

draft == <<session, call, drafts, campaigns, revived, taken, updates, failures>>

BroadcastsInit ==
  /\ part \in {"draft", "delivery"}
  /\ Init /\ Draft!Init
  /\ part = "draft" => filterOK /\ waiting = {}

BroadcastsNext ==
  /\ UNCHANGED part
  /\ \/ part = "delivery" /\ Next /\ UNCHANGED draft
     \/ part = "draft" /\ Draft!Next /\ UNCHANGED vars

(* The delivery's fairness: a behaviour of the draft that ends is not one of *)
(* the fair ones, and only its safety is checked.                            *)
BroadcastsSpec == BroadcastsInit /\ [][BroadcastsNext]_<<vars, part, draft>> /\ Fairness

TypesOK == TypeOK /\ Draft!TypeOK
LaunchedAsConfirmed == Draft!LaunchedAsConfirmed
=============================================================================
