----------------------------- MODULE MCServices -----------------------------
(***************************************************************************)
(* Three goroutines lock two keys: one can hold, one wait and one time out  *)
(* on an entry while the other key has one; as many objects as goroutines   *)
(* are enough, because only referenced ones are occupied. The other bounds  *)
(* are beside their values in the configuration.                            *)
(***************************************************************************)
EXTENDS Services, TLC

CONSTANTS n1, n2, i1, i2, i3

(* Two leads whose windows follow each other, and one renewal.               *)
MCLeads == <<4, 2>>
MCExpiries == <<7, 11>>

(* One of the inbounds needs another flow.                                   *)
MCFlowOf == i1 :> "vision" @@ i2 :> "vision" @@ i3 :> ""

MCPlanNodes == "free" :> {n1} @@ "paid" :> {n1, n2}
=============================================================================
