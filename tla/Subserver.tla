------------------------------ MODULE Subserver ------------------------------
(***************************************************************************)
(* The subscription server: the cache and its requests, the rendering of    *)
(* one answer, and the access log. They share no state, so a behaviour      *)
(* follows one of them.                                                     *)
(***************************************************************************)
EXTENDS SubserverCache

CONSTANTS Items, Expiries, NoExpiry, MaxNodes, AddressName, Positional, Handlers, QueueSize

VARIABLES part,
          format, nodes, merged, expire, jsonConfigs, items, rendered, configs, names,
          queue, closed, fileOpen, written, dropped, late, broken, failed, closer, expired

Rendering == INSTANCE SubscriptionRendering
Log == INSTANCE AccessLog

rendering == <<format, nodes, merged, expire, jsonConfigs, items, rendered, configs, names>>
log == <<queue, closed, fileOpen, written, dropped, late, broken, failed, closer, expired>>

(* Nodes return items of the known shape with a readable expiry or none.     *)
ASSUME RenderingAssumption ==
  /\ Items \subseteq Rendering!Node /\ MaxNodes \in Nat
  /\ Expiries \subseteq Nat /\ NoExpiry \notin Nat

(* The positional names differ from each other and from every name a profile *)
(* uses, as does one made of an address, and however many nodes there are    *)
(* they do not run out.                                                      *)
ASSUME NamesAssumption ==
  /\ AddressName \in STRING /\ AddressName \notin {"DIRECT", "REJECT"}
  /\ Positional \in Seq(STRING) /\ Len(Positional) >= 2 * MaxNodes
  /\ \A m, n \in 1 .. Len(Positional) : Positional[m] = Positional[n] => m = n
  /\ \A n \in 1 .. Len(Positional) :
       Positional[n] \notin {"", "direct", "block", "proxy", "PROXY", "DIRECT", "REJECT"}

ASSUME LogAssumption == QueueSize \in Nat

SubserverInit ==
  /\ part \in {"cache", "rendering", "log"}
  /\ Init /\ Rendering!Init /\ Log!Init
  /\ part # "cache" => fmt = [r \in Requests |-> CHOOSE f \in Formats : TRUE]
  /\ part # "rendering" => nodes = <<>> /\ format = "xray"

SubserverNext ==
  /\ UNCHANGED part
  /\ \/ part = "cache" /\ Next /\ UNCHANGED <<rendering, log>>
     \/ part = "rendering" /\ Rendering!Next /\ UNCHANGED <<vars, log>>
     \/ part = "log" /\ Log!Next /\ UNCHANGED <<vars, rendering>>

SubserverSpec == SubserverInit /\ [][SubserverNext]_<<vars, part, rendering, log>> /\ Fairness

(* The three parts keep the types of their modules.                          *)
TypesOK == TypeOK /\ Rendering!TypeOK /\ Log!TypeOK

(* The profile is sound whatever the panels call their servers and whichever *)
(* of them answer (tagProxyOutbounds and its like, updateMinExpire).         *)
RenderedSoundly == Rendering!RenderedSoundly

(* A shutdown that meets its deadline loses no accepted record but those     *)
(* whose own write failed (asyncAccessLogWriter.Sync).                       *)
FlushedOnClose == Log!FlushedOnClose
=============================================================================
