------------------------ MODULE SubscriptionRendering ------------------------
(***************************************************************************)
(* How one answer of the subscription endpoint is put together: what the    *)
(* nodes' panels returned is parsed into server configurations, rendered    *)
(* for the client's format, and given names that the profile's routing      *)
(* refers to. (internal/subserver: subscription_handler_split.go,           *)
(* servers.go, clash.go, xray.go, singbox.go, clashout.go)                  *)
(*                                                                          *)
(* A server is abstracted to what decides whether and how it is rendered:   *)
(* its protocol, its security fields, its cipher, and its remark.           *)
(***************************************************************************)
EXTENDS Naturals, Sequences, FiniteSets

CONSTANTS Items,      \* what a node may return
          Expiries,   \* expire values of a node's user info, 0 for no end
          NoExpiry,   \* a node's user info without a readable one
          MaxNodes,
          AddressName, \* "proxy-" and a server's address
          Positional   \* the names "proxy-1", "proxy-2", ... as far as they are needed

VARIABLES format,       \* the client's
          nodes,        \* the answers of the nodes, in their order
          merged,       \* how many of them have been aggregated
          expire,       \* firstExpireVal, 0 at first
          jsonConfigs,  \* entries of configuration files
          items,        \* share links
          rendered,     \* how many of both have been looked at
          configs,      \* the servers rendered
          names         \* tags given so far

vars == <<format, nodes, merged, expire, jsonConfigs, items, rendered, configs, names>>

OutFormats == {"xray", "singbox", "clash"}
Types == {"vless", "vmess", "trojan", "ss", "hysteria", "hysteria2", "tuic"}
Sources == {"link", "vmessJson", "clash"}
Node == [source : Sources, type : Types, secure : {"none", "tls", "reality"},
         cipher : BOOLEAN, public : BOOLEAN, remark : STRING]
Answered == [item : Items, expire : Expiries \cup {NoExpiry}]
Server == [type : Types, security : {"", "tls", "reality"}, tls : {"", "tls"},
           cipher : BOOLEAN, public : BOOLEAN, remark : STRING]

(* Nodes, servers and names have their types; a name is given once per       *)
(* server, and a server comes from a node's answer.                          *)
TypeOK ==
  /\ format \in OutFormats
  /\ nodes \in Seq(Answered) /\ Len(nodes) <= MaxNodes
  /\ merged \in 0 .. Len(nodes) /\ expire \in Expiries \cup {0}
  /\ jsonConfigs \in Seq(Items) /\ items \in Seq(Items)
  /\ Len(jsonConfigs) + Len(items) = merged
  /\ configs \in Seq(Server) /\ rendered \in Len(configs) .. merged
  /\ names \in Seq(STRING) /\ Len(names) <= Len(configs)

Init ==
  /\ format \in OutFormats
  /\ nodes \in UNION {[1 .. n -> Answered] : n \in 0 .. MaxNodes}
  /\ merged = 0 /\ expire = 0
  /\ jsonConfigs = <<>> /\ items = <<>>
  /\ rendered = 0 /\ configs = <<>> /\ names = <<>>

-----------------------------------------------------------------------------
(* Parsing                                                                   *)

(* Share links know no TUIC; a Base64 vmess link and a Clash vmess entry put *)
(* their security into the field tls, everything else into security. A Clash *)
(* trojan entry is secure unless it says otherwise.                          *)
Parsed(item) == item.source = "link" => item.type # "tuic"

Field(item) ==
  IF item.source # "link" /\ item.type = "vmess" THEN "tls" ELSE "security"

ToServer(item) ==
  LET s == IF item.secure = "none" THEN "" ELSE item.secure IN
  [type |-> item.type,
   security |-> IF Field(item) = "security" THEN s ELSE "",
   tls |-> IF Field(item) = "tls" /\ s # "" THEN "tls" ELSE "",
   cipher |-> item.cipher, public |-> item.public, remark |-> item.remark]

(* Entries of configuration files come before share links.                   *)
Aggregated == jsonConfigs \o items

(* updateMinExpire: what is unreadable is passed over, but 0 is at once a    *)
(* node's "never" and "none so far".                                         *)
MinExpire(sofar, e) == IF e # NoExpiry /\ (sofar = 0 \/ e < sofar) THEN e ELSE sofar

-----------------------------------------------------------------------------
(* Rendering                                                                 *)

(* resolveXraySecurity                                                       *)
XraySecurity(c) == IF c.security # "" THEN c.security ELSE IF c.tls # "" THEN c.tls ELSE "none"

(* Unsupported protocols are skipped, and for Xray the servers that would    *)
(* make a client refuse the whole profile.                                   *)
Renders(f, c) ==
  CASE f = "xray" ->
         /\ c.type # "tuic"
         /\ c.type = "ss" => c.cipher
         /\ c.type \in {"vless", "trojan"} => XraySecurity(c) # "none" \/ ~c.public
    [] f = "singbox" ->
         /\ c.type # "hysteria"
         /\ c.type = "ss" => c.cipher
    [] f = "clash" -> c.type # "hysteria"

Reserved(f) ==
  CASE f = "xray" -> {"direct", "block"}
    [] f = "singbox" -> {"proxy", "direct"}
    [] f = "clash" -> {"PROXY"}

(* What the routing rules of a profile name, but for the server itself.      *)
Targets(f) ==
  CASE f = "xray" -> {"direct", "block"}
    [] f = "singbox" -> {"proxy", "direct"}
    [] f = "clash" -> {"PROXY", "DIRECT", "REJECT"}

(* The first free name from a position on.                                   *)
FreeProxyTag(start, used) ==
  LET free == {n \in start .. Len(Positional) : Positional[n] \notin used}
  IN Positional[CHOOSE n \in free : \A m \in free : n <= m]

(* Mutant: the profile's own outbounds are not reserved. *)
UsedByServers == {names[i] : i \in DOMAIN names}

Used == Reserved(format) \cup {names[i] : i \in DOMAIN names}

(* A Clash entry without a remark is named after its address before.         *)
Remark(f, c) == IF f = "clash" /\ c.remark = "" THEN AddressName ELSE c.remark

Tag(i) ==
  LET wanted == Remark(format, configs[i]) IN
  IF wanted # "" /\ wanted \notin Used THEN wanted
  ELSE FreeProxyTag(IF format = "xray" THEN i ELSE 1, Used)

(* The nodes' answers are merged in the nodes' order.                        *)
Merge ==
  /\ merged < Len(nodes)
  /\ merged' = merged + 1
  /\ LET n == nodes[merged + 1] IN
     /\ expire' = MinExpire(expire, n.expire)
     /\ \/ /\ n.item.source = "clash"
           /\ jsonConfigs' = Append(jsonConfigs, n.item) /\ UNCHANGED items
        \/ /\ n.item.source # "clash"
           /\ items' = Append(items, n.item) /\ UNCHANGED jsonConfigs
  /\ UNCHANGED <<format, nodes, rendered, configs, names>>

(* What cannot be parsed or rendered is skipped.                             *)
RenderNext ==
  /\ merged = Len(nodes) /\ rendered < Len(Aggregated)
  /\ rendered' = rendered + 1
  /\ LET item == Aggregated[rendered + 1] IN
     configs' = IF Parsed(item) /\ Renders(format, ToServer(item))
                THEN Append(configs, ToServer(item)) ELSE configs
  /\ UNCHANGED <<format, nodes, merged, expire, jsonConfigs, items, names>>

(* The names are given when all servers are known.                           *)
TagNext ==
  /\ merged = Len(nodes) /\ rendered = Len(Aggregated) /\ Len(names) < Len(configs)
  /\ names' = Append(names, Tag(Len(names) + 1))
  /\ UNCHANGED <<format, nodes, merged, expire, jsonConfigs, items, rendered, configs>>

Next == Merge \/ RenderNext \/ TagNext

Spec == Init /\ [][Next]_vars

-----------------------------------------------------------------------------
(* Every server of a profile can be selected, and none takes the place of an *)
(* outbound the profile defines itself. Of what the routing rules name, only *)
(* the built-in policies of Clash can be taken: by a server whose remark is  *)
(* just DIRECT or REJECT, never by a name made up here.                      *)
NamesResolve ==
  /\ \A i \in DOMAIN names : names[i] # "" /\ names[i] \notin Reserved(format)
  /\ \A i \in DOMAIN names :
       names[i] \in Targets(format) => format = "clash" /\ names[i] = configs[i].remark
  /\ \A i, j \in DOMAIN names : names[i] = names[j] => i = j

(* A server whose name is nobody else's, nor a positional or reserved one,   *)
(* nor one made of an address, appears under it in every format.             *)
NameKept ==
  \A i \in DOMAIN names :
    LET r == configs[i].remark IN
    (/\ r \notin {"", AddressName} \cup Reserved(format)
     /\ \A n \in DOMAIN Positional : Positional[n] # r
     /\ \A j \in DOMAIN configs : configs[j].remark = r => j = i)
    => names[i] = r

(* Dates reported since the last node that reported to have no end.          *)
Dated == {i \in 1 .. merged : /\ nodes[i].expire \notin {0, NoExpiry}
                              /\ \A j \in i .. merged : nodes[j].expire # 0}

(* The expiry shown to the client is the earliest of the nodes' if all that  *)
(* report one have an end, and never a date when the last has none. A node   *)
(* without end makes the ones before it forgotten, not those after it.       *)
EarliestExpiry ==
  IF Dated = {} THEN expire = 0
  ELSE /\ \E i \in Dated : nodes[i].expire = expire
       /\ \A i \in Dated : expire <= nodes[i].expire

(* The profile is sound whatever the panels call their servers and whichever *)
(* of them answer: its names resolve, the readable ones survive, and it shows*)
(* the earliest of the expiries that count.                                  *)
RenderedSoundly == NamesResolve /\ NameKept /\ EarliestExpiry

=============================================================================
