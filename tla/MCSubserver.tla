----------------------------- MODULE MCSubserver -----------------------------
(***************************************************************************)
(* The subscription server over a handful of servers as panels offer them.  *)
(***************************************************************************)
EXTENDS Subserver

Server(source, type, secure, remark) ==
  [source |-> source, type |-> type, secure |-> secure, cipher |-> type = "ss",
   public |-> TRUE, remark |-> remark]

SomeItems ==
  {Server("clash", "vless", "reality", "DIRECT"), Server("link", "vless", "none", "direct"),
   Server("vmessJson", "vmess", "tls", ""), Server("clash", "trojan", "tls", "proxy-1"),
   Server("link", "tuic", "tls", "a"), Server("clash", "ss", "none", "PROXY")}

ProxyTags == <<"proxy-1", "proxy-2", "proxy-3", "proxy-4", "proxy-5", "proxy-6">>
=============================================================================
