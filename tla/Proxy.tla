------------------------------- MODULE Proxy -------------------------------
(***************************************************************************)
(* The proxy types of v2ray/types/proxy.go.  A Proxy is one byte, the      *)
(* first one of a peer's data; every byte but one names no proxy.          *)
(***************************************************************************)
EXTENDS Integers

Byte == 0 .. 255

ProxyUnspecified == 0
ProxyVMess == 1

String(p) == IF p = ProxyVMess THEN "vmess" ELSE ""

\* The tag of the inbound that serves the proxy.
Tag(p) == String(p)

ProxyFromString(s) == IF s = "vmess" THEN ProxyVMess ELSE ProxyUnspecified
=============================================================================
