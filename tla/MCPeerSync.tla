----------------------------- MODULE MCPeerSync -----------------------------
(***************************************************************************)
(* Instances of PeerSync for TLC.                                          *)
(***************************************************************************)
EXTENDS PeerSync

CONSTANTS u1, u2

\* One UUID under the one proxy the core serves and under one it does not,
\* another UUID under the first, and data that is a byte short.
Data(proxy, uid) == [len |-> DataLen, proxy |-> proxy, uid |-> uid]

OneShort == [len |-> DataLen - 1, proxy |-> ProxyVMess, uid |-> u1]

TwoPeers == {Data(ProxyVMess, u1), Data(ProxyVMess, u2), OneShort}

TwoProxies == {Data(ProxyVMess, u1), Data(2, u1), OneShort}
=============================================================================
