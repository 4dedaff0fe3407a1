------------------------------ MODULE MCServer ------------------------------
(***************************************************************************)
(* Instances of Server for TLC.                                            *)
(***************************************************************************)
EXTENDS Server

CONSTANT u1

Data(len) == [len |-> len, proxy |-> ProxyVMess, uid |-> u1]

\* One peer, under the proxy the core serves.
OnePeer == {Data(17)}

\* And data that is a byte short.
OnePeerAndShort == {Data(17), Data(16)}

\* Its e-mail.
OneKey == {<<ProxyVMess, u1>>}
=============================================================================
