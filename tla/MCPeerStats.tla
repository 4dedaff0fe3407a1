---------------------------- MODULE MCPeerStats ----------------------------
(***************************************************************************)
(* Instances of PeerStats for TLC.                                         *)
(***************************************************************************)
EXTENDS PeerStats

CONSTANTS k1, k2

\* One counter of one peer counts: the other three are never made.
OneCounts == {<<k1, "up">>}
=============================================================================
