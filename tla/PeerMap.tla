------------------------------ MODULE PeerMap ------------------------------
(***************************************************************************)
(* The map of types.Peers (v2ray/types/peer.go), which the Server keeps in *)
(* s.peers.  PeerTable says how its methods change it under their lock,    *)
(* PeerSync when AddPeer and RemovePeer change it; Server puts the two     *)
(* together, so that both speak of this one variable.                      *)
(***************************************************************************)

VARIABLE
  peers     \* the keys of the map
=============================================================================
