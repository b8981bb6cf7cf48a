---------------------------- MODULE MC_PeerView ----------------------------
(* Three peers besides the own node: enough for one pledging peer, one     *)
(* peer whose record changes while the pledging one connects, and a third  *)
(* that keeps the accepted set from being empty or full.                   *)
EXTENDS PeerView

CONSTANTS p1, p2, p3

MCPeers == {p1, p2, p3}
=============================================================================
