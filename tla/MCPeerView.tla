----------------------------- MODULE MCPeerView -----------------------------
(* Instances of PeerView for TLC. *)
EXTENDS PeerView, TLC

CONSTANTS n1, n2, f1, f2, ip1

MCOwner1 == f1 :> n1
MCOwner2 == f1 :> n1 @@ f2 :> n2
=============================================================================
