-------------------------- MODULE MCTrackerDatabase --------------------------
(* Instances of TrackerDatabase for TLC. *)
EXTENDS TrackerDatabase, TLC

CONSTANTS n1, n2, f1, f2, ip1

MCOwner1 == f1 :> n1
=============================================================================
