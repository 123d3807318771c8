---------------------------- MODULE MCDispatcher ----------------------------
(* Instances of Dispatcher for TLC. *)
EXTENDS Dispatcher

CONSTANTS w1, w2, w3, c1, c2, j1, j2, j3
=============================================================================
