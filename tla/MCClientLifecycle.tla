-------------------------- MODULE MCClientLifecycle --------------------------
(* Instances of ClientLifecycle for TLC. *)
EXTENDS ClientLifecycle

CONSTANTS c1, c2
=============================================================================
