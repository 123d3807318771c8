-------------------------- MODULE MCLocalBackupInfo --------------------------
(* Instances of LocalBackupInfo for TLC. *)
EXTENDS LocalBackupInfo

CONSTANTS v1, v2
=============================================================================
