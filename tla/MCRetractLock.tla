---------------------------- MODULE MCRetractLock ---------------------------
(* Instances of RetractLock for TLC. *)
EXTENDS RetractSafe
=============================================================================
