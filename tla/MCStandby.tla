----------------------------- MODULE MCStandby -----------------------------
(* Small instances of Standby for TLC. *)
EXTENDS Standby
=============================================================================
