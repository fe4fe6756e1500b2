---------------------------- MODULE MCSignalChat ----------------------------
(* Small instances of SignalChat for TLC. *)
EXTENDS SignalChat
=============================================================================
