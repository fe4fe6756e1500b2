----------------------------- MODULE MCGroupChat -----------------------------
(* Small instances of GroupChat for TLC. *)
EXTENDS GroupChat
=============================================================================
