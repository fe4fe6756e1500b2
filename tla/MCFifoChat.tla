----------------------------- MODULE MCFifoChat -----------------------------
(* Small instances of FifoChat for TLC. *)
EXTENDS FifoChat
=============================================================================
