----------------------------- MODULE MCTwoPort -----------------------------
(* Small instances of TwoPort for TLC. *)
EXTENDS TwoPort
=============================================================================
