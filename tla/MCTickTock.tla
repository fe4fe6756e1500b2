----------------------------- MODULE MCTickTock -----------------------------
(* Small instance of TickTock for TLC.  The processes are interchangeable. *)
EXTENDS TickTock

Symmetry == Permutations(Procs)
=============================================================================
