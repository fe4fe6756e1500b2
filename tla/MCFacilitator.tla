---------------------------- MODULE MCFacilitator ----------------------------
(* Small instances of Facilitator for TLC. *)
EXTENDS Facilitator

MCNumbers == {<<0>>, <<1, 0>>}
MCLines == {<<>>, <<"good">>, <<"good", "bad">>}
=============================================================================
