---------------------------- MODULE MCHandshake ----------------------------
(* Small instances of Handshake for TLC. *)
EXTENDS Handshake

\* Another program connects to the listeners' address, with a number whose
\* successor overflows, or goes on with a connection it has there.
MC_ToListen == {Seg(TRUE, FALSE, Word - 1, 0), Seg(FALSE, TRUE, 3, 5)}
\* A service at the initiators' address answers a connection of its own.
MC_ToInit == {Seg(TRUE, TRUE, 7, 2)}
=============================================================================
