--------------------------- MODULE MCNewsPipeline ---------------------------
(* Small instances of NewsPipeline for TLC. *)
EXTENDS NewsPipeline

\* Reporter 1 writes two reports, reporter 2 one.
MCMaxPieces == <<4, 2>>
=============================================================================
