--------------------------- MODULE MCKqModelExec ---------------------------
(* KqModelExec for TLC. *)
EXTENDS KqModelExec
=============================================================================
