----------------------------- MODULE MCKqLayer -----------------------------
(* KqLayer for TLC: every chunk of one or two tokens. *)
EXTENDS KqLayer

CONSTANT ChunkMax       \* longest chunk of the model

MCChunk == UNION {[1..n -> Token] : n \in 1..ChunkMax}
=============================================================================
