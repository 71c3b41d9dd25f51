------------------------------ MODULE MCKqPle ------------------------------
(***************************************************************************)
(* All streams of up to seven tokens over two words and the end of text, in  *)
(* all chunkings; two heads of each order over two table members of eleven *)
(* rows.  A kernel of three taps with a dilation of two looks back over    *)
(* four positions.  The hash is a product mix with distinct multipliers.   *)
(***************************************************************************)
EXTENDS KqPle

MCOrder == [h \in 0..3 |-> IF h < 2 THEN 2 ELSE 3]
MCHeadVocabSize == [h \in 0..3 |-> CASE h = 0 -> 3 [] h = 1 -> 5 [] h = 2 -> 5 [] h = 3 -> 7]
MCHeadOffset == [h \in 0..3 |-> CASE h = 0 -> 0 [] h = 1 -> 3 [] h = 2 -> 8 [] h = 3 -> 13]
MCHash(w) == IF Len(w) = 2 THEN w[1] * 13 + w[2] * 11
             ELSE w[1] * 13 + w[2] * 11 + w[3] * 17
=============================================================================
