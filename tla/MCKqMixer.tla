----------------------------- MODULE MCKqMixer -----------------------------
(***************************************************************************)
(* Streams of up to six rows, in chunks of one and three; blocks of two,   *)
(* of which two are kept: at the sixth row a third block competes.  The    *)
(* score counts the rows of the block that equal the query, so ties are    *)
(* common.                                                                 *)
(***************************************************************************)
EXTENDS KqMixer

CONSTANTS x, y

MCInput == {x, y}

MCChunk == {<<x>>, <<y>>, <<x, y, x>>, <<y, x, y>>}

MCScore(query, p, rows, b) ==
    Cardinality({o \in DOMAIN rows : rows[o] = query})
      + IF (p + b) % 3 = 0 THEN 1 ELSE 0

MCSymmetry == {[i \in MCInput |-> i], [i \in MCInput |-> IF i = x THEN y ELSE x]}
=============================================================================
