---------------------------- MODULE MCKqProgram ----------------------------
(***************************************************************************)
(* A capacity of 4 and 3 new tokens: prompts of 1 to 3 tokens fit, prompts *)
(* of 4 and 5 do not.  One layer of each family, with the program's sizes. *)
(***************************************************************************)
EXTENDS KqProgram

MCLayerKinds == <<"gdn", "ple", "qsa">>

MCBase == 2 ^ 27

MCNeed(position, n) == Required(n)
=============================================================================
