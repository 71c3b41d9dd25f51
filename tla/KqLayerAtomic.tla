--------------------------- MODULE KqLayerAtomic ---------------------------
(***************************************************************************)
(* What one layer promises to the model executor: every call either folds  *)
(* its whole chunk into the layer, or leaves the position and the active   *)
(* slot as they were.  It is the abstract specification that KqLayer       *)
(* implements, and the interface that KqModelExec is written against.      *)
(***************************************************************************)
EXTENDS KqLayerSlots

CONSTANT Chunk          \* the token sequences one call may carry

VARIABLE L              \* a LayerState

Init == L = FreshLayer

Execute == \E tokens \in Chunk : L' = ExecuteLayer(L, tokens)

Abandon == \E tokens \in Chunk :
             \E scribble \in Scribbles(L, tokens) :
               L' = AbandonLayer(L, scribble)

Rollback == \E tokens \in Chunk :
              /\ CanRollback(L, Len(tokens))
              /\ L' = RollbackLayer(L, Len(tokens))

Reset == L' = FreshLayer

Next == Execute \/ Abandon \/ Rollback \/ Reset

Spec == Init /\ [][Next]_L
=============================================================================
