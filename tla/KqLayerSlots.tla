--------------------------- MODULE KqLayerSlots ---------------------------
(***************************************************************************)
(* The double-buffered state of one transformer layer, as data.            *)
(*                                                                         *)
(* struct kq_layer_state (kq_layer_internal.h) owns two copies of every    *)
(* recurrent structure of the layer (GDN or QSA mixer, and for layer 1 the *)
(* two PLE histories) and an active_slot index.  What a slot holds is a    *)
(* function of the tokens folded into it since the last reset, so a slot   *)
(* is represented by that sequence of tokens.                              *)
(*                                                                         *)
(* The operators below are the whole-call effects of the layer API on that *)
(* record.  KqModelExec composes many layers with them; KqLayer models one *)
(* layer call step by step and implements them (KqLayerAtomic).            *)
(***************************************************************************)
EXTENDS Integers, Sequences

CONSTANT Token          \* the token ids that the caller may pass

Slots == {0, 1}

\* The fields of struct kq_layer_state that outlive a call.
LayerState == [position    : Nat,
               active_slot : Slots,
               slot        : [Slots -> Seq(Token)]]

Staging(L) == 1 - L.active_slot

Active(L)  == L.slot[L.active_slot]

\* kq_layer_state_create and kq_layer_state_reset clear both slots.
FreshLayer == [position    |-> 0,
               active_slot |-> 0,
               slot        |-> [s \in Slots |-> << >>]]

\* A successful kq_layer_execute: the staging slot becomes the active slot's
\* history extended by the chunk, and the two swap roles.
ExecuteLayer(L, tokens) ==
    [position    |-> L.position + Len(tokens),
     active_slot |-> Staging(L),
     slot        |-> [L.slot EXCEPT ![Staging(L)] = Active(L) \o tokens]]

\* What an unsuccessful kq_layer_execute may leave in the staging slot: it was
\* refused before the copy, after the copy, or after the mixer had advanced it.
Scribbles(L, tokens) == {L.slot[Staging(L)], Active(L), Active(L) \o tokens}

AbandonLayer(L, scribble) ==
    [position    |-> L.position,
     active_slot |-> L.active_slot,
     slot        |-> [L.slot EXCEPT ![Staging(L)] = scribble]]

\* kq_layer_state_rollback_last: the only check is that enough tokens were
\* committed, the slot that becomes active again is not examined.
CanRollback(L, n) == n > 0 /\ L.position >= n

RollbackLayer(L, n) ==
    [position    |-> L.position - n,
     active_slot |-> Staging(L),
     slot        |-> L.slot]
=============================================================================
