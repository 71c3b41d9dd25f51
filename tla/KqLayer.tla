------------------------------ MODULE KqLayer ------------------------------
(***************************************************************************)
(* One transformer layer, call by call and stage by stage (kq_layer.c).    *)
(*                                                                         *)
(* kq_layer_execute copies the active slot into the staging slot, runs the *)
(* layer's operators on the staging slot, and commits by swapping the      *)
(* roles of the slots as its last assignment.  Every stage can return an   *)
(* error (a provider budget, a non-finite value, a refused import), which  *)
(* leaves the staging slot wherever the failed stage had brought it.       *)
(***************************************************************************)
EXTENDS Integers, Sequences

CONSTANTS Token,         \* token ids
          Chunk,         \* the non-empty token sequences a call may carry
          QsaCapacity,   \* token capacity of a QSA layer's caches
          ContextLength, \* limit of the PLE address stream (layer 1)
          MaxTokens      \* bound on the committed history (model only)

ASSUME LayerAssumption == /\ Chunk \subseteq Seq(Token) \ {<< >>}
                          /\ QsaCapacity \in Nat \ {0}
                          /\ ContextLength \in Nat \ {0}
                          /\ MaxTokens \in Nat

VARIABLES
    family,       \* kq_layer_family, fixed at creation
    position,     \* state->position
    active_slot,  \* state->active_slot
    slot,         \* the two copies: what each structure has folded in
    stage,        \* how far the call in progress has got
    tokens,       \* the chunk of the call in progress
    status        \* what the last finished call returned

\* History, not part of the program: what the successful calls committed, the
\* history before the last of them, and whether that one can still be undone.
VARIABLES committed, previous, undo

state == <<position, active_slot, slot>>
call  == <<stage, tokens, status>>
ghost == <<committed, previous, undo>>
vars  == <<family, state, call, ghost>>

Slots == {0, 1}

Families == {"GDN", "QSA", "PLE_GDN"}

\* One slot: the mixer (gdn or qsa), the PLE address stream, the PLE values.
\* Layers other than PLE_GDN have no PLE structures: theirs stay empty.
Copy == [mixer : Seq(Token), address : Seq(Token), value : Seq(Token)]

EmptyCopy == [mixer |-> << >>, address |-> << >>, value |-> << >>]

HasPle == family = "PLE_GDN"

\* The slot image that a history of tokens produces.
Image(history) == [mixer   |-> history,
                   address |-> IF HasPle THEN history ELSE << >>,
                   value   |-> IF HasPle THEN history ELSE << >>]

StagingSlot == 1 - active_slot

Live == slot[active_slot]

Working == slot[StagingSlot]

\* The staging slot is rewritten, the active one is never touched.
Rewrite(mixer, address, value) ==
    slot' = [slot EXCEPT ![StagingSlot] = [mixer   |-> mixer,
                                           address |-> address,
                                           value   |-> value]]
-----------------------------------------------------------------------------
Init == /\ family \in Families
        /\ position = 0
        /\ active_slot = 0
        /\ slot = [s \in Slots |-> EmptyCopy]
        /\ stage = "idle" /\ tokens = << >> /\ status = "OK"
        /\ committed = << >> /\ previous = << >> /\ undo = "none"

\* kq_layer_required_scratch_bytes refuses a QSA call beyond the cache.
FitsCapacity(chunk) ==
    family = "QSA" =>
      Len(Live.mixer) + Len(chunk) <= QsaCapacity

\* The call is entered: a refused one has touched nothing.
Begin(chunk) ==
    /\ stage = "idle"
    /\ IF FitsCapacity(chunk)
         THEN stage' = "copy" /\ tokens' = chunk /\ UNCHANGED status
         ELSE status' = "INVALID" /\ UNCHANGED <<stage, tokens>>
    /\ UNCHANGED <<family, state, ghost>>

\* Mutant: the staging mixer is taken for a copy of the active one already.
CopyMixerSkipped ==
    /\ stage = "copy"
    /\ stage' = IF HasPle THEN "copy_ple" ELSE "mix"
    /\ undo' = IF undo = "intact" THEN "scribbled" ELSE undo
    /\ UNCHANGED <<family, position, active_slot, slot, tokens, status,
                   committed, previous>>

\* copy_slot, first: export the active mixer, import it into staging.
CopyMixer ==
    /\ stage = "copy"
    /\ Rewrite(Live.mixer, Working.address, Working.value)
    /\ stage' = IF HasPle THEN "copy_ple" ELSE "mix"
    /\ undo' = IF undo = "intact" THEN "scribbled" ELSE undo
    /\ UNCHANGED <<family, position, active_slot, tokens, status,
                   committed, previous>>

\* copy_slot, then: the address stream is a struct assignment.
CopyAddress ==
    /\ stage = "copy_ple"
    /\ Rewrite(Working.mixer, Live.address, Working.value)
    /\ stage' = "copy_value"
    /\ UNCHANGED <<family, position, active_slot, tokens, status, ghost>>

\* Mutant: the value histories are taken for copied with the address stream.
CopyValueSkipped ==
    /\ stage = "copy_value"
    /\ stage' = "address"
    /\ UNCHANGED <<family, state, tokens, status, ghost>>

\* copy_slot, last: the value histories go through export and import, which
\* may fail with the address stream copied already.
CopyValue ==
    /\ stage = "copy_value"
    /\ Rewrite(Working.mixer, Working.address, Live.value)
    /\ stage' = "address"
    /\ UNCHANGED <<family, position, active_slot, tokens, status, ghost>>

\* The call returns without committing.
Return(error) == /\ stage' = "idle"
                 /\ tokens' = << >>
                 /\ status' = error

\* kq_ple_generate_prefill / _decode_step on the staging address stream: the
\* stream is advanced by the whole chunk or not at all.
Address ==
    /\ stage = "address"
    /\ IF Len(Working.address) + Len(tokens) <= ContextLength
         THEN /\ Rewrite(Working.mixer, Working.address \o tokens,
                         Working.value)
              /\ stage' = "value"
              /\ UNCHANGED <<tokens, status>>
         ELSE Return("LIMIT_EXCEEDED") /\ UNCHANGED slot
    /\ UNCHANGED <<family, position, active_slot, ghost>>

\* The intents carry the address stream's positions; the value stream accepts
\* them only if they start where it stands.
IntentsAligned ==
    Len(Working.address) - Len(tokens) = Len(Working.value)

\* kq_ple_value_execute_quantized on the staging value histories.
Value ==
    /\ stage = "value"
    /\ IF IntentsAligned
         THEN /\ Rewrite(Working.mixer, Working.address,
                         Working.value \o tokens)
              /\ stage' = "mix"
              /\ UNCHANGED <<tokens, status>>
         ELSE Return("INCOMPATIBLE") /\ UNCHANGED slot
    /\ UNCHANGED <<family, position, active_slot, ghost>>

\* Mutant: the mixer runs in place, on the active slot.
MixInPlace ==
    /\ stage = "mix"
    /\ slot' = [slot EXCEPT ![active_slot].mixer = @ \o tokens]
    /\ stage' = "moe"
    /\ UNCHANGED <<family, position, active_slot, tokens, status, ghost>>

\* kq_gdn_execute_quantized / kq_qsa_execute_quantized on the staging mixer.
Mix ==
    /\ stage = "mix"
    /\ Rewrite(Working.mixer \o tokens, Working.address, Working.value)
    /\ stage' = "moe"
    /\ UNCHANGED <<family, position, active_slot, tokens, status, ghost>>

\* The experts keep no state.  After them nothing can fail but the position
\* counter, and the call commits.
Commit ==
    /\ stage = "moe"
    /\ position' = position + Len(tokens)
    /\ active_slot' = StagingSlot
    /\ Return("OK")
    /\ committed' = committed \o tokens
    /\ previous' = committed
    /\ undo' = "intact"
    /\ UNCHANGED <<family, slot>>

\* Any stage may report an error: the function returns from where it stands.
Fail == /\ stage # "idle"
        /\ Return("FAILED")
        /\ UNCHANGED <<family, state, ghost>>

\* Mutant: the slots are swapped back and the position is forgotten.
RollbackSlotsOnly(n) ==
    /\ stage = "idle"
    /\ undo = "intact" /\ n = Len(committed) - Len(previous)
    /\ active_slot' = StagingSlot
    /\ status' = "OK"
    /\ committed' = previous
    /\ undo' = "none"
    /\ UNCHANGED <<family, position, slot, stage, tokens, previous>>

\* kq_layer_state_rollback_last.  The executor calls it at most once after a
\* commit, before another call on the layer, with that commit's token count.
RollbackLast(n) ==
    /\ stage = "idle"
    /\ undo = "intact" /\ n = Len(committed) - Len(previous)
    /\ IF n > 0 /\ position >= n
         THEN /\ active_slot' = StagingSlot
              /\ position' = position - n
              /\ status' = "OK"
         ELSE /\ status' = "INVALID"
              /\ UNCHANGED <<active_slot, position>>
    /\ committed' = previous
    /\ undo' = "none"
    /\ UNCHANGED <<family, slot, stage, tokens, previous>>

\* kq_layer_state_reset clears both slots.
Reset ==
    /\ stage = "idle"
    /\ position' = 0
    /\ active_slot' = 0
    /\ slot' = [s \in Slots |-> EmptyCopy]
    /\ status' = "OK"
    /\ committed' = << >> /\ previous' = << >> /\ undo' = "none"
    /\ UNCHANGED <<family, stage, tokens>>

Next ==
    \/ \E chunk \in Chunk : /\ Len(committed) + Len(chunk) <= MaxTokens
                            /\ Begin(chunk)
    \/ CopyMixer \/ CopyAddress \/ CopyValue
    \/ Address \/ Value \/ Mix
    \/ Commit \/ Fail
    \/ \E n \in 1..MaxTokens : RollbackLast(n)
    \/ Reset

Spec == Init /\ [][Next]_vars
-----------------------------------------------------------------------------
TypeOK ==
    /\ family \in Families
    /\ position \in Nat
    /\ active_slot \in Slots
    /\ slot \in [Slots -> Copy]
    /\ stage \in {"idle", "copy", "copy_ple", "copy_value", "address", "value",
                  "mix", "moe"}
    /\ tokens \in Seq(Token)
    /\ status \in {"OK", "INVALID", "LIMIT_EXCEEDED", "INCOMPATIBLE", "FAILED"}

\* At every moment, in a call or between calls, the active slot is exactly
\* what the successful calls folded in, in the mixer and in both PLE streams
\* alike, and the position counts it: no error path, no rollback and no
\* partial copy leaves a trace in it (kq_layer.c:684-816).
ActiveIsCommitted ==
    /\ Live = Image(committed)
    /\ position = Len(committed)

\* While the last commit can be undone, the other slot still holds the whole
\* state before it, so that a rollback restores the mixer and both PLE
\* streams together (kq_layer.c:461-473).
PreviousIntact ==
    undo = "intact" => Working = Image(previous)

\* The two PLE streams of the staging slot never drift apart: whenever the
\* value operator runs, it finds the intents at its own position.
IntentsAlwaysAligned == stage = "value" => IntentsAligned

\* The QSA caches, staging included, never grow beyond the capacity that
\* kq_layer_state_create allocated.
QsaWithinCapacity ==
    family = "QSA" =>
      \A s \in Slots : Len(slot[s].mixer) <= QsaCapacity

\* The call-by-call layer implements the atomic one: a stage is a scribble on
\* the staging slot, the commit is the whole execution.
Atomic == INSTANCE KqLayerAtomic WITH
    L <- [position    |-> position,
          active_slot |-> active_slot,
          slot        |-> [s \in Slots |-> slot[s].mixer]]

ImplementsAtomic == Atomic!Spec

\* kq_layer_internal.h:66-67: "The immediately previous slot remains intact
\* until the next successful operation on this layer."
PreviousIntactUntilNextSuccess ==
    stage = "idle" /\ undo # "none" => Working = Image(previous)
=============================================================================
