------------------------------ MODULE KqMixer ------------------------------
(***************************************************************************)
(* The token mixers behind a layer's two slots: what KqLayer abstracts to  *)
(* "the history folded in".  A GDN layer keeps a window of convolution     *)
(* inputs and a recurrent matrix (kq_gdn.c, kq_gdn_qwen38.c), a QSA layer  *)
(* keeps three caches of bounded length and attends to the best blocks of  *)
(* the past and to the tail (kq_qsa.c, kq_qsa_qwen38.c).  The layer copies *)
(* the active mixer into the staging one by export and import, runs it     *)
(* there, and swaps the slots (kq_layer.c).                                *)
(***************************************************************************)
EXTENDS Integers, Sequences, FiniteSets

CONSTANTS Input,         \* the hidden rows that can be told apart
          Chunk,         \* the sequences of them one call may carry
          Zero,          \* the content of cleared memory
          Kernel,        \* conv_kernel_size
          Capacity,      \* token capacity of a QSA state
          BlockSize,     \* block_size
          TopK,          \* block_topk
          Score(_,_,_,_),\* (query, its position, a block's raw keys, the block)
          MaxTokens      \* bound on the committed history (model only)

ASSUME MixerAssumption ==
    /\ Chunk \subseteq Seq(Input) \ {<< >>}
    /\ Zero \notin Input
    /\ Kernel \in Nat \ {0} /\ Capacity \in Nat \ {0}
    /\ BlockSize \in Nat \ {0} /\ TopK \in Nat \ {0}
    /\ MaxTokens \in Nat

\* Scores are finite numbers: a run whose score is not one is refused
\* (kq_qsa_qwen38.c:641-645).
ASSUME ScoreAssumption ==
    \A query \in Input, p, b \in 0..(Capacity - 1), rows \in [1..BlockSize -> Input] :
      Score(query, p, rows, b) \in Int

VARIABLES
    family,       \* "GDN" or "QSA", fixed at creation
    position,     \* the layer's position
    active_slot,  \* the layer's active slot
    mixer,        \* state->gdn[] or state->qsa[]
    stage,        \* how far the layer's call has got
    inputs,       \* the mixer inputs of the call
    run           \* the operator's workspace and the outputs so far

\* History, not part of the program: what the layer's successful calls folded
\* in, the same before the last of them, and whether that one can be undone.
VARIABLES committed, previous, undo

layer == <<family, position, active_slot, mixer>>
ghost == <<committed, previous, undo>>
vars  == <<layer, stage, inputs, run, ghost>>

Slots   == {0, 1}
Staging == 1 - active_slot
Live    == mixer[active_slot]
Working == mixer[Staging]

\* The recurrent matrix is the fold of the windows it was updated with.
FreshGdn == [conv        |-> [k \in 1..Kernel |-> Zero],
             recurrent   |-> << >>,
             initialized |-> FALSE]

\* Keys are rotated to their position before they are stored, values and raw
\* index keys are not.
Cleared  == [i \in 0..(Capacity - 1) |-> Zero]
FreshQsa == [length |-> 0, key |-> Cleared, value |-> Cleared, raw |-> Cleared]

Idle == [work |-> Zero, out |-> << >>]
-----------------------------------------------------------------------------
Init == /\ family \in {"GDN", "QSA"}
        /\ position = 0 /\ active_slot = 0
        /\ mixer = [s \in Slots |-> IF family = "GDN" THEN FreshGdn ELSE FreshQsa]
        /\ stage = "idle" /\ inputs = << >> /\ run = Idle
        /\ committed = << >> /\ previous = << >> /\ undo = FALSE

\* kq_layer_execute is entered; a QSA layer asks for room first.
Begin(chunk) ==
    /\ stage = "idle"
    /\ family = "QSA" => Live.length + Len(chunk) <= Capacity
    /\ stage' = "copy" /\ inputs' = chunk
    /\ UNCHANGED <<layer, run, ghost>>

\* kq_gdn_state_import_f32 and kq_qsa_state_import_f32: what they refuse.
ImportAccepted(image) ==
    IF family = "GDN"
      THEN ~image.initialized => image.conv = FreshGdn.conv /\ image.recurrent = << >>
      ELSE image.length <= Capacity

\* Only the rows within the length travel; those beyond it stay what they were.
Overlay(cache, image, length) ==
    [i \in DOMAIN cache |-> IF i < length THEN image[i] ELSE cache[i]]

Import(old, image) ==
    IF family = "GDN" THEN image
    ELSE [length |-> image.length,
          key    |-> Overlay(old.key, image.key, image.length),
          value  |-> Overlay(old.value, image.value, image.length),
          raw    |-> Overlay(old.raw, image.raw, image.length)]

Return == stage' = "idle" /\ inputs' = << >> /\ run' = Idle

\* kq_layer_copy_slot.
Copy ==
    /\ stage = "copy"
    /\ IF ImportAccepted(Live)
         THEN /\ mixer' = [mixer EXCEPT ![Staging] = Import(@, Live)]
              /\ stage' = "copied" /\ undo' = FALSE
              /\ UNCHANGED <<inputs, run>>
         ELSE Return /\ UNCHANGED <<mixer, undo>>
    /\ UNCHANGED <<family, position, active_slot, committed, previous>>

\* The operator starts: a GDN one works on a copy of its state, a QSA one
\* collects the rows to append.
BeginRun ==
    /\ stage = "copied"
    /\ family = "QSA" => Working.length + Len(inputs) <= Capacity
    /\ run' = [work |-> IF family = "GDN" THEN Working ELSE << >>, out |-> << >>]
    /\ stage' = "run"
    /\ UNCHANGED <<layer, inputs, ghost>>

\* The input the next step of the run consumes.
NextInput == inputs[Len(run.out) + 1]

\* One token of the GDN operator: the window is shifted, the matrix updated,
\* and the output read from it.
GdnToken ==
    /\ stage = "run" /\ family = "GDN" /\ Len(run.out) < Len(inputs)
    /\ LET window == Append(Tail(run.work.conv), NextInput)
           matrix == Append(run.work.recurrent, window)
       IN  run' = [work |-> [run.work EXCEPT !.conv = window, !.recurrent = matrix],
                   out  |-> Append(run.out, matrix)]
    /\ UNCHANGED <<layer, stage, inputs, ghost>>
-----------------------------------------------------------------------------
\* Mutant: the row at the boundary is read from the cache.
ReadCache(kind, pending, i) ==
    IF i <= Working.length THEN Working[kind][i] ELSE pending[i - Working.length + 1][kind]

\* kq_qsa_read_combined: a row of the cache, or one this run will append.
ReadCombined(kind, pending, i) ==
    IF i < Working.length THEN Working[kind][i] ELSE pending[i - Working.length + 1][kind]

Better(score, a, b) == score[a] > score[b] \/ (score[a] = score[b] /\ a < b)

\* A candidate is inserted before the first chosen block it is better than,
\* and what is pushed beyond the limit falls out.
Insert(score, limit, chosen, c) ==
    LET place == CHOOSE n \in 1..(Len(chosen) + 1) :
                   /\ n = Len(chosen) + 1 \/ Better(score, c, chosen[n])
                   /\ \A m \in 1..(n - 1) : ~Better(score, c, chosen[m])
        longer == SubSeq(chosen, 1, place - 1) \o <<c>> \o SubSeq(chosen, place, Len(chosen))
    IN  IF Len(longer) <= limit THEN longer ELSE SubSeq(longer, 1, limit)

\* kq_qsa_select_blocks over the blocks 0 .. count - 1.
SelectBlocks(score, count, limit) ==
    LET after[c \in 0..count] == IF c = 0 THEN << >>
                                 ELSE Insert(score, limit, after[c - 1], c - 1)
    IN  after[count]

\* Mutant: the last token of the tail is the query's own, taken as read.
TailBefore(p) == [i \in 1..(((p + 1) % BlockSize) - 1) |-> ((p + 1) \div BlockSize) * BlockSize + i - 1]

\* The tokens after the last complete block.
TailOf(p) == [i \in 1..((p + 1) % BlockSize) |-> ((p + 1) \div BlockSize) * BlockSize + i - 1]

\* The tokens of the chosen blocks, block after block, then the tail.
Positions(chosen, p) ==
    [i \in 1..(Len(chosen) * BlockSize) |->
        chosen[(i - 1) \div BlockSize + 1] * BlockSize + ((i - 1) % BlockSize)] \o TailOf(p)

\* One token of the QSA operator: its rows become pending, the complete blocks
\* are scored, the best are selected, and keys and values of the selected
\* tokens are read.
QsaToken ==
    /\ stage = "run" /\ family = "QSA" /\ Len(run.out) < Len(inputs)
    /\ LET p == Working.length + Len(run.out)
           pending == Append(run.work, [key   |-> <<p, NextInput>>,
                                        value |-> NextInput,
                                        raw   |-> NextInput])
           complete == (p + 1) \div BlockSize
           score == [b \in 0..(complete - 1) |->
                       Score(NextInput, p,
                             [o \in 1..BlockSize |->
                                ReadCombined("raw", pending, b * BlockSize + o - 1)], b)]
           chosen == SelectBlocks(score, complete, IF complete < TopK THEN complete ELSE TopK)
           at == Positions(chosen, p)
       IN  run' = [work |-> pending,
                   out  |-> Append(run.out,
                              [i \in DOMAIN at |-> <<ReadCombined("key", pending, at[i]),
                                                     ReadCombined("value", pending, at[i])>>])]
    /\ UNCHANGED <<layer, stage, inputs, ghost>>

\* The pending rows are appended to each of the caches.
AppendRows(state) ==
    LET end == state.length + Len(run.work)
        Appended(kind) ==
          [i \in DOMAIN state[kind] |->
             IF i \in state.length..(end - 1)
               THEN run.work[i - state.length + 1][kind] ELSE state[kind][i]]
    IN  [length |-> end, key |-> Appended("key"), value |-> Appended("value"),
         raw |-> Appended("raw")]

\* Mutant: the state is written but stays marked as it was.
AdvancedUninitialised(state) ==
    IF family = "GDN" THEN [run.work EXCEPT !.initialized = state.initialized]
    ELSE AppendRows(state)

\* What the operator writes back at its end.
Advanced(state) ==
    IF family = "GDN" THEN [run.work EXCEPT !.initialized = TRUE]
    ELSE AppendRows(state)

\* The run ends, and its state is committed to the staging mixer.
CommitRun ==
    /\ stage = "run" /\ Len(run.out) = Len(inputs)
    /\ mixer' = [mixer EXCEPT ![Staging] = Advanced(@)]
    /\ stage' = "mixed" /\ run' = Idle
    /\ UNCHANGED <<family, position, active_slot, inputs, ghost>>

\* The experts succeed, and the layer swaps the slots.
Commit ==
    /\ stage = "mixed"
    /\ position' = position + Len(inputs)
    /\ active_slot' = Staging
    /\ committed' = committed \o inputs /\ previous' = committed /\ undo' = TRUE
    /\ Return
    /\ UNCHANGED <<family, mixer>>

\* Any stage may fail: projections, numeric checks, the experts.
Fail == /\ stage # "idle" /\ Return /\ UNCHANGED <<layer, ghost>>

\* kq_layer_state_rollback_last, as the executor calls it.
RollbackLast ==
    /\ stage = "idle" /\ undo
    /\ active_slot' = Staging
    /\ position' = position - (Len(committed) - Len(previous))
    /\ committed' = previous /\ undo' = FALSE
    /\ UNCHANGED <<family, mixer, stage, inputs, run, previous>>

\* Mutant: one slot is reset.
ResetMixerActive(s) ==
    IF s # active_slot THEN mixer[s]
    ELSE IF family = "GDN" THEN FreshGdn ELSE [mixer[s] EXCEPT !.length = 0]

\* kq_gdn_state_reset clears; kq_qsa_state_reset leaves the rows where they are.
ResetMixer(s) ==
    IF family = "GDN" THEN FreshGdn ELSE [mixer[s] EXCEPT !.length = 0]

\* kq_layer_state_reset
Reset ==
    /\ stage = "idle"
    /\ mixer' = [s \in Slots |-> ResetMixer(s)]
    /\ position' = 0 /\ active_slot' = 0
    /\ committed' = << >> /\ previous' = << >> /\ undo' = FALSE
    /\ UNCHANGED <<family, stage, inputs, run>>

Next ==
    \/ \E chunk \in Chunk : Len(committed) + Len(chunk) <= MaxTokens /\ Begin(chunk)
    \/ Copy \/ BeginRun \/ GdnToken \/ QsaToken \/ CommitRun
    \/ Commit \/ Fail \/ RollbackLast \/ Reset

Spec == Init /\ [][Next]_vars
-----------------------------------------------------------------------------
\* The window of the convolution at position p of a stream.
WindowAt(stream, p) ==
    [k \in 1..Kernel |-> LET i == p - Kernel + k IN IF i < 1 THEN Zero ELSE stream[i]]

\* The blocks by the document (docs/QSA-OPERATOR-CONTRACT.md, "Index
\* projection, state, and block selection"): by descending score, then by id.
BestBlocks(score, count) ==
    [n \in 1..(IF count < TopK THEN count ELSE TopK) |->
        CHOOSE b \in 0..(count - 1) :
          Cardinality({c \in 0..(count - 1) : \/ score[c] > score[b]
                                               \/ (score[c] = score[b] /\ c < b)}) = n - 1]

\* The keys and values that position p attends to, read off the whole stream.
AttendedAt(stream, p) ==
    LET complete == (p + 1) \div BlockSize
        score == [b \in 0..(complete - 1) |->
                    Score(stream[p + 1], p,
                          [o \in 1..BlockSize |-> stream[b * BlockSize + o]], b)]
        best == BestBlocks(score, complete)
        tokens == [i \in 1..(Len(best) * BlockSize) |->
                     best[(i - 1) \div BlockSize + 1] * BlockSize + ((i - 1) % BlockSize)]
                  \o [i \in 1..((p + 1) - complete * BlockSize) |-> complete * BlockSize + i - 1]
    IN  [i \in DOMAIN tokens |-> <<<<tokens[i], stream[tokens[i] + 1]>>, stream[tokens[i] + 1]>>]

\* The output of each token is that of a computation over the whole stream,
\* whatever calls it was cut into, and whatever failed, was rolled back or
\* reset in between: rows left over from those are never read
\* (docs/QSA-OPERATOR-CONTRACT.md, "Prefill, decode, and state").
OutputsOfStream ==
    \A n \in DOMAIN run.out :
      LET stream == committed \o inputs
          p == Len(committed) + n
      IN  run.out[n] = IF family = "GDN"
                         THEN [i \in 1..p |-> WindowAt(stream, i)]
                         ELSE AttendedAt(stream, p - 1)

\* Attention is causal, sees no token twice, keeps to the token budget and the
\* tail, and as long as the visible past is within the budget it sees all of
\* it: the count check of kq_qsa_qwen38.c:666-670 never fires.
AttentionWithinBudget ==
    family = "QSA" =>
      \A n \in DOMAIN run.out :
        LET p == Len(committed) + n - 1
            seen == {run.out[n][i][1][1] : i \in DOMAIN run.out[n]}
        IN  /\ seen \subseteq 0..p /\ seen # {}
            /\ Cardinality(seen) = Len(run.out[n])
            /\ Len(run.out[n]) <= TopK * BlockSize + BlockSize - 1
            /\ p + 1 <= TopK * BlockSize => seen = 0..p

\* The copy at the beginning of a call is never refused: a state that says it
\* is uninitialised is zero, and no length exceeds the other slot's capacity.
CopyAccepted == ImportAccepted(Live)

\* What a mixer has folded in.
Folded(state) ==
    IF family = "GDN"
      THEN [i \in DOMAIN state.recurrent |-> state.recurrent[i][Kernel]]
      ELSE [i \in 1..state.length |-> state.value[i - 1]]

\* The mixers implement the atomic layer: to the executor a slot is the history
\* it has folded in.
Atomic == INSTANCE KqLayerAtomic WITH
    Token <- Input,
    L     <- [position    |-> position,
              active_slot |-> active_slot,
              slot        |-> [s \in Slots |-> Folded(mixer[s])]]

ImplementsAtomic == Atomic!Spec
=============================================================================
