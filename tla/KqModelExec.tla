---------------------------- MODULE KqModelExec ----------------------------
(***************************************************************************)
(* The model executor's transactions (kq_model_exec.c): a prefill or a     *)
(* decode step runs every layer in turn, selects a token, and commits the  *)
(* model position and the caller's outputs at the end; a failed decode     *)
(* step rolls the committed layers back in reverse order; a failed prefill *)
(* leaves the layers advanced and a debt, requires_reset, that the next    *)
(* prefill pays.  Sampled calls wrap the same functions around a private   *)
(* copy of the caller's RNG and publish it after the inner call returned.  *)
(*                                                                         *)
(* The library is single-threaded.  What interleaves with its state is the *)
(* failure of any stage and the progress observer, which is called between *)
(* stages.  The observer may read everything and may use the shared weight *)
(* provider; that it does not re-enter the model state is assumed.         *)
(* Calls that are refused before they touch anything are not modelled:     *)
(* their conditions are the guards.                                        *)
(***************************************************************************)
EXTENDS KqLayerSlots

CONSTANTS
    NLayers,          \* KQ_MODEL_EXEC_LAYER_COUNT
    QsaLayers,        \* the layers whose mixer has caches of bounded length
    Capacity,         \* config->context_capacity
    Padded,           \* ids at or above KQ_MODEL_EXEC_CANONICAL_TOKEN_LIMIT
    Eog,              \* the ids of kq_model_exec_token_is_eog
    MaxDraws,         \* largest value of the RNG draw counter
    NoToken,          \* what the caller's memory holds before the first call
    ObserverProvider  \* may the progress observer request expert weights
                      \* from the provider during a call?

ASSUME ExecAssumption == /\ NLayers \in Nat \ {0}
                         /\ QsaLayers \subseteq 1..NLayers
                         /\ Capacity \in Nat \ {0}
                         /\ Eog \subseteq Token
                         /\ MaxDraws \in Nat
                         /\ Padded \cap Token = {}
                         /\ NoToken \notin Token
                         /\ ObserverProvider \in BOOLEAN

VARIABLES
    position,         \* state->position
    requires_reset,   \* state->requires_reset
    layer,            \* state->layers[]
    out               \* caller memory: logits, decoded text, result, RNG

\* The call in progress: the locals of the function on the stack.
VARIABLES
    phase,            \* "idle" between calls
    kind,             \* "prefill" or "decode"
    sampled,          \* entered through the sampled_* interface
    tokens,           \* the input tokens
    done,             \* committed_layers
    staged            \* staged_result and the private RNG copy

\* History, not part of the program: the tokens of the successful calls since
\* the last reset, and the outputs the last successful call left.
VARIABLES context, published

model == <<position, requires_reset, layer>>
call  == <<phase, kind, sampled, tokens, done, staged>>
ghost == <<context, published>>
vars  == <<model, out, call, ghost>>

Layers == 1..NLayers

\* The caller's memory.  Logits are determined by the history they were
\* computed from, text and result by the selected token, the RNG by its draws.
Outputs(history, text, selected, draws) ==
    [logits  |-> history,
     decoded |-> text,
     result  |-> selected,
     draws   |-> draws]

NoOutput == Outputs(<< >>, NoToken, NoToken, 0)

NoStage == [token |-> NoToken, draws |-> 0]
-----------------------------------------------------------------------------
Init == /\ position = 0 /\ requires_reset = FALSE
        /\ layer = [l \in Layers |-> FreshLayer]
        /\ out = NoOutput
        /\ phase = "idle" /\ kind = "prefill" /\ sampled = FALSE
        /\ tokens = << >> /\ done = 0 /\ staged = NoStage
        /\ context = << >> /\ published = NoOutput

\* The locals of a call are gone when it returns.
LeaveCall == /\ phase' = "idle" /\ kind' = "prefill" /\ sampled' = FALSE
             /\ tokens' = << >> /\ done' = 0 /\ staged' = NoStage

EnterCall(k, s, chunk) ==
    /\ phase' = "embed" /\ kind' = k /\ sampled' = s
    /\ tokens' = chunk /\ done' = 0 /\ staged' = NoStage

\* kq_model_exec_state_reset
ResetState == /\ position' = 0
              /\ requires_reset' = FALSE
              /\ layer' = [l \in Layers |-> FreshLayer]

\* The layers after a prefill has paid the debt of an earlier failure.
PaidLayers == IF requires_reset THEN [l \in Layers |-> FreshLayer] ELSE layer

\* required_scratch_internal asks every QSA layer for room.
LayersAdmit(ls, n) ==
    \A l \in QsaLayers : Len(Active(ls[l])) + n <= Capacity

PrefillAdmitted(prompt) ==
    /\ Len(prompt) < Capacity
    /\ position = 0
    /\ LayersAdmit(PaidLayers, Len(prompt))
    /\ \A i \in DOMAIN prompt : prompt[i] \notin Padded

\* prefill_select_f32 up to its first provider request.
BeginPrefill(prompt, s) ==
    /\ phase = "idle"
    /\ PrefillAdmitted(prompt)
    /\ layer' = PaidLayers
    /\ requires_reset' = TRUE
    /\ EnterCall("prefill", s, prompt)
    /\ UNCHANGED <<position, out, ghost>>

\* A prefill is refused after it has paid the debt, be it inadmissible or be
\* its scratch too small, and a sampled one at position zero resets the state.
RefusePrefill(s) ==
    /\ phase = "idle"
    /\ IF s /\ position = 0
         THEN ResetState
         ELSE layer' = PaidLayers /\ requires_reset' = FALSE
              /\ UNCHANGED position
    /\ UNCHANGED <<out, call, ghost>>

\* Mutant: a sampled decode accepts the token that ended the generation.
BeginDecodePastEog(token, s) ==
    /\ phase = "idle"
    /\ ~requires_reset /\ position > 0 /\ position < Capacity
    /\ LayersAdmit(layer, 1)
    /\ EnterCall("decode", s, <<token>>)
    /\ UNCHANGED <<model, out, ghost>>

\* decode_one_select_f32 up to its first provider request.  Only the sampled
\* interface refuses an end-of-generation token as input.
BeginDecode(token, s) ==
    /\ phase = "idle"
    /\ ~requires_reset /\ position > 0 /\ position < Capacity
    /\ LayersAdmit(layer, 1)
    /\ s => token \notin Eog
    /\ EnterCall("decode", s, <<token>>)
    /\ UNCHANGED <<model, out, ghost>>

\* Mutant: a failed decode step returns as a failed greedy prefill does.
FailWithoutRollback(ls) ==
    /\ IF kind = "prefill" /\ sampled
         THEN ResetState
         ELSE layer' = ls /\ UNCHANGED <<position, requires_reset>>
    /\ LeaveCall

\* What follows the failure of a stage.  A greedy prefill returns where it
\* stands, a sampled one resets (it was at position zero), a decode step
\* starts to roll back the layers it has committed.
FailCall(ls) ==
    \/ /\ kind = "decode"
       /\ layer' = ls
       /\ phase' = "rollback"
       /\ UNCHANGED <<position, requires_reset,
                      kind, sampled, tokens, done, staged>>
    \/ /\ kind = "prefill" /\ sampled
       /\ ResetState
       /\ LeaveCall
    \/ /\ kind = "prefill" /\ ~sampled
       /\ layer' = ls
       /\ LeaveCall
       /\ UNCHANGED <<position, requires_reset>>

\* The embedding rows are read.
Embed == /\ phase = "embed"
         /\ phase' = "layers"
         /\ UNCHANGED <<model, out, kind, sampled, tokens, done, staged, ghost>>

EmbedFail == /\ phase = "embed"
             /\ FailCall(layer)
             /\ UNCHANGED <<out, ghost>>

\* The next layer executes the chunk and commits it for itself.
LayerOK ==
    /\ phase = "layers"
    /\ layer' = [layer EXCEPT ![done + 1] = ExecuteLayer(@, tokens)]
    /\ done' = done + 1
    /\ phase' = IF done + 1 = NLayers THEN "select" ELSE "layers"
    /\ UNCHANGED <<position, requires_reset, out,
                   kind, sampled, tokens, staged, ghost>>

\* Mutant: the failed layer is counted with the committed ones.
LayerFailCounted ==
    /\ phase = "layers"
    /\ kind = "decode"
    /\ \E scribble \in Scribbles(layer[done + 1], tokens) :
         layer' = [layer EXCEPT ![done + 1] = AbandonLayer(@, scribble)]
    /\ done' = done + 1
    /\ phase' = "rollback"
    /\ UNCHANGED <<position, requires_reset, out,
                   kind, sampled, tokens, staged, ghost>>

\* The next layer fails at any of its stages.
LayerFail ==
    /\ phase = "layers"
    /\ \E scribble \in Scribbles(layer[done + 1], tokens) :
         FailCall([layer EXCEPT ![done + 1] = AbandonLayer(@, scribble)])
    /\ UNCHANGED <<out, ghost>>

\* Mutant: the sampled call draws from the caller's generator, not from its copy.
SelectCallersDraw(t) ==
    /\ phase = "select"
    /\ sampled => out.draws < MaxDraws
    /\ staged' = [token |-> t,
                  draws |-> IF sampled THEN out.draws + 1 ELSE out.draws]
    /\ out' = IF kind = "prefill" /\ ~sampled
                THEN Outputs(out.logits, t, out.result, out.draws)
                ELSE [out EXCEPT !.draws = staged'.draws]
    /\ phase' = "account"
    /\ UNCHANGED <<model, kind, sampled, tokens, done, ghost>>

\* Final mix, logits, selection and decoding of the selected token t.  The
\* greedy prefill decodes straight into the caller's buffer.
Select(t) ==
    /\ phase = "select"
    /\ sampled => out.draws < MaxDraws
    /\ staged' = [token |-> t,
                  draws |-> IF sampled THEN out.draws + 1 ELSE out.draws]
    /\ out' = IF kind = "prefill" /\ ~sampled
                THEN Outputs(out.logits, t, out.result, out.draws)
                ELSE out
    /\ phase' = "account"
    /\ UNCHANGED <<model, kind, sampled, tokens, done, ghost>>

\* Mutant: the output projection writes the caller's logits.
SelectFailLogits ==
    /\ phase = "select"
    /\ out' = Outputs(Active(layer[NLayers]), out.decoded, out.result, out.draws)
    /\ FailCall(layer)
    /\ UNCHANGED ghost

\* Final mix, logits, non-finite values, a padded selection, an exhausted
\* draw counter or a too small text buffer.
SelectFail == /\ phase = "select"
              /\ FailCall(layer)
              /\ UNCHANGED <<out, ghost>>

\* The request counters are not a multiple of three matrices per expert.  The
\* layers request all three or fail, so somebody else used the provider.
AccountFail == /\ phase = "account"
               /\ ObserverProvider
               /\ FailCall(layer)
               /\ UNCHANGED <<out, ghost>>

\* Mutant: the position advances by one token, as in a decode step.
CommitOneToken ==
    /\ phase = "account"
    /\ position' = position + 1
    /\ requires_reset' = IF kind = "prefill" THEN FALSE ELSE requires_reset
    /\ out' = LET logits == Active(layer[NLayers]) IN
              IF sampled
                THEN Outputs(logits, out.decoded, out.result, out.draws)
                ELSE Outputs(logits, staged.token, staged.token, out.draws)
    /\ phase' = "publish"
    /\ UNCHANGED <<layer, kind, sampled, tokens, done, staged, ghost>>

\* The inner commit.  The layers hold the chunk already; the sampled
\* interface passed private result and text buffers but the caller's logits.
Commit ==
    /\ phase = "account"
    /\ position' = position + Len(tokens)
    /\ requires_reset' = IF kind = "prefill" THEN FALSE ELSE requires_reset
    /\ out' = LET logits == Active(layer[NLayers]) IN
              IF sampled
                THEN Outputs(logits, out.decoded, out.result, out.draws)
                ELSE Outputs(logits, staged.token, staged.token, out.draws)
    /\ phase' = "publish"
    /\ UNCHANGED <<layer, kind, sampled, tokens, done, staged, ghost>>

\* TOKEN_SELECTED is emitted and the inner function returns; the sampled
\* wrapper then copies text, RNG and result to the caller.
Publish ==
    /\ phase = "publish"
    /\ out' = IF sampled
                THEN Outputs(out.logits, staged.token, staged.token,
                             staged.draws)
                ELSE out
    /\ LeaveCall
    /\ context' = context \o tokens
    /\ published' = out'
    /\ UNCHANGED model

\* One turn of rollback_decode_layers, or its end.
RollbackStep ==
    /\ phase = "rollback"
    /\ IF done = 0
         THEN LeaveCall /\ UNCHANGED <<layer, requires_reset>>
         ELSE IF CanRollback(layer[done], 1)
           THEN /\ layer' = [layer EXCEPT ![done] = RollbackLayer(@, 1)]
                /\ done' = done - 1
                /\ UNCHANGED <<requires_reset,
                               phase, kind, sampled, tokens, staged>>
           ELSE LeaveCall /\ requires_reset' = TRUE /\ UNCHANGED layer
    /\ UNCHANGED <<position, out, ghost>>

Reset == /\ phase = "idle"
         /\ ResetState
         /\ context' = << >>
         /\ UNCHANGED <<out, call, published>>

\* Prompts are bounded so that one of each refusable kind is offered.
Prompt == UNION {[1..n -> Token \cup Padded] : n \in 1..Capacity}

\* A call in progress proceeds by itself.
InCall == \/ Embed \/ EmbedFail
          \/ LayerOK \/ LayerFail
          \/ (\E t \in Token : Select(t)) \/ SelectFail
          \/ AccountFail \/ Commit \/ Publish
          \/ RollbackStep

Next == \/ \E prompt \in Prompt, s \in BOOLEAN : BeginPrefill(prompt, s)
        \/ \E s \in BOOLEAN : RefusePrefill(s)
        \/ \E token \in Token, s \in BOOLEAN : BeginDecode(token, s)
        \/ InCall
        \/ Reset

Spec == Init /\ [][Next]_vars
-----------------------------------------------------------------------------
Output == [logits  : Seq(Token),
           decoded : Token \cup {NoToken},
           result  : Token \cup {NoToken},
           draws   : Nat]

TypeOK ==
    /\ position \in Nat
    /\ requires_reset \in BOOLEAN
    /\ layer \in [Layers -> LayerState]
    /\ out \in Output
    /\ phase \in {"idle", "embed", "layers", "select", "account", "publish",
                  "rollback"}
    /\ kind \in {"prefill", "decode"}
    /\ sampled \in BOOLEAN
    /\ tokens \in Seq(Token)
    /\ done \in 0..NLayers
    /\ staged \in [token : Token \cup {NoToken}, draws : Nat]
    /\ context \in Seq(Token)
    /\ published \in Output

\* A layer that holds exactly the given history.
Holds(l, history) == /\ Active(layer[l]) = history
                     /\ layer[l].position = Len(history)

\* Between calls, unless a failed prefill left a debt, every layer holds the
\* context of the successful calls and the public position counts it: a failed
\* decode step is undone in every layer, whichever stage of whichever layer
\* failed, and nothing of a failed prefill survives the next one.
Lockstep ==
    phase = "idle" /\ ~requires_reset =>
      /\ position = Len(context)
      /\ \A l \in Layers : Holds(l, context)

\* The debt exists at position zero only.  kq_model_exec.c:724-728 pays it
\* without touching the position, so a debt at a later position would be paid
\* into a model whose layers are empty and whose position is not.
DebtAtZero == requires_reset => position = 0 /\ context = << >>

\* While a decode step rolls back, each layer it still has to undo has the
\* pre-call history in its other slot and a position to return to, and each
\* other layer is already back: no layer's rollback can fail half-way through
\* (kq_model_exec.c:940-951 could only mark the state for reset).
RollbackSound ==
    phase = "rollback" =>
      \A l \in Layers :
        IF l <= done
          THEN /\ CanRollback(layer[l], 1)
               /\ layer[l].slot[Staging(layer[l])] = context
               /\ layer[l].position = Len(context) + 1
          ELSE Holds(l, context)

\* The histories never outgrow the caches that kq_model_exec_state_create
\* sized, in either slot of any layer, committed or scribbled.
WithinCapacity ==
    \A l \in Layers : \A s \in Slots : Len(layer[l].slot[s]) <= Capacity

\* While the progress observer is told of the selected token, the logits the
\* caller already has are those of the history in every layer.
LogitsOfLayers ==
    phase = "publish" =>
      /\ position = Len(out.logits)
      /\ \A l \in Layers : Holds(l, out.logits)

\* At that moment a greedy call has handed over all of its outputs and a sampled
\* one its logits only: text, result and random generator are still those of the
\* last success, for the wrapper copies them when the observer has returned
\* (kq_model_exec.c:1348, :1445).
AnnouncedOutputs ==
    phase = "publish" =>
      out = IF sampled
              THEN [published EXCEPT !.logits = context \o tokens]
              ELSE Outputs(context \o tokens, staged.token, staged.token,
                           published.draws)

\* docs/KQ-MODEL-EXEC-API.md:64-65: "On prefill failure caller logits, decoded
\* output, result and public position remain unchanged."  Between calls the
\* outputs are those of the last successful call.
OutputsPublished == phase = "idle" => out = published

\* The executor implements the atomic session.  Between calls the context is
\* read from the model; during a call the caller still has the one before it.
SessionContext ==
    IF phase # "idle" THEN context
    ELSE IF position = 0 THEN << >>
    ELSE SubSeq(Active(layer[NLayers]), 1, position)

Session == INSTANCE KqSession WITH
    context <- SessionContext,
    out     <- IF phase = "idle" THEN out ELSE published

ImplementsSession == Session!Spec
=============================================================================
