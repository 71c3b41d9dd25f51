----------------------------- MODULE KqSession -----------------------------
(***************************************************************************)
(* What the model executor promises its caller (include/kq_model_exec.h,   *)
(* "State and caller outputs commit atomically"): a context of accepted    *)
(* tokens and a set of caller outputs, changed together by each successful *)
(* call and not at all by an unsuccessful one.                             *)
(***************************************************************************)
EXTENDS Integers, Sequences

CONSTANTS Token,         \* canonical token ids
          Eog,           \* those that end a generation
          Capacity,      \* config->context_capacity
          MaxDraws,      \* the RNG draw counter's largest value
          NoToken        \* what the outputs hold before the first call

VARIABLES context,       \* the tokens the model has consumed
          out            \* the caller's logits, text, result and RNG

\* Logits are determined by the context they were computed from; the decoded
\* text and the result by the selected token; the RNG by its draw count.
NoOutput == [logits  |-> << >>,
             decoded |-> NoToken,
             result  |-> NoToken,
             draws   |-> 0]

\* The outputs of a call that ends in the given context and selects t.
Outputs(ending, t, draws) ==
    [logits |-> ending, decoded |-> t, result |-> t, draws |-> draws]

Draws(sampled) == IF sampled THEN out.draws + 1 ELSE out.draws

Init == context = << >> /\ out = NoOutput

\* A call succeeds: the context grows and every output belongs to this call.
Succeed(tokens, t, sampled) ==
    /\ Draws(sampled) <= MaxDraws
    /\ context' = context \o tokens
    /\ out' = Outputs(context', t, Draws(sampled))

Prefill == \E n \in 1..(Capacity - 1), t \in Token, sampled \in BOOLEAN :
             /\ context = << >>
             /\ \E prompt \in [1..n -> Token] : Succeed(prompt, t, sampled)

Decode == \E token, t \in Token, sampled \in BOOLEAN :
            /\ context # << >>
            /\ Len(context) < Capacity
            /\ sampled => token \notin Eog
            /\ Succeed(<<token>>, t, sampled)

Reset == context' = << >> /\ UNCHANGED out

Next == Prefill \/ Decode \/ Reset

Spec == Init /\ [][Next]_<<context, out>>
=============================================================================
