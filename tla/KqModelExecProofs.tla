------------------------- MODULE KqModelExecProofs -------------------------
(***************************************************************************)
(* Proofs about the model executor, for any number of layers, any context  *)
(* capacity, any vocabulary and an observer that may use the provider.     *)
(*                                                                         *)
(* The inductive invariant says what the layers hold in the middle of a    *)
(* call: the layers that were executed hold the context extended by the    *)
(* call's chunk, with the context itself in their other slot; the others   *)
(* hold the context.  What holds between calls follows from it.            *)
(*                                                                         *)
(* With a progress observer that leaves the weight provider alone, the     *)
(* executor also implements the atomic session.  For that the invariant is *)
(* extended by what is known of a call while it runs: that its input was   *)
(* one the session admits, and how far the caller's memory is ahead of     *)
(* what was published.                                                     *)
(***************************************************************************)
EXTENDS KqModelExec, SequenceTheorems, TLAPS

\* A layer that has executed the chunk of the call and can still be undone.
Extended(l) ==
    /\ Active(layer[l]) = context \o tokens
    /\ layer[l].position = Len(context) + Len(tokens)
    /\ layer[l].slot[Staging(layer[l])] = context

\* Between calls.
AtRest ==
    /\ phase = "idle" /\ requires_reset => context = << >>
    /\ phase = "idle" /\ ~requires_reset => \A l \in Layers : Holds(l, context)
    /\ phase # "publish" => position = Len(context)

\* During a call.
InFlight ==
    phase # "idle" =>
      /\ \A l \in Layers : IF l <= done THEN Extended(l) ELSE Holds(l, context)
      /\ phase = "embed" => done = 0
      /\ phase = "layers" => done < NLayers
      /\ phase \in {"select", "account", "publish"} => done = NLayers
      /\ phase = "publish" => /\ ~requires_reset
                              /\ position = Len(context) + Len(tokens)
                              /\ out.logits = context \o tokens
      /\ phase = "rollback" => kind = "decode"
      /\ Len(context) + Len(tokens) <= Capacity
      /\ kind = "decode" => ~requires_reset /\ Len(tokens) = 1
      /\ kind = "prefill" => /\ context = << >>
                             /\ phase # "publish" => requires_reset
      /\ phase \in {"account", "publish"} => staged.token \in Token

IInv == /\ TypeOK
        /\ AtRest
        /\ InFlight
        /\ WithinCapacity

-----------------------------------------------------------------------------
(* The operations on one layer. *)

\* A fresh layer is a layer, and holds the empty history.
LEMMA FreshLayerFacts ==
    /\ FreshLayer \in LayerState
    /\ Active(FreshLayer) = << >>
    /\ FreshLayer.position = 0
    /\ \A s \in Slots : FreshLayer.slot[s] = << >>
BY EmptySeq DEF FreshLayer, LayerState, Active, Slots

\* The active and the staging slot are two different slots.
LEMMA SlotFacts ==
    ASSUME NEW L \in LayerState
    PROVE  /\ L.active_slot \in Slots /\ Staging(L) \in Slots
           /\ L.active_slot # Staging(L)
           /\ L.position \in Nat
           /\ Active(L) \in Seq(Token)
           /\ L.slot[Staging(L)] \in Seq(Token)
BY DEF LayerState, Slots, Staging, Active

\* An execution extends the active history and keeps the old one in reserve.
LEMMA ExecuteLayerFacts ==
    ASSUME NEW L \in LayerState, NEW chunk \in Seq(Token)
    PROVE  /\ ExecuteLayer(L, chunk) \in LayerState
           /\ Active(ExecuteLayer(L, chunk)) = Active(L) \o chunk
           /\ ExecuteLayer(L, chunk).position = L.position + Len(chunk)
           /\ ExecuteLayer(L, chunk).slot[Staging(ExecuteLayer(L, chunk))]
                = Active(L)
           /\ \A s \in Slots : ExecuteLayer(L, chunk).slot[s]
                                 \in {Active(L) \o chunk, Active(L)}
<1> DEFINE E == ExecuteLayer(L, chunk)
<1>1. /\ Active(L) \o chunk \in Seq(Token)
      /\ Len(chunk) \in Nat
  BY SlotFacts, ConcatProperties, LenProperties
<1>2. /\ E.position = L.position + Len(chunk)
      /\ E.active_slot = Staging(L)
      /\ E.slot = [L.slot EXCEPT ![Staging(L)] = Active(L) \o chunk]
  BY DEF ExecuteLayer
<1>3. L.slot \in [Slots -> Seq(Token)]
  BY DEF LayerState
<1>4. E.slot \in [Slots -> Seq(Token)]
  BY <1>1, <1>2, <1>3, SlotFacts
<1>5. E \in LayerState
  BY <1>1, <1>2, <1>4, SlotFacts DEF LayerState, ExecuteLayer
<1>6. Active(E) = Active(L) \o chunk
  BY <1>2, <1>3, SlotFacts DEF Active
<1>7. Staging(E) = L.active_slot
  BY <1>2, SlotFacts DEF Staging, Slots
<1>8. E.slot[Staging(E)] = Active(L)
  BY <1>2, <1>3, <1>7, SlotFacts DEF Active
<1>9. \A s \in Slots : s = Staging(E) \/ s = E.active_slot
  BY <1>5, SlotFacts DEF Slots, Staging
<1> QED
  BY <1>2, <1>5, <1>6, <1>8, <1>9 DEF Active

\* Whatever a failed execution leaves in the staging slot, the active slot
\* and the position are as before.
LEMMA AbandonLayerFacts ==
    ASSUME NEW L \in LayerState, NEW chunk \in Seq(Token),
           NEW scribble \in Scribbles(L, chunk)
    PROVE  /\ AbandonLayer(L, scribble) \in LayerState
           /\ Active(AbandonLayer(L, scribble)) = Active(L)
           /\ AbandonLayer(L, scribble).position = L.position
           /\ \A s \in Slots : AbandonLayer(L, scribble).slot[s]
                                 \in {L.slot[s], Active(L) \o chunk, Active(L)}
<1> DEFINE A == AbandonLayer(L, scribble)
<1>1. scribble \in Seq(Token)
  BY SlotFacts, ConcatProperties DEF Scribbles
<1>2. /\ A.position = L.position
      /\ A.active_slot = L.active_slot
      /\ A.slot = [L.slot EXCEPT ![Staging(L)] = scribble]
  BY DEF AbandonLayer, LayerState
<1>3. L.slot \in [Slots -> Seq(Token)]
  BY DEF LayerState
<1>4. A \in LayerState
  BY <1>1, <1>3, SlotFacts DEF LayerState, AbandonLayer
<1>5. Active(A) = Active(L)
  BY <1>2, <1>3, SlotFacts DEF Active
<1>6. \A s \in Slots : A.slot[s] \in {L.slot[s], scribble}
  BY <1>2, <1>3, SlotFacts
<1>7. scribble \in {L.slot[Staging(L)], Active(L), Active(L) \o chunk}
  BY DEF Scribbles
<1>8. \A s \in Slots : s # Staging(L) => A.slot[s] = L.slot[s]
  BY <1>2, <1>3
<1>9. A.slot[Staging(L)] = scribble
  BY <1>2, <1>3, SlotFacts
<1> QED
  BY <1>2, <1>4, <1>5, <1>7, <1>8, <1>9

\* A rollback makes the reserve history active again.
LEMMA RollbackLayerFacts ==
    ASSUME NEW L \in LayerState, NEW n \in Nat, CanRollback(L, n)
    PROVE  /\ RollbackLayer(L, n) \in LayerState
           /\ Active(RollbackLayer(L, n)) = L.slot[Staging(L)]
           /\ RollbackLayer(L, n).position = L.position - n
           /\ RollbackLayer(L, n).slot = L.slot
<1>1. L.position - n \in Nat
  BY SlotFacts DEF CanRollback
<1>2. /\ RollbackLayer(L, n).active_slot = Staging(L)
      /\ RollbackLayer(L, n).position = L.position - n
      /\ RollbackLayer(L, n).slot = L.slot
  BY DEF RollbackLayer, LayerState
<1>3. RollbackLayer(L, n) \in LayerState
  BY <1>1, SlotFacts DEF RollbackLayer, LayerState
<1> QED
  BY <1>2, <1>3 DEF Active
-----------------------------------------------------------------------------
(* The inductive invariant. *)

\* What the variables hold initially and when a call has returned.
LEMMA InitialValues ==
    /\ NoStage \in [token : Token \cup {NoToken}, draws : Nat]
    /\ NoOutput \in Output
    /\ << >> \in Seq(Token)
    /\ 0 \in 0..NLayers
    /\ [l \in Layers |-> FreshLayer] \in [Layers -> LayerState]
<1>1. NoStage \in [token : Token \cup {NoToken}, draws : Nat]
  BY DEF NoStage
<1>2. NoOutput \in Output
  BY EmptySeq DEF NoOutput, Outputs, Output
<1> QED
  BY <1>1, <1>2, EmptySeq, ExecAssumption, FreshLayerFacts

LEMMA InitInv == Init => IInv
<1> SUFFICES ASSUME Init PROVE IInv
  OBVIOUS
<1> USE FreshLayerFacts, EmptySeq, ExecAssumption DEF Init
<1>1. \A l \in Layers : layer[l] = FreshLayer
  OBVIOUS
<1>2. TypeOK
  BY InitialValues DEF TypeOK
<1>3. AtRest
  BY <1>1 DEF AtRest, Holds
<1>4. InFlight
  BY DEF InFlight
<1>5. WithinCapacity
  BY <1>1 DEF WithinCapacity
<1> QED
  BY <1>2, <1>3, <1>4, <1>5 DEF IInv

\* A failed stage keeps the invariant, provided that it kept the active
\* history of every layer and all of the layers the call has committed.
LEMMA FailCallInv ==
    ASSUME IInv,
           phase \in {"embed", "layers", "select", "account"},
           NEW ls \in [Layers -> LayerState],
           \A l \in Layers : /\ Active(ls[l]) = Active(layer[l])
                             /\ ls[l].position = layer[l].position
                             /\ l <= done => ls[l] = layer[l]
                             /\ \A s \in Slots : Len(ls[l].slot[s]) <= Capacity,
           FailCall(ls),
           UNCHANGED <<out, ghost>>
    PROVE  IInv'
<1> USE DEF IInv, ghost
<1>1. CASE kind = "decode"
  <2>1. /\ layer' = ls /\ phase' = "rollback"
        /\ UNCHANGED <<position, requires_reset, kind, sampled, tokens,
                       done, staged, out, context, published>>
    BY <1>1 DEF FailCall
  <2>2. TypeOK'
    BY <2>1 DEF TypeOK
  <2>3. AtRest'
    BY <2>1 DEF AtRest
  <2>4. InFlight'
    BY <1>1, <2>1 DEF InFlight, Extended, Holds
  <2>5. WithinCapacity'
    BY <2>1 DEF WithinCapacity
  <2> QED
    BY <2>2, <2>3, <2>4, <2>5
<1>2. CASE kind = "prefill" /\ sampled
  <2>1. /\ ResetState /\ LeaveCall
        /\ UNCHANGED <<out, context, published>>
    BY <1>2 DEF FailCall
  <2>2. context = << >>
    BY <1>2 DEF InFlight
  <2>3. \A l \in Layers : layer'[l] = FreshLayer
    BY <2>1 DEF ResetState
  <2>4. TypeOK'
    BY <2>1, InitialValues DEF TypeOK, ResetState, LeaveCall
  <2>5. AtRest'
    BY <2>1, <2>2, <2>3, FreshLayerFacts, EmptySeq
    DEF AtRest, ResetState, LeaveCall, Holds
  <2>6. InFlight'
    BY <2>1 DEF InFlight, LeaveCall
  <2>7. WithinCapacity'
    BY <2>3, FreshLayerFacts, EmptySeq, ExecAssumption DEF WithinCapacity
  <2> QED
    BY <2>4, <2>5, <2>6, <2>7
<1>3. CASE kind = "prefill" /\ ~sampled
  <2>1. /\ layer' = ls /\ LeaveCall
        /\ UNCHANGED <<position, requires_reset, out, context, published>>
    BY <1>3 DEF FailCall
  <2>2. requires_reset /\ context = << >> /\ phase # "publish"
    BY <1>3 DEF InFlight
  <2>3. TypeOK'
    BY <2>1, InitialValues DEF TypeOK, LeaveCall
  <2>4. AtRest'
    BY <2>1, <2>2 DEF AtRest, LeaveCall
  <2>5. InFlight'
    BY <2>1 DEF InFlight, LeaveCall
  <2>6. WithinCapacity'
    BY <2>1 DEF WithinCapacity
  <2> QED
    BY <2>3, <2>4, <2>5, <2>6
<1> QED
  BY <1>1, <1>2, <1>3 DEF TypeOK

\* The step proof: one step per action of Next.
LEMMA StepInv == IInv /\ [Next]_vars => IInv'
<1> SUFFICES ASSUME IInv, [Next]_vars PROVE IInv'
  OBVIOUS
<1> USE DEF IInv
<1>1. ASSUME NEW prompt \in Prompt, NEW s \in BOOLEAN, BeginPrefill(prompt, s)
      PROVE  IInv'
  <2>1. prompt \in Seq(Token) /\ Len(prompt) <= Capacity
    <3>1. PICK n \in 1..Capacity : prompt \in [1..n -> Token \cup Padded]
      BY DEF Prompt
    <3>2. \A i \in 1..n : prompt[i] \in Token
      BY <1>1, <3>1 DEF BeginPrefill, PrefillAdmitted
    <3>3. prompt \in Seq(Token) /\ Len(prompt) = n
      BY <3>1, <3>2, ExecAssumption
    <3> QED
      BY <3>1, <3>3, ExecAssumption
  <2>2. /\ phase = "idle" /\ position = 0
        /\ layer' = PaidLayers /\ requires_reset' = TRUE
        /\ phase' = "embed" /\ kind' = "prefill" /\ sampled' = s
        /\ tokens' = prompt /\ done' = 0 /\ staged' = NoStage
        /\ UNCHANGED <<position, out, context, published>>
    BY <1>1 DEF BeginPrefill, PrefillAdmitted, EnterCall, ghost
  <2>3. context = << >>
    BY <2>2, EmptySeq DEF AtRest, TypeOK
  <2>4. \A l \in Layers : layer'[l] = FreshLayer \/ layer'[l] = layer[l]
    BY <2>2 DEF PaidLayers
  <2>5. \A l \in Layers : /\ Active(layer'[l]) = context
                          /\ layer'[l].position = Len(context)
    <3>1. CASE requires_reset
      BY <2>2, <2>3, <3>1, FreshLayerFacts, EmptySeq DEF PaidLayers
    <3>2. CASE ~requires_reset
      BY <2>2, <3>2 DEF PaidLayers, AtRest, Holds
    <3> QED
      BY <3>1, <3>2
  <2>6. TypeOK'
    BY <2>1, <2>2, InitialValues DEF TypeOK, PaidLayers
  <2>7. AtRest'
    BY <2>2 DEF AtRest
  <2>8. InFlight'
    <3>1. Len(context) + Len(prompt) <= Capacity
      BY <2>1, <2>3, EmptySeq, LenProperties, ExecAssumption
    <3> QED
      BY <2>2, <2>3, <2>5, <3>1 DEF InFlight, Holds, Layers
  <2>9. WithinCapacity'
    BY <2>2, <2>4, FreshLayerFacts, EmptySeq, ExecAssumption
    DEF WithinCapacity
  <2> QED
    BY <2>6, <2>7, <2>8, <2>9
<1>2. ASSUME NEW s \in BOOLEAN, RefusePrefill(s)
      PROVE  IInv'
  <2>1. /\ phase = "idle" /\ requires_reset' = FALSE
        /\ UNCHANGED <<out, phase, kind, sampled, tokens, done, staged,
                       context, published>>
    BY <1>2 DEF RefusePrefill, ResetState, call, ghost
  <2>2. \/ layer' = [l \in Layers |-> FreshLayer] /\ position' = 0
           /\ position = 0
        \/ layer' = PaidLayers /\ position' = position
    BY <1>2 DEF RefusePrefill, ResetState
  <2>3. position = Len(context)
    BY <2>1 DEF AtRest
  <2>4. position = 0 => context = << >>
    BY <2>3, EmptySeq DEF TypeOK
  <2>5. position' = position /\ (requires_reset => context = << >>)
    BY <2>1, <2>2 DEF AtRest
  <2>6. \/ layer' = layer /\ ~requires_reset
        \/ layer' = [l \in Layers |-> FreshLayer] /\ context = << >>
    <3>1. CASE layer' = [l \in Layers |-> FreshLayer] /\ position = 0
      BY <2>4, <3>1
    <3>2. CASE layer' = PaidLayers /\ requires_reset
      BY <2>5, <3>2 DEF PaidLayers
    <3>3. CASE layer' = PaidLayers /\ ~requires_reset
      BY <3>3 DEF PaidLayers
    <3> QED
      BY <2>2, <3>1, <3>2, <3>3
  <2>7. TypeOK'
    BY <2>1, <2>5, <2>6, InitialValues DEF TypeOK
  <2>8. AtRest'
    <3>1. CASE layer' = layer /\ ~requires_reset
      BY <2>1, <2>5, <3>1 DEF AtRest, Holds
    <3>2. CASE layer' = [l \in Layers |-> FreshLayer] /\ context = << >>
      BY <2>1, <2>3, <2>5, <3>2, FreshLayerFacts, EmptySeq DEF AtRest, Holds
    <3> QED
      BY <2>6, <3>1, <3>2
  <2>9. InFlight'
    BY <2>1 DEF InFlight
  <2>10. WithinCapacity'
    BY <2>6, FreshLayerFacts, EmptySeq, ExecAssumption DEF WithinCapacity
  <2> QED
    BY <2>7, <2>8, <2>9, <2>10
<1>3. ASSUME NEW token \in Token, NEW s \in BOOLEAN, BeginDecode(token, s)
      PROVE  IInv'
  <2>1. /\ phase = "idle" /\ ~requires_reset /\ position < Capacity
        /\ phase' = "embed" /\ kind' = "decode" /\ sampled' = s
        /\ tokens' = <<token>> /\ done' = 0 /\ staged' = NoStage
        /\ UNCHANGED <<position, requires_reset, layer, out,
                       context, published>>
    BY <1>3 DEF BeginDecode, EnterCall, model, ghost
  <2>2. <<token>> \in Seq(Token) /\ Len(<<token>>) = 1
    OBVIOUS
  <2>3. TypeOK'
    BY <2>1, <2>2, InitialValues DEF TypeOK
  <2>4. AtRest'
    BY <2>1 DEF AtRest
  <2>5. InFlight'
    <3>1. \A l \in Layers : Holds(l, context)
      BY <2>1 DEF AtRest
    <3>2. Len(context) + Len(<<token>>) <= Capacity
      BY <2>1, <2>2, ExecAssumption DEF AtRest, TypeOK
    <3> QED
      BY <2>1, <2>2, <3>1, <3>2 DEF InFlight, Holds, Layers
  <2>6. WithinCapacity'
    BY <2>1 DEF WithinCapacity
  <2> QED
    BY <2>3, <2>4, <2>5, <2>6
<1>4. ASSUME Embed PROVE IInv'
  <2>1. /\ phase = "embed" /\ phase' = "layers"
        /\ UNCHANGED <<position, requires_reset, layer, out, kind, sampled,
                       tokens, done, staged, context, published>>
    BY <1>4 DEF Embed, model, ghost
  <2>2. TypeOK'
    BY <2>1 DEF TypeOK
  <2>3. AtRest'
    BY <2>1 DEF AtRest
  <2>4. InFlight'
    BY <2>1, ExecAssumption DEF InFlight, Extended, Holds
  <2>5. WithinCapacity'
    BY <2>1 DEF WithinCapacity
  <2> QED
    BY <2>2, <2>3, <2>4, <2>5
<1>5. ASSUME EmbedFail \/ SelectFail \/ AccountFail PROVE IInv'
  <2>1. /\ phase \in {"embed", "select", "account"}
        /\ FailCall(layer)
        /\ UNCHANGED <<out, ghost>>
    BY <1>5 DEF EmbedFail, SelectFail, AccountFail
  <2>2. layer \in [Layers -> LayerState]
    BY DEF TypeOK
  <2> QED
    BY <2>1, <2>2, FailCallInv DEF WithinCapacity
<1>6. ASSUME LayerOK PROVE IInv'
  <2> DEFINE k == done + 1
             E == ExecuteLayer(layer[k], tokens)
  <2>1. /\ phase = "layers"
        /\ layer' = [layer EXCEPT ![k] = E]
        /\ done' = k
        /\ phase' = IF k = NLayers THEN "select" ELSE "layers"
        /\ UNCHANGED <<position, requires_reset, out, kind, sampled, tokens,
                       staged, context, published>>
    BY <1>6 DEF LayerOK, ghost
  <2>2. /\ done \in Nat /\ k \in Layers /\ NLayers \in Nat
        /\ layer \in [Layers -> LayerState] /\ layer[k] \in LayerState
        /\ tokens \in Seq(Token)
    BY <2>1, ExecAssumption DEF TypeOK, InFlight, Layers
  <2>3. /\ Active(layer[k]) = context
        /\ layer[k].position = Len(context)
    BY <2>1, <2>2 DEF InFlight, Holds
  <2>4. /\ E \in LayerState
        /\ Active(E) = context \o tokens
        /\ E.position = Len(context) + Len(tokens)
        /\ E.slot[Staging(E)] = context
        /\ \A s \in Slots : E.slot[s] \in {context \o tokens, context}
    BY <2>2, <2>3, ExecuteLayerFacts
  <2>5. /\ layer' \in [Layers -> LayerState]
        /\ layer'[k] = E
        /\ \A l \in Layers : l # k => layer'[l] = layer[l]
    BY <2>1, <2>2, <2>4
  <2>6. TypeOK'
    BY <2>1, <2>2, <2>5, ExecAssumption DEF TypeOK, Layers
  <2>7. AtRest'
    BY <2>1 DEF AtRest
  <2>8. InFlight'
    <3>1. \A l \in Layers : IF l <= done' THEN Extended(l)' ELSE Holds(l, context)'
      <4> SUFFICES ASSUME NEW l \in Layers
                   PROVE  IF l <= k THEN Extended(l)' ELSE Holds(l, context)'
        BY <2>1
      <4>1. CASE l = k
        BY <2>1, <2>2, <2>4, <2>5, <4>1 DEF Extended
      <4>2. CASE l # k
        <5>1. layer'[l] = layer[l]
          BY <2>5, <4>2
        <5>2. l <= k <=> l <= done
          BY <2>2, <4>2 DEF Layers
        <5> QED
          BY <2>1, <5>1, <5>2 DEF InFlight, Extended, Holds
      <4> QED
        BY <4>1, <4>2
    <3>2. done' < NLayers \/ done' = NLayers
      BY <2>1, <2>2 DEF Layers
    <3> QED
      BY <2>1, <2>2, <3>1, <3>2 DEF InFlight
  <2>9. WithinCapacity'
    <3>1. /\ Len(context \o tokens) <= Capacity
          /\ Len(context) <= Capacity
      <4>1. Len(context) + Len(tokens) <= Capacity
        BY <2>1 DEF InFlight
      <4>2. context \in Seq(Token)
        BY DEF TypeOK
      <4> QED
        BY <2>2, <4>1, <4>2, ConcatProperties, LenProperties, ExecAssumption
    <3> QED
      BY <2>4, <2>5, <3>1 DEF WithinCapacity
  <2> QED
    BY <2>6, <2>7, <2>8, <2>9
<1>7. ASSUME LayerFail PROVE IInv'
  <2> DEFINE k == done + 1
  <2>1. phase = "layers" /\ UNCHANGED <<out, ghost>>
    BY <1>7 DEF LayerFail
  <2>2. PICK scribble \in Scribbles(layer[k], tokens) :
          FailCall([layer EXCEPT ![k] = AbandonLayer(layer[k], scribble)])
    BY <1>7 DEF LayerFail
  <2> DEFINE A  == AbandonLayer(layer[k], scribble)
             ls == [layer EXCEPT ![k] = A]
  <2>3. /\ done \in Nat /\ k \in Layers
        /\ layer \in [Layers -> LayerState] /\ layer[k] \in LayerState
        /\ tokens \in Seq(Token) /\ context \in Seq(Token)
    BY <2>1, ExecAssumption DEF TypeOK, InFlight, Layers
  <2>4. /\ A \in LayerState
        /\ Active(A) = Active(layer[k])
        /\ A.position = layer[k].position
        /\ \A s \in Slots : A.slot[s] \in {layer[k].slot[s],
                                           Active(layer[k]) \o tokens,
                                           Active(layer[k])}
    BY <2>3, AbandonLayerFacts
  <2>5. /\ ls \in [Layers -> LayerState]
        /\ ls[k] = A
        /\ \A l \in Layers : l # k => ls[l] = layer[l]
    BY <2>3, <2>4
  <2>6. Active(layer[k]) = context
    BY <2>1, <2>3 DEF InFlight, Holds
  <2>7. /\ Len(context \o tokens) <= Capacity
        /\ Len(context) <= Capacity
    <3>1. Len(context) + Len(tokens) <= Capacity
      BY <2>1 DEF InFlight
    <3> QED
      BY <2>3, <3>1, ConcatProperties, LenProperties, ExecAssumption
  <2>8. ASSUME NEW l \in Layers
        PROVE  /\ Active(ls[l]) = Active(layer[l])
               /\ ls[l].position = layer[l].position
               /\ l <= done => ls[l] = layer[l]
               /\ \A s \in Slots : Len(ls[l].slot[s]) <= Capacity
    <3>1. CASE l = k
      <4>1. ls[l] = A /\ ~(l <= done)
        BY <2>3, <2>5, <3>1
      <4>2. \A s \in Slots : Len(A.slot[s]) <= Capacity
        <5>1. \A s \in Slots : Len(layer[k].slot[s]) <= Capacity
          BY <2>3 DEF WithinCapacity
        <5> QED
          BY <2>4, <2>6, <2>7, <5>1
      <4> QED
        BY <2>4, <3>1, <4>1, <4>2
    <3>2. CASE l # k
      BY <2>5, <3>2 DEF WithinCapacity
    <3> QED
      BY <3>1, <3>2
  <2>9. FailCall(ls)
    BY <2>2
  <2> HIDE DEF ls
  <2> QED
    BY <2>1, <2>5, <2>8, <2>9, FailCallInv
<1>8. ASSUME NEW t \in Token, Select(t) PROVE IInv'
  <2>1. /\ phase = "select" /\ phase' = "account"
        /\ staged' = [token |-> t,
                      draws |-> IF sampled THEN out.draws + 1 ELSE out.draws]
        /\ out' = out \/ out' = Outputs(out.logits, t, out.result, out.draws)
        /\ UNCHANGED <<position, requires_reset, layer, kind, sampled, tokens,
                       done, context, published>>
    BY <1>8 DEF Select, model, ghost
  <2>2. out' \in Output
    BY <2>1 DEF TypeOK, Output, Outputs
  <2>3. staged' \in [token : Token \cup {NoToken}, draws : Nat]
        /\ staged'.token \in Token
    BY <2>1 DEF TypeOK, Output
  <2>4. TypeOK'
    BY <2>1, <2>2, <2>3 DEF TypeOK
  <2>5. AtRest'
    BY <2>1 DEF AtRest
  <2>6. InFlight'
    BY <2>1, <2>3 DEF InFlight, Extended, Holds
  <2>7. WithinCapacity'
    BY <2>1 DEF WithinCapacity
  <2> QED
    BY <2>4, <2>5, <2>6, <2>7
<1>9. ASSUME Commit PROVE IInv'
  <2> DEFINE logits == Active(layer[NLayers])
  <2>1. /\ phase = "account" /\ phase' = "publish"
        /\ position' = position + Len(tokens)
        /\ requires_reset' = IF kind = "prefill" THEN FALSE ELSE requires_reset
        /\ \/ out' = Outputs(logits, out.decoded, out.result, out.draws)
           \/ out' = Outputs(logits, staged.token, staged.token, out.draws)
        /\ UNCHANGED <<layer, kind, sampled, tokens, done, staged,
                       context, published>>
    BY <1>9 DEF Commit, ghost
  <2>2. /\ NLayers \in Layers /\ done = NLayers
        /\ context \in Seq(Token) /\ tokens \in Seq(Token)
    BY <2>1, ExecAssumption DEF Layers, InFlight, TypeOK
  <2>3. logits = context \o tokens
    BY <2>1, <2>2 DEF InFlight, Extended, Layers
  <2>4. out' \in Output /\ out'.logits = context \o tokens
    <3>1. /\ logits \in Seq(Token)
          /\ out \in Output /\ staged.token \in Token
      BY <2>1, <2>2, <2>3, ConcatProperties DEF TypeOK, InFlight
    <3>2. /\ out.decoded \in Token \cup {NoToken}
          /\ out.result \in Token \cup {NoToken}
          /\ out.draws \in Nat
      BY <3>1 DEF Output
    <3> HIDE DEF logits
    <3>3. CASE out' = Outputs(logits, out.decoded, out.result, out.draws)
      BY <2>3, <3>1, <3>2, <3>3 DEF Output, Outputs
    <3>4. CASE out' = Outputs(logits, staged.token, staged.token, out.draws)
      BY <2>3, <3>1, <3>2, <3>4 DEF Output, Outputs
    <3> QED
      BY <2>1, <3>3, <3>4
  <2>5. ~requires_reset'
    BY <2>1 DEF InFlight, TypeOK
  <2>6. position' = Len(context) + Len(tokens)
    BY <2>1 DEF AtRest
  <2>7. TypeOK'
    <3>1. position' \in Nat
      BY <2>2, <2>6, LenProperties
    <3>2. requires_reset' \in BOOLEAN
      BY <2>1 DEF TypeOK
    <3> QED
      BY <2>1, <2>4, <3>1, <3>2 DEF TypeOK
  <2>8. AtRest'
    BY <2>1 DEF AtRest
  <2>9. InFlight'
    BY <2>1, <2>4, <2>5, <2>6 DEF InFlight, Extended, Holds
  <2>10. WithinCapacity'
    BY <2>1 DEF WithinCapacity
  <2> QED
    BY <2>7, <2>8, <2>9, <2>10
<1>10. ASSUME Publish PROVE IInv'
  <2>1. /\ phase = "publish"
        /\ \/ out' = out
           \/ out' = Outputs(out.logits, staged.token, staged.token,
                             staged.draws)
        /\ phase' = "idle" /\ kind' = "prefill" /\ sampled' = FALSE
        /\ tokens' = << >> /\ done' = 0 /\ staged' = NoStage
        /\ context' = context \o tokens
        /\ published' = out'
        /\ UNCHANGED <<position, requires_reset, layer>>
    BY <1>10 DEF Publish, LeaveCall, model
  <2>2. /\ context' \in Seq(Token)
        /\ Len(context') = Len(context) + Len(tokens)
    BY <2>1, ConcatProperties DEF TypeOK
  <2>3. out' \in Output
    BY <2>1 DEF TypeOK, InFlight, Output, Outputs
  <2>4. /\ ~requires_reset /\ done = NLayers
        /\ position = Len(context) + Len(tokens)
    BY <2>1 DEF InFlight
  <2>5. \A l \in Layers : Holds(l, context)'
    <3>1. \A l \in Layers : Extended(l)
      BY <2>1, <2>4, ExecAssumption DEF InFlight, Layers
    <3> QED
      BY <2>1, <2>2, <3>1 DEF Extended, Holds
  <2>6. TypeOK'
    BY <2>1, <2>2, <2>3, InitialValues DEF TypeOK
  <2>7. AtRest'
    BY <2>1, <2>2, <2>4, <2>5 DEF AtRest
  <2>8. InFlight'
    BY <2>1 DEF InFlight
  <2>9. WithinCapacity'
    BY <2>1 DEF WithinCapacity
  <2> QED
    BY <2>6, <2>7, <2>8, <2>9
<1>11. ASSUME RollbackStep PROVE IInv'
  <2>1. /\ phase = "rollback" /\ kind = "decode" /\ ~requires_reset
        /\ Len(tokens) = 1
        /\ UNCHANGED <<position, out, context, published>>
    BY <1>11 DEF RollbackStep, InFlight, ghost
  <2>2. CASE done = 0
    <3>1. /\ phase' = "idle" /\ kind' = "prefill" /\ sampled' = FALSE
          /\ tokens' = << >> /\ done' = 0 /\ staged' = NoStage
          /\ UNCHANGED <<layer, requires_reset>>
      BY <1>11, <2>2 DEF RollbackStep, LeaveCall
    <3>2. \A l \in Layers : Holds(l, context)
      BY <2>1, <2>2, ExecAssumption DEF InFlight, Layers
    <3>3. TypeOK'
      BY <2>1, <3>1, InitialValues DEF TypeOK
    <3>4. AtRest'
      BY <2>1, <3>1, <3>2 DEF AtRest, Holds
    <3>5. InFlight'
      BY <3>1 DEF InFlight
    <3>6. WithinCapacity'
      BY <3>1 DEF WithinCapacity
    <3> QED
      BY <3>3, <3>4, <3>5, <3>6
  <2>3. CASE done # 0
    <3> DEFINE R == RollbackLayer(layer[done], 1)
    <3>1. /\ done \in Layers /\ done - 1 \in 0..NLayers
          /\ layer \in [Layers -> LayerState] /\ layer[done] \in LayerState
          /\ context \in Seq(Token) /\ Len(context) \in Nat
      BY <2>3, ExecAssumption, LenProperties DEF TypeOK, Layers
    <3>2. /\ layer[done].position = Len(context) + 1
          /\ layer[done].slot[Staging(layer[done])] = context
      BY <2>1, <3>1 DEF InFlight, Extended, Layers
    <3>3. CanRollback(layer[done], 1)
      BY <3>1, <3>2 DEF CanRollback
    <3>4. /\ layer' = [layer EXCEPT ![done] = R]
          /\ done' = done - 1
          /\ UNCHANGED <<requires_reset, phase, kind, sampled, tokens, staged>>
      BY <1>11, <2>3, <3>3 DEF RollbackStep
    <3>5. /\ R \in LayerState
          /\ Active(R) = context
          /\ R.position = Len(context)
          /\ R.slot = layer[done].slot
      BY <3>1, <3>2, <3>3, RollbackLayerFacts
    <3>6. /\ layer' \in [Layers -> LayerState]
          /\ layer'[done] = R
          /\ \A l \in Layers : l # done => layer'[l] = layer[l]
      BY <3>1, <3>4, <3>5
    <3>7. TypeOK'
      BY <2>1, <3>1, <3>4, <3>6 DEF TypeOK
    <3>8. AtRest'
      BY <2>1, <3>4 DEF AtRest
    <3>9. InFlight'
      <4>1. \A l \in Layers :
              IF l <= done' THEN Extended(l)' ELSE Holds(l, context)'
        <5> SUFFICES ASSUME NEW l \in Layers
                     PROVE  IF l <= done - 1 THEN Extended(l)'
                                             ELSE Holds(l, context)'
          BY <3>4
        <5>1. CASE l = done
          BY <2>1, <3>1, <3>5, <3>6, <5>1 DEF Holds, Layers
        <5>2. CASE l # done
          <6>1. layer'[l] = layer[l]
            BY <3>6, <5>2
          <6>2. l <= done - 1 <=> l <= done
            BY <3>1, <5>2 DEF Layers
          <6> QED
            BY <2>1, <3>4, <6>1, <6>2 DEF InFlight, Extended, Holds
        <5> QED
          BY <5>1, <5>2
      <4> QED
        BY <2>1, <3>4, <4>1 DEF InFlight
    <3>10. WithinCapacity'
      BY <3>1, <3>5, <3>6 DEF WithinCapacity
    <3> QED
      BY <3>7, <3>8, <3>9, <3>10
  <2> QED
    BY <2>2, <2>3
<1>12. ASSUME Reset PROVE IInv'
  <2>1. /\ phase = "idle"
        /\ position' = 0 /\ requires_reset' = FALSE
        /\ layer' = [l \in Layers |-> FreshLayer]
        /\ context' = << >>
        /\ UNCHANGED <<out, phase, kind, sampled, tokens, done, staged,
                       published>>
    BY <1>12 DEF Reset, ResetState, call
  <2>2. \A l \in Layers : layer'[l] = FreshLayer
    BY <2>1
  <2>3. TypeOK'
    BY <2>1, InitialValues DEF TypeOK
  <2>4. AtRest'
    BY <2>1, <2>2, FreshLayerFacts, EmptySeq DEF AtRest, Holds
  <2>5. InFlight'
    BY <2>1 DEF InFlight
  <2>6. WithinCapacity'
    BY <2>2, FreshLayerFacts, EmptySeq, ExecAssumption DEF WithinCapacity
  <2> QED
    BY <2>3, <2>4, <2>5, <2>6
<1>13. ASSUME UNCHANGED vars PROVE IInv'
  <2>1. UNCHANGED <<position, requires_reset, layer, out, phase, kind, sampled,
                    tokens, done, staged, context, published>>
    BY <1>13 DEF vars, model, call, ghost
  <2>2. TypeOK'
    BY <2>1 DEF TypeOK
  <2>3. AtRest' /\ InFlight' /\ WithinCapacity'
    BY <2>1 DEF AtRest, InFlight, WithinCapacity, Extended, Holds
  <2> QED
    BY <2>2, <2>3
<1> QED
  <2>1. CASE \/ \E prompt \in Prompt, s \in BOOLEAN : BeginPrefill(prompt, s)
             \/ \E s \in BOOLEAN : RefusePrefill(s)
    BY <1>1, <1>2, <2>1
  <2>2. CASE \E token \in Token, s \in BOOLEAN : BeginDecode(token, s)
    BY <1>3, <2>2
  <2>3. CASE InCall
    BY <1>4, <1>5, <1>6, <1>7, <1>8, <1>9, <1>10, <1>11, <2>3 DEF InCall
  <2> QED
    BY <1>12, <1>13, <2>1, <2>2, <2>3 DEF Next

\* The inductive invariant holds throughout every behaviour of the executor.
THEOREM Invariance == Spec => []IInv
BY InitInv, StepInv, PTL DEF Spec
-----------------------------------------------------------------------------
(* What follows from it. *)

\* Every variable keeps its type: no position goes negative, no token that is
\* not a canonical one enters a layer or the caller's outputs.
THEOREM TypeCorrect == Spec => []TypeOK
<1>1. IInv => TypeOK
  BY DEF IInv
<1> QED
  BY <1>1, Invariance, PTL

\* Between calls all layers hold the context of the successful calls, however
\* many decode steps failed and wherever they failed.
THEOREM LayersInLockstep == Spec => []Lockstep
<1>1. IInv => Lockstep
  BY DEF IInv, AtRest, Lockstep
<1> QED
  BY <1>1, Invariance, PTL

\* A state that must be reset is always at position zero.
THEOREM DebtOnlyAtZero == Spec => []DebtAtZero
<1>1. IInv => DebtAtZero
  BY EmptySeq DEF IInv, AtRest, InFlight, DebtAtZero, TypeOK
<1> QED
  BY <1>1, Invariance, PTL

\* The rollback of a decode step finds in every layer the state to return to.
THEOREM RollbackIsSound == Spec => []RollbackSound
<1>1. ASSUME IInv, phase = "rollback", NEW l \in Layers
      PROVE  IF l <= done
               THEN /\ CanRollback(layer[l], 1)
                    /\ layer[l].slot[Staging(layer[l])] = context
                    /\ layer[l].position = Len(context) + 1
               ELSE Holds(l, context)
  <2>1. Len(tokens) = 1 /\ Len(context) \in Nat
    BY <1>1, LenProperties DEF IInv, InFlight, TypeOK
  <2>2. CASE l <= done
    BY <1>1, <2>1, <2>2 DEF IInv, InFlight, Extended, CanRollback
  <2>3. CASE ~(l <= done)
    BY <1>1, <2>3 DEF IInv, InFlight
  <2> QED
    BY <2>2, <2>3
<1>2. IInv => RollbackSound
  BY <1>1 DEF RollbackSound
<1> QED
  BY <1>2, Invariance, PTL

\* No slot of any layer outgrows the context capacity.
THEOREM CapacityRespected == Spec => []WithinCapacity
<1>1. IInv => WithinCapacity
  BY DEF IInv
<1> QED
  BY <1>1, Invariance, PTL

\* The logits that the observer finds at TOKEN_SELECTED belong to the history
\* that every layer holds at that moment.
THEOREM ObserverFindsLogits == Spec => []LogitsOfLayers
<1>1. ASSUME IInv, phase = "publish" PROVE LogitsOfLayers
  <2>1. /\ out.logits = context \o tokens
        /\ position = Len(context) + Len(tokens)
        /\ done = NLayers
    BY <1>1 DEF IInv, InFlight
  <2>2. Len(out.logits) = Len(context) + Len(tokens)
    BY <1>1, <2>1, ConcatProperties DEF IInv, TypeOK
  <2>3. \A l \in Layers : Extended(l)
    BY <1>1, <2>1, ExecAssumption DEF IInv, InFlight, Layers
  <2> QED
    BY <2>1, <2>2, <2>3 DEF LogitsOfLayers, Extended, Holds
<1>2. IInv => LogitsOfLayers
  BY <1>1 DEF LogitsOfLayers
<1> QED
  BY <1>2, Invariance, PTL
-----------------------------------------------------------------------------
(* The atomic session. *)

\* The call in progress is one that the session admits.
CallInv ==
    phase # "idle" =>
      /\ kind = "prefill" => Len(tokens) \in 1..(Capacity - 1)
      /\ kind = "decode" => /\ context # << >>
                            /\ Len(context) < Capacity
                            /\ \E token \in Token :
                                 /\ tokens = <<token>>
                                 /\ sampled => token \notin Eog

\* The caller's memory against what the last successful call published.
OutInv ==
    /\ published.draws <= MaxDraws
    /\ phase \notin {"account", "publish"} => out = published
    /\ phase = "account" => /\ sampled => out = published
                            /\ out.draws = published.draws
    /\ phase \in {"account", "publish"} =>
         /\ staged.draws = IF sampled THEN published.draws + 1
                                      ELSE published.draws
         /\ staged.draws <= MaxDraws
    /\ AnnouncedOutputs

RInv == IInv /\ CallInv /\ OutInv

LEMMA RInitInv == Init => RInv
<1> SUFFICES ASSUME Init PROVE RInv
  OBVIOUS
<1>1. IInv
  BY InitInv
<1>2. CallInv
  BY DEF Init, CallInv
<1>3. OutInv
  BY ExecAssumption DEF Init, OutInv, AnnouncedOutputs, NoOutput, Outputs
<1> QED
  BY <1>1, <1>2, <1>3 DEF RInv

\* A failed stage, reached with the caller's memory untouched.
LEMMA FailCallR ==
    ASSUME RInv, NEW ls, FailCall(ls), out = published,
           phase # "idle", UNCHANGED <<out, ghost>>
    PROVE  CallInv' /\ OutInv'
<1>1. \/ /\ phase' = "rollback" /\ kind' = "decode" /\ kind = "decode"
         /\ UNCHANGED <<sampled, tokens, context>>
      \/ phase' = "idle"
  BY DEF FailCall, LeaveCall, ghost
<1>2. CallInv'
  BY <1>1 DEF RInv, CallInv
<1>3. OutInv'
  BY <1>1 DEF RInv, OutInv, AnnouncedOutputs, ghost
<1> QED
  BY <1>2, <1>3

LEMMA RStepInv == ~ObserverProvider /\ RInv /\ [Next]_vars => RInv'
<1> SUFFICES ASSUME ~ObserverProvider, RInv, [Next]_vars PROVE RInv'
  OBVIOUS
<1>0. IInv'
  BY StepInv DEF RInv
<1>1. ASSUME NEW prompt \in Prompt, NEW s \in BOOLEAN, BeginPrefill(prompt, s)
      PROVE  CallInv' /\ OutInv'
  <2>1. PICK n \in 1..Capacity : prompt \in [1..n -> Token \cup Padded]
    BY DEF Prompt
  <2>2. Len(prompt) \in 1..(Capacity - 1)
    BY <1>1, <2>1, ExecAssumption DEF BeginPrefill, PrefillAdmitted
  <2>3. /\ phase = "idle" /\ phase' = "embed" /\ kind' = "prefill"
        /\ tokens' = prompt /\ UNCHANGED <<out, published>>
    BY <1>1 DEF BeginPrefill, EnterCall, ghost
  <2> QED
    BY <2>2, <2>3 DEF RInv, CallInv, OutInv, AnnouncedOutputs
<1>2. ASSUME NEW s \in BOOLEAN, RefusePrefill(s)
      PROVE  CallInv' /\ OutInv'
  <2>1. /\ phase = "idle" /\ phase' = "idle"
        /\ UNCHANGED <<out, published>>
    BY <1>2 DEF RefusePrefill, call, ghost
  <2> QED
    BY <2>1 DEF RInv, CallInv, OutInv, AnnouncedOutputs
<1>3. ASSUME NEW token \in Token, NEW s \in BOOLEAN, BeginDecode(token, s)
      PROVE  CallInv' /\ OutInv'
  <2>1. /\ phase = "idle" /\ phase' = "embed" /\ kind' = "decode"
        /\ tokens' = <<token>> /\ sampled' = s
        /\ UNCHANGED <<out, context, published>>
        /\ position > 0 /\ position < Capacity /\ (s => token \notin Eog)
    BY <1>3 DEF BeginDecode, EnterCall, ghost
  <2>2. context # << >> /\ Len(context) < Capacity
    BY <2>1, EmptySeq DEF RInv, IInv, AtRest
  <2> QED
    BY <2>1, <2>2 DEF RInv, CallInv, OutInv, AnnouncedOutputs
<1>4. ASSUME Embed \/ LayerOK PROVE CallInv' /\ OutInv'
  <2>1. /\ phase \in {"embed", "layers"}
        /\ phase' \in {"layers", "select"}
        /\ UNCHANGED <<kind, sampled, tokens, context, out, published>>
    BY <1>4 DEF Embed, LayerOK, ghost
  <2> QED
    BY <2>1 DEF RInv, CallInv, OutInv, AnnouncedOutputs
<1>5. ASSUME EmbedFail \/ LayerFail \/ SelectFail PROVE CallInv' /\ OutInv'
  <2>1. /\ phase \in {"embed", "layers", "select"}
        /\ UNCHANGED <<out, ghost>>
        /\ \E ls : FailCall(ls)
    BY <1>5 DEF EmbedFail, LayerFail, SelectFail
  <2>2. out = published
    BY <2>1 DEF RInv, OutInv
  <2> QED
    BY <2>1, <2>2, FailCallR
<1>6. ASSUME AccountFail PROVE FALSE
  BY <1>6 DEF AccountFail
<1>7. ASSUME NEW t \in Token, Select(t) PROVE CallInv' /\ OutInv'
  <2>1. /\ phase = "select" /\ phase' = "account"
        /\ UNCHANGED <<kind, sampled, tokens, context, published>>
        /\ sampled => out.draws < MaxDraws
        /\ staged'.draws = IF sampled THEN out.draws + 1 ELSE out.draws
        /\ sampled => out' = out
        /\ out' = out \/ out' = Outputs(out.logits, t, out.result, out.draws)
    BY <1>7 DEF Select, ghost
  <2>2. out = published
    BY <2>1 DEF RInv, OutInv
  <2>3. out'.draws = out.draws
    BY <2>1 DEF Outputs
  <2>4. /\ sampled \in BOOLEAN /\ out.draws \in Nat /\ MaxDraws \in Nat
        /\ out.draws <= MaxDraws
    BY <2>2, ExecAssumption DEF RInv, IInv, TypeOK, Output, OutInv
  <2>5. staged'.draws <= MaxDraws
    BY <2>1, <2>4
  <2>6. CallInv'
    BY <2>1 DEF RInv, CallInv
  <2>7. OutInv'
    BY <2>1, <2>2, <2>3, <2>4, <2>5 DEF OutInv, AnnouncedOutputs
  <2> QED
    BY <2>6, <2>7
<1>8. ASSUME Commit PROVE CallInv' /\ OutInv'
  <2>1. /\ phase = "account" /\ phase' = "publish"
        /\ UNCHANGED <<kind, sampled, tokens, staged, context, published>>
        /\ out' = IF sampled
                    THEN Outputs(Active(layer[NLayers]), out.decoded,
                                 out.result, out.draws)
                    ELSE Outputs(Active(layer[NLayers]), staged.token,
                                 staged.token, out.draws)
    BY <1>8 DEF Commit, ghost
  <2>2. Active(layer[NLayers]) = context \o tokens
    <3>1. NLayers \in Layers /\ NLayers <= done
      BY <2>1, ExecAssumption DEF Layers, RInv, IInv, InFlight
    <3> QED
      BY <2>1, <3>1 DEF RInv, IInv, InFlight, Extended
  <2>3. out.draws = published.draws
    BY <2>1 DEF RInv, OutInv
  <2>4. CallInv'
    BY <2>1 DEF RInv, CallInv
  <2>5. AnnouncedOutputs'
    <3>1. CASE sampled
      <4>1. out = published /\ published \in Output
        BY <2>1, <3>1 DEF RInv, IInv, TypeOK, OutInv
      <4> QED
        BY <2>1, <2>2, <3>1, <4>1 DEF AnnouncedOutputs, Output, Outputs
    <3>2. CASE ~sampled
      BY <2>1, <2>2, <2>3, <3>2 DEF AnnouncedOutputs
    <3> QED
      BY <3>1, <3>2
  <2>6. OutInv'
    BY <2>1, <2>5 DEF RInv, OutInv
  <2> QED
    BY <2>4, <2>6
<1>9. ASSUME Publish PROVE CallInv' /\ OutInv'
  <2>1. /\ phase = "publish" /\ phase' = "idle" /\ published' = out'
        /\ sampled => out' = Outputs(out.logits, staged.token, staged.token,
                                     staged.draws)
        /\ ~sampled => out' = out
    BY <1>9 DEF Publish, LeaveCall
  <2>2. out'.draws = staged.draws
    BY <2>1 DEF RInv, IInv, TypeOK, OutInv, AnnouncedOutputs, Outputs
  <2> QED
    BY <2>1, <2>2 DEF RInv, CallInv, OutInv, AnnouncedOutputs
<1>10. ASSUME RollbackStep PROVE CallInv' /\ OutInv'
  <2>1. /\ phase = "rollback" /\ UNCHANGED <<out, context, published>>
        /\ \/ phase' = "idle"
           \/ UNCHANGED <<phase, kind, sampled, tokens>>
    BY <1>10 DEF RollbackStep, LeaveCall, ghost
  <2> QED
    BY <2>1 DEF RInv, CallInv, OutInv, AnnouncedOutputs
<1>11. ASSUME Reset PROVE CallInv' /\ OutInv'
  <2>1. phase = "idle" /\ phase' = "idle" /\ UNCHANGED <<out, published>>
    BY <1>11 DEF Reset, call
  <2> QED
    BY <2>1 DEF RInv, CallInv, OutInv, AnnouncedOutputs
<1>12. ASSUME UNCHANGED vars PROVE CallInv' /\ OutInv'
  BY <1>12 DEF vars, model, call, ghost, RInv, CallInv, OutInv, AnnouncedOutputs
<1> QED
  <2>1. CASE \/ \E prompt \in Prompt, s \in BOOLEAN : BeginPrefill(prompt, s)
             \/ \E s \in BOOLEAN : RefusePrefill(s)
    BY <1>0, <1>1, <1>2, <2>1 DEF RInv
  <2>2. CASE \E token \in Token, s \in BOOLEAN : BeginDecode(token, s)
    BY <1>0, <1>3, <2>2 DEF RInv
  <2>3. CASE InCall
    BY <1>0, <1>4, <1>5, <1>6, <1>7, <1>8, <1>9, <1>10, <2>3 DEF InCall, RInv
  <2> QED
    BY <1>0, <1>11, <1>12, <2>1, <2>2, <2>3 DEF Next, RInv
-----------------------------------------------------------------------------
(* Under the invariant, the mapping is the history of the program. *)

Mapped == /\ SessionContext = context
          /\ (IF phase = "idle" THEN out ELSE published) = published

LEMMA MappedState == RInv => Mapped
<1> SUFFICES ASSUME RInv PROVE Mapped
  OBVIOUS
<1> USE DEF Mapped
<1>1. CASE phase # "idle"
  BY <1>1 DEF SessionContext
<1>2. CASE phase = "idle"
  <2>1. /\ position = Len(context) /\ context \in Seq(Token)
        /\ requires_reset => context = << >>
        /\ ~requires_reset => \A l \in Layers : Holds(l, context)
    BY <1>2 DEF RInv, IInv, AtRest, TypeOK
  <2>2. out = published
    BY <1>2 DEF RInv, OutInv
  <2>3. CASE position = 0
    BY <1>2, <2>1, <2>2, <2>3, EmptySeq DEF SessionContext
  <2>4. CASE position # 0
    <3>1. ~requires_reset
      BY <2>1, <2>4, EmptySeq
    <3>2. Active(layer[NLayers]) = context
      BY <2>1, <3>1, ExecAssumption DEF Layers, Holds
    <3>3. SubSeq(context, 1, Len(context)) = context
      <4>1. \A i \in 1..Len(context) : context[i] \in Token
        BY <2>1, ElementOfSeq
      <4>2. Len(context) \in Nat
        BY <2>1, LenProperties
      <4>3. /\ SubSeq(context, 1, Len(context)) \in Seq(Token)
            /\ Len(SubSeq(context, 1, Len(context))) = Len(context)
            /\ \A i \in 1..Len(context) :
                 SubSeq(context, 1, Len(context))[i] = context[i]
        BY <4>1, <4>2, SubSeqProperties
      <4> QED
        BY <2>1, <4>3, SeqEqual
    <3> QED
      BY <1>2, <2>1, <2>2, <2>4, <3>2, <3>3 DEF SessionContext
  <2> QED
    BY <2>3, <2>4
<1> QED
  BY <1>1, <1>2

\* Without provider requests from the observer, every call to the executor is
\* a step of the atomic session or none: the context and all of the caller's
\* outputs change together when a call succeeds, and not when it fails.
THEOREM SessionImplemented ==
    ASSUME ~ObserverProvider
    PROVE  Spec => ImplementsSession
<1> DEFINE memory == IF phase = "idle" THEN out ELSE published
<1>1. Init => Session!Init
  BY DEF Init, Session!Init, SessionContext, NoOutput, Outputs,
         Session!NoOutput
<1>2. (RInv => Mapped)'
  BY MappedState, PTL
<1>3. RInv /\ RInv' /\ [Next]_vars => [Session!Next]_<<SessionContext, memory>>
  <2> SUFFICES ASSUME RInv, RInv', [Next]_vars
               PROVE  [Session!Next]_<<SessionContext, memory>>
    OBVIOUS
  <2>1. /\ SessionContext = context /\ SessionContext' = context'
        /\ memory = published /\ memory' = published'
    BY <1>2, MappedState DEF Mapped
  <2>2. ASSUME UNCHANGED <<context, published>>
        PROVE  UNCHANGED <<SessionContext, memory>>
    BY <2>1, <2>2
  <2>3. CASE Publish
    <3>1. /\ phase = "publish" /\ done = NLayers
          /\ context' = context \o tokens
          /\ published' = out'
          /\ out' = IF sampled
                      THEN Outputs(out.logits, staged.token, staged.token,
                                   staged.draws)
                      ELSE out
      BY <2>3 DEF Publish, RInv, IInv, InFlight
    <3>2. /\ staged.draws = IF sampled THEN published.draws + 1
                                       ELSE published.draws
          /\ staged.draws <= MaxDraws
          /\ staged.token \in Token
          /\ out.logits = context \o tokens
          /\ ~sampled => out = Outputs(context \o tokens, staged.token,
                                       staged.token, published.draws)
          /\ sampled \in BOOLEAN
          /\ tokens \in Seq(Token)
      BY <3>1 DEF RInv, IInv, InFlight, OutInv, AnnouncedOutputs, TypeOK
    <3>3. published' = Outputs(context', staged.token, staged.token,
                               staged.draws)
      BY <3>1, <3>2
    <3>4. Session!Succeed(tokens, staged.token, sampled)
      BY <2>1, <3>1, <3>2, <3>3
      DEF Session!Succeed, Session!Draws, Session!Outputs, Outputs
    <3>5. CASE kind = "prefill"
      <4>1. context = << >> /\ Len(tokens) \in 1..(Capacity - 1)
        BY <3>1, <3>5 DEF RInv, IInv, InFlight, CallInv
      <4>2. tokens \in [1..Len(tokens) -> Token]
        BY <3>2, LenProperties
      <4>3. Session!Prefill
        BY <2>1, <3>2, <3>4, <4>1, <4>2 DEF Session!Prefill
      <4> QED
        BY <4>3 DEF Session!Next
    <3>6. CASE kind = "decode"
      <4>1. PICK token \in Token : /\ tokens = <<token>>
                                   /\ sampled => token \notin Eog
        BY <3>1, <3>6 DEF RInv, CallInv
      <4>2. context # << >> /\ Len(context) < Capacity
        BY <3>1, <3>6 DEF RInv, CallInv
      <4>3. Session!Decode
        BY <2>1, <3>2, <3>4, <4>1, <4>2 DEF Session!Decode
      <4> QED
        BY <4>3 DEF Session!Next
    <3> QED
      BY <3>5, <3>6 DEF RInv, IInv, TypeOK
  <2>4. CASE Reset
    <3>1. context' = << >> /\ published' = published
      BY <2>4 DEF Reset
    <3>2. Session!Reset
      BY <2>1, <3>1 DEF Session!Reset
    <3> QED
      BY <3>2 DEF Session!Next
  <2>5. CASE \/ \E prompt \in Prompt, s \in BOOLEAN : BeginPrefill(prompt, s)
             \/ \E s \in BOOLEAN : RefusePrefill(s)
             \/ \E token \in Token, s \in BOOLEAN : BeginDecode(token, s)
    BY <2>2, <2>5 DEF BeginPrefill, RefusePrefill, BeginDecode, ghost
  <2>6. CASE InCall /\ ~Publish
    BY <2>2, <2>6 DEF InCall, Embed, EmbedFail, LayerOK, LayerFail, Select,
       SelectFail, AccountFail, Commit, RollbackStep, ghost
  <2>7. CASE UNCHANGED vars
    BY <2>2, <2>7 DEF vars, ghost
  <2> QED
    BY <2>3, <2>4, <2>5, <2>6, <2>7 DEF Next
<1>4. Spec => []RInv
  BY RInitInv, RStepInv, PTL DEF Spec
<1> QED
  BY <1>1, <1>3, <1>4, PTL DEF Spec, Session!Spec, ImplementsSession

\* Between calls the caller's outputs are those of the last successful call, of
\* a failed one nothing is seen, as docs/KQ-MODEL-EXEC-API.md:64-65 has it: with
\* an observer that makes no request, after which nothing can fail any more.
THEOREM OutputsArePublished ==
    ASSUME ~ObserverProvider
    PROVE  Spec => []OutputsPublished
<1>1. RInv => OutputsPublished
  BY DEF RInv, OutInv, OutputsPublished
<1> QED
  BY RInitInv, RStepInv, <1>1, PTL DEF Spec

\* When the observer is told of the token, the outputs of a greedy call are all
\* there and of those of a sampled one the logits only, whatever call failed
\* before: under the same observer.
THEOREM OutputsAtAnnouncement ==
    ASSUME ~ObserverProvider
    PROVE  Spec => []AnnouncedOutputs
<1>1. RInv => AnnouncedOutputs
  BY DEF RInv, OutInv
<1> QED
  BY RInitInv, RStepInv, <1>1, PTL DEF Spec
=============================================================================
