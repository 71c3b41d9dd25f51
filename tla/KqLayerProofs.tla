--------------------------- MODULE KqLayerProofs ---------------------------
(***************************************************************************)
(* Proofs about one layer, for any set of chunks, any QSA capacity and any *)
(* context length.  The inductive invariant adds what the staging slot     *)
(* holds at each stage of a call.                                          *)
(***************************************************************************)
EXTENDS KqLayer, SequenceTheorems, TLAPS

\* The tokens of the call on top of the committed ones.
Advanced == committed \o tokens

\* The PLE parts of the staging slot: as expected where the layer has them.
PleHolds(address, value) ==
    HasPle => Working.address = address /\ Working.value = value

Stages ==
    /\ stage = "idle" => tokens = << >>
    /\ stage # "idle" => tokens \in Chunk
    /\ stage \notin {"idle", "copy"} => undo # "intact"
    /\ stage = "copy_ple" => Working.mixer = committed
    /\ stage = "copy_value" => /\ Working.mixer = committed
                               /\ HasPle => Working.address = committed
    /\ stage = "address" => /\ Working.mixer = committed
                            /\ PleHolds(committed, committed)
    /\ stage = "value" => /\ Working.mixer = committed
                          /\ PleHolds(Advanced, committed)
    /\ stage = "mix" => /\ Working.mixer = committed
                        /\ PleHolds(Advanced, Advanced)
    /\ stage = "moe" => /\ Working.mixer = Advanced
                        /\ PleHolds(Advanced, Advanced)
    /\ stage \in {"copy_ple", "copy_value", "address", "value"} => HasPle

\* Only PLE layers write the PLE parts, and QSA calls fit their caches.
Bounds ==
    /\ ~HasPle => \A s \in Slots : slot[s].address = << >>
                                   /\ slot[s].value = << >>
    /\ QsaWithinCapacity
    /\ family = "QSA" /\ stage # "idle" =>
         Len(committed) + Len(tokens) <= QsaCapacity

History == /\ committed \in Seq(Token)
           /\ previous \in Seq(Token)
           /\ undo \in {"none", "intact", "scribbled"}
           /\ undo = "intact" => \E c \in Chunk : committed = previous \o c

LInv == /\ TypeOK
        /\ History
        /\ ActiveIsCommitted
        /\ PreviousIntact
        /\ Stages
        /\ Bounds
-----------------------------------------------------------------------------
\* The two slots are different, and either is a Copy.
LEMMA SlotRoles ==
    ASSUME TypeOK
    PROVE  /\ active_slot \in Slots /\ StagingSlot \in Slots
           /\ active_slot # StagingSlot
           /\ \A s \in Slots : s = active_slot \/ s = StagingSlot
           /\ Live \in Copy /\ Working \in Copy
BY DEF TypeOK, Slots, StagingSlot, Live, Working

\* Rewriting the staging slot leaves the active one alone.
LEMMA RewriteFacts ==
    ASSUME TypeOK, NEW m \in Seq(Token), NEW a \in Seq(Token),
           NEW v \in Seq(Token), Rewrite(m, a, v), active_slot' = active_slot
    PROVE  /\ slot' \in [Slots -> Copy]
           /\ Live' = Live
           /\ Working' = [mixer |-> m, address |-> a, value |-> v]
           /\ \A s \in Slots : slot'[s] = slot[s]
                 \/ slot'[s] = [mixer |-> m, address |-> a, value |-> v]
<1> DEFINE c == [mixer |-> m, address |-> a, value |-> v]
<1>1. c \in Copy
  BY DEF Copy
<1>2. slot' = [slot EXCEPT ![StagingSlot] = c] /\ slot \in [Slots -> Copy]
  BY DEF Rewrite, TypeOK
<1>3. StagingSlot' = StagingSlot
  BY DEF StagingSlot
<1> HIDE DEF c
<1>4. /\ slot' \in [Slots -> Copy]
      /\ slot'[StagingSlot] = c
      /\ slot'[active_slot] = slot[active_slot]
      /\ \A s \in Slots : slot'[s] = slot[s] \/ slot'[s] = c
  BY <1>1, <1>2, SlotRoles
<1> QED
  BY <1>3, <1>4 DEF Live, Working, c

\* The sequences a stage reads are sequences of tokens.
LEMMA PartTypes ==
    ASSUME LInv
    PROVE  /\ Live.mixer \in Seq(Token) /\ Working.mixer \in Seq(Token)
           /\ Live.address \in Seq(Token) /\ Working.address \in Seq(Token)
           /\ Live.value \in Seq(Token) /\ Working.value \in Seq(Token)
           /\ tokens \in Seq(Token) /\ committed \in Seq(Token)
           /\ Advanced \in Seq(Token)
           /\ Len(Advanced) = Len(committed) + Len(tokens)
<1>1. Live \in Copy /\ Working \in Copy
  BY SlotRoles DEF LInv
<1>2. tokens \in Seq(Token) /\ committed \in Seq(Token)
  BY DEF LInv, TypeOK, History
<1>3. /\ Advanced \in Seq(Token)
      /\ Len(Advanced) = Len(committed) + Len(tokens)
  BY <1>2, ConcatProperties DEF Advanced
<1> QED
  BY <1>1, <1>2, <1>3 DEF Copy

\* What every layer without PLE keeps empty.
LEMMA NoPleParts ==
    ASSUME LInv, ~HasPle
    PROVE  Working.address = << >> /\ Working.value = << >>
BY SlotRoles DEF LInv, Bounds, Working

LEMMA LInitInv == Init => LInv
<1> SUFFICES ASSUME Init PROVE LInv
  OBVIOUS
<1>1. EmptyCopy \in Copy /\ << >> \in Seq(Token) /\ Len(<< >>) = 0
  BY EmptySeq DEF EmptyCopy, Copy
<1>2. slot \in [Slots -> Copy] /\ \A s \in Slots : slot[s] = EmptyCopy
  BY <1>1 DEF Init
<1>3. TypeOK /\ History
  BY <1>1, <1>2 DEF Init, TypeOK, History, Slots
<1>4. ActiveIsCommitted
  BY <1>1, <1>2 DEF Init, ActiveIsCommitted, Live, Image, EmptyCopy, Slots
<1>5. PreviousIntact /\ Stages
  BY DEF Init, PreviousIntact, Stages
<1>6. Bounds
  BY <1>1, <1>2, LayerAssumption
  DEF Init, Bounds, QsaWithinCapacity, EmptyCopy
<1> QED
  BY <1>3, <1>4, <1>5, <1>6 DEF LInv

\* A stage that rewrites the staging slot and moves on keeps everything but
\* what the next stage is told to find there.
LEMMA StageInv ==
    ASSUME LInv, NEW m \in Seq(Token), NEW a \in Seq(Token),
           NEW v \in Seq(Token), Rewrite(m, a, v),
           UNCHANGED <<family, position, active_slot, tokens, status,
                       committed, previous>>,
           stage # "idle",
           stage' \in {"copy_ple", "copy_value", "address", "value", "mix", "moe"},
           undo' \in {"none", "scribbled"},
           ~HasPle => a = << >> /\ v = << >>,
           family = "QSA" => Len(m) <= QsaCapacity,
           Stages'
    PROVE  LInv'
<1>1. /\ slot' \in [Slots -> Copy] /\ Live' = Live
      /\ \A s \in Slots : slot'[s] = slot[s]
                 \/ slot'[s] = [mixer |-> m, address |-> a, value |-> v]
  BY RewriteFacts DEF LInv
<1>2. TypeOK' /\ History'
  BY <1>1 DEF LInv, TypeOK, History
<1>3. ActiveIsCommitted'
  BY <1>1 DEF LInv, ActiveIsCommitted, Image, HasPle
<1>4. PreviousIntact'
  BY DEF PreviousIntact
<1>5. Bounds'
  BY <1>1 DEF LInv, Bounds, QsaWithinCapacity, HasPle
<1> QED
  BY <1>2, <1>3, <1>4, <1>5 DEF LInv

\* A call that returns without committing.
LEMMA ReturnInv ==
    ASSUME LInv, NEW e \in {"LIMIT_EXCEEDED", "INCOMPATIBLE", "FAILED"},
           Return(e), UNCHANGED <<family, position, active_slot, slot, ghost>>
    PROVE  LInv'
<1>1. /\ stage' = "idle" /\ tokens' = << >> /\ status' = e
      /\ UNCHANGED <<family, position, active_slot, slot,
                     committed, previous, undo>>
  BY DEF Return, ghost
<1>2. TypeOK' /\ History'
  BY <1>1, EmptySeq DEF LInv, TypeOK, History
<1>3. ActiveIsCommitted' /\ PreviousIntact'
  BY <1>1 DEF LInv, ActiveIsCommitted, PreviousIntact, Live, Working,
     StagingSlot, Image, HasPle
<1>4. Stages' /\ Bounds'
  BY <1>1 DEF LInv, Stages, Bounds, QsaWithinCapacity, HasPle
<1> QED
  BY <1>2, <1>3, <1>4 DEF LInv

LEMMA LStepInv == LInv /\ [Next]_vars => LInv'
<1> SUFFICES ASSUME LInv, [Next]_vars PROVE LInv'
  OBVIOUS
<1> USE DEF HasPle, ghost
<1>1. ASSUME NEW chunk \in Chunk, Begin(chunk) PROVE LInv'
  <2>1. UNCHANGED <<family, position, active_slot, slot,
                    committed, previous, undo>>
    BY <1>1 DEF Begin, state
  <2>2. /\ stage = "idle"
        /\ \/ FitsCapacity(chunk) /\ stage' = "copy" /\ tokens' = chunk
              /\ status' = status
           \/ status' = "INVALID" /\ UNCHANGED <<stage, tokens>>
    BY <1>1 DEF Begin
  <2>3. chunk \in Seq(Token)
    BY LayerAssumption
  <2>4. TypeOK' /\ History'
    BY <2>1, <2>2, <2>3 DEF LInv, TypeOK, History
  <2>5. ActiveIsCommitted' /\ PreviousIntact'
    BY <2>1 DEF LInv, ActiveIsCommitted, PreviousIntact, Live, Working,
       StagingSlot, Image
  <2>6. Stages'
    BY <2>1, <2>2 DEF LInv, Stages
  <2>7. Bounds'
    <3>1. Live.mixer = committed
      BY DEF LInv, ActiveIsCommitted, Image
    <3> QED
      BY <2>1, <2>2, <3>1 DEF LInv, Bounds, QsaWithinCapacity, FitsCapacity
  <2> QED
    BY <2>4, <2>5, <2>6, <2>7 DEF LInv
<1>2. ASSUME CopyMixer PROVE LInv'
  <2>1. /\ stage = "copy" /\ stage' = IF HasPle THEN "copy_ple" ELSE "mix"
        /\ Rewrite(Live.mixer, Working.address, Working.value)
        /\ undo' = IF undo = "intact" THEN "scribbled" ELSE undo
        /\ UNCHANGED <<family, position, active_slot, tokens, status,
                       committed, previous>>
    BY <1>2 DEF CopyMixer
  <2>2. Live.mixer = committed
    BY DEF LInv, ActiveIsCommitted, Image
  <2>3. Working' = [mixer |-> committed, address |-> Working.address,
                    value |-> Working.value]
    BY <2>1, <2>2, PartTypes, RewriteFacts DEF LInv
  <2>4. undo' \in {"none", "scribbled"}
    BY <2>1 DEF LInv, History
  <2>5. Stages'
    BY <2>1, <2>3, <2>4 DEF LInv, Stages, PleHolds
  <2>6. family = "QSA" => Len(Live.mixer) <= QsaCapacity
    BY SlotRoles DEF LInv, Bounds, QsaWithinCapacity, Live
  <2> QED
    BY <2>1, <2>4, <2>5, <2>6, PartTypes, NoPleParts, StageInv
<1>3. ASSUME CopyAddress PROVE LInv'
  <2>1. /\ stage = "copy_ple" /\ stage' = "copy_value"
        /\ Rewrite(Working.mixer, Live.address, Working.value)
        /\ UNCHANGED <<family, position, active_slot, tokens, status,
                       committed, previous, undo>>
    BY <1>3 DEF CopyAddress
  <2>2. HasPle /\ Working.mixer = committed /\ undo # "intact"
    BY <2>1 DEF LInv, Stages
  <2>3. Live.address = committed
    BY <2>2 DEF LInv, ActiveIsCommitted, Image
  <2>4. Working' = [mixer |-> committed, address |-> committed,
                    value |-> Working.value]
    <3>1. Rewrite(committed, committed, Working.value)
      BY <2>1, <2>2, <2>3
    <3> QED
      BY <2>1, <3>1, PartTypes, RewriteFacts DEF LInv
  <2>5. Stages'
    BY <2>1, <2>2, <2>4 DEF LInv, Stages, PleHolds
  <2>6. undo' \in {"none", "scribbled"}
    BY <2>1, <2>2 DEF LInv, History
  <2> QED
    BY <2>1, <2>2, <2>5, <2>6, PartTypes, StageInv
<1>12. ASSUME CopyValue PROVE LInv'
  <2>1. /\ stage = "copy_value" /\ stage' = "address"
        /\ Rewrite(Working.mixer, Working.address, Live.value)
        /\ UNCHANGED <<family, position, active_slot, tokens, status,
                       committed, previous, undo>>
    BY <1>12 DEF CopyValue
  <2>2. /\ HasPle /\ Working.mixer = committed /\ undo # "intact"
        /\ Working.address = committed
    BY <2>1 DEF LInv, Stages
  <2>3. Live.value = committed
    BY <2>2 DEF LInv, ActiveIsCommitted, Image
  <2>4. Working' = [mixer |-> committed, address |-> committed,
                    value |-> committed]
    BY <2>1, <2>2, <2>3, PartTypes, RewriteFacts, ZenonT(30) DEF LInv
  <2>5. Stages'
    BY <2>1, <2>2, <2>4 DEF LInv, Stages, PleHolds
  <2>6. undo' \in {"none", "scribbled"}
    BY <2>1, <2>2 DEF LInv, History
  <2> QED
    BY <2>1, <2>2, <2>5, <2>6, PartTypes, StageInv
<1>4. ASSUME Address PROVE LInv'
  <2>1. /\ stage = "address"
        /\ UNCHANGED <<family, position, active_slot, committed, previous, undo>>
    BY <1>4 DEF Address
  <2>2. CASE stage' = "value" /\ UNCHANGED <<tokens, status>>
             /\ Rewrite(Working.mixer, Working.address \o tokens, Working.value)
    <3>1. /\ HasPle /\ undo # "intact" /\ Working.mixer = committed
          /\ Working.address = committed /\ Working.value = committed
      BY <2>1 DEF LInv, Stages, PleHolds
    <3>2. Working' = [mixer |-> committed, address |-> Advanced,
                      value |-> committed]
      BY <2>1, <2>2, <3>1, PartTypes, RewriteFacts, ZenonT(30) DEF LInv, Advanced
    <3>3. Stages'
      BY <2>1, <2>2, <3>1, <3>2 DEF LInv, Stages, PleHolds, Advanced
    <3>4. undo' \in {"none", "scribbled"}
      BY <2>1, <3>1 DEF LInv, History
    <3>5. Working.address \o tokens \in Seq(Token)
      BY <3>1, PartTypes DEF Advanced
    <3> QED
      BY <2>1, <2>2, <3>1, <3>3, <3>4, <3>5, PartTypes, StageInv
  <2>3. CASE Return("LIMIT_EXCEEDED") /\ UNCHANGED slot
    BY <2>1, <2>3, ReturnInv
  <2> QED
    BY <1>4, <2>2, <2>3 DEF Address
<1>5. ASSUME Value PROVE LInv'
  <2>1. /\ stage = "value"
        /\ UNCHANGED <<family, position, active_slot, committed, previous, undo>>
    BY <1>5 DEF Value
  <2>2. CASE stage' = "mix" /\ UNCHANGED <<tokens, status>>
             /\ Rewrite(Working.mixer, Working.address, Working.value \o tokens)
    <3>1. /\ HasPle /\ undo # "intact" /\ Working.mixer = committed
          /\ Working.address = Advanced /\ Working.value = committed
      BY <2>1 DEF LInv, Stages, PleHolds
    <3>2. Working' = [mixer |-> committed, address |-> Advanced,
                      value |-> Advanced]
      <4>1. /\ Working.value \o tokens = Advanced
            /\ Rewrite(committed, Advanced, Advanced)
        BY <2>2, <3>1 DEF Advanced
      <4> QED
        BY <2>1, <4>1, PartTypes, RewriteFacts DEF LInv
    <3>3. Stages'
      BY <2>1, <2>2, <3>1, <3>2 DEF LInv, Stages, PleHolds, Advanced
    <3>4. undo' \in {"none", "scribbled"}
      BY <2>1, <3>1 DEF LInv, History
    <3>5. Working.value \o tokens \in Seq(Token)
      BY <3>1, PartTypes DEF Advanced
    <3> QED
      BY <2>1, <2>2, <3>1, <3>3, <3>4, <3>5, PartTypes, StageInv
  <2>3. CASE Return("INCOMPATIBLE") /\ UNCHANGED slot
    BY <2>1, <2>3, ReturnInv
  <2> QED
    BY <1>5, <2>2, <2>3 DEF Value
<1>6. ASSUME Mix PROVE LInv'
  <2>1. /\ stage = "mix" /\ stage' = "moe"
        /\ Rewrite(Working.mixer \o tokens, Working.address, Working.value)
        /\ UNCHANGED <<family, position, active_slot, tokens, status,
                       committed, previous, undo>>
    BY <1>6 DEF Mix
  <2>2. /\ undo # "intact" /\ Working.mixer = committed
        /\ PleHolds(Advanced, Advanced)
    BY <2>1 DEF LInv, Stages
  <2>3. Working' = [mixer |-> Advanced, address |-> Working.address,
                    value |-> Working.value]
    BY <2>1, <2>2, PartTypes, RewriteFacts, ZenonT(30) DEF LInv, Advanced
  <2>4. Stages'
    BY <2>1, <2>2, <2>3 DEF LInv, Stages, PleHolds, Advanced
  <2>5. undo' \in {"none", "scribbled"}
    BY <2>1, <2>2 DEF LInv, History
  <2>6. Working.mixer \o tokens \in Seq(Token)
        /\ (family = "QSA" => Len(Working.mixer \o tokens) <= QsaCapacity)
    BY <2>1, <2>2, PartTypes DEF LInv, Bounds, Advanced
  <2> QED
    BY <2>1, <2>4, <2>5, <2>6, PartTypes, NoPleParts, StageInv
<1>7. ASSUME Commit PROVE LInv'
  <2>1. /\ stage = "moe" /\ stage' = "idle" /\ tokens' = << >>
        /\ status' = "OK" /\ position' = position + Len(tokens)
        /\ active_slot' = StagingSlot
        /\ committed' = Advanced /\ previous' = committed /\ undo' = "intact"
        /\ UNCHANGED <<family, slot>>
    BY <1>7 DEF Commit, Return, Advanced
  <2>2. Live' = Working /\ Working' = Live
    BY <2>1, SlotRoles DEF Live, Working, StagingSlot, LInv, Slots
  <2>3. Working = Image(Advanced)
    <3>1. Working.mixer = Advanced /\ PleHolds(Advanced, Advanced)
      BY <2>1 DEF LInv, Stages
    <3>2. Working \in Copy
      BY SlotRoles DEF LInv
    <3>3. Working = [mixer   |-> Working.mixer,
                     address |-> Working.address,
                     value   |-> Working.value]
      BY <3>2 DEF Copy
    <3> QED
      BY <3>1, <3>3, NoPleParts DEF Image, PleHolds
  <2>4. position' = Len(Advanced)
    BY <2>1, PartTypes DEF LInv, ActiveIsCommitted
  <2>5. TypeOK' /\ History'
    <3>1. tokens \in Chunk /\ Advanced = committed \o tokens
      BY <2>1 DEF LInv, Stages, Advanced
    <3> QED
      BY <2>1, <2>4, <3>1, SlotRoles, PartTypes, EmptySeq, LenProperties
      DEF LInv, TypeOK, History
  <2>6. ActiveIsCommitted'
    BY <2>1, <2>2, <2>3, <2>4 DEF ActiveIsCommitted, Image
  <2>7. PreviousIntact'
    BY <2>1, <2>2 DEF LInv, ActiveIsCommitted, PreviousIntact, Image
  <2>8. Stages' /\ Bounds'
    BY <2>1 DEF LInv, Stages, Bounds, QsaWithinCapacity
  <2> QED
    BY <2>5, <2>6, <2>7, <2>8 DEF LInv
<1>8. ASSUME Fail PROVE LInv'
  BY <1>8, ReturnInv DEF Fail, state
<1>9. ASSUME NEW n \in 1..MaxTokens, RollbackLast(n) PROVE LInv'
  <2>1. /\ stage = "idle" /\ undo = "intact"
        /\ n = Len(committed) - Len(previous)
        /\ committed' = previous /\ undo' = "none"
        /\ UNCHANGED <<family, slot, stage, tokens, previous>>
    BY <1>9 DEF RollbackLast
  <2>2. /\ committed \in Seq(Token) /\ previous \in Seq(Token)
        /\ Len(committed) \in Nat /\ Len(previous) \in Nat
        /\ position = Len(committed)
    BY LenProperties DEF LInv, History, ActiveIsCommitted
  <2>3. n > 0 /\ position >= n
    BY <2>1, <2>2, LayerAssumption
  <2>4. /\ active_slot' = StagingSlot /\ status' = "OK"
        /\ position' = Len(previous)
    BY <1>9, <2>1, <2>2, <2>3, LayerAssumption DEF RollbackLast
  <2>5. Live' = Working
    BY <2>1, <2>4 DEF Live, Working
  <2>6. TypeOK' /\ History'
    BY <2>1, <2>2, <2>4, SlotRoles DEF LInv, TypeOK, History
  <2>7. ActiveIsCommitted' /\ PreviousIntact'
    BY <2>1, <2>4, <2>5 DEF LInv, PreviousIntact, ActiveIsCommitted, Image
  <2>8. Stages' /\ Bounds'
    BY <2>1 DEF LInv, Stages, Bounds, QsaWithinCapacity
  <2> QED
    BY <2>6, <2>7, <2>8 DEF LInv
<1>10. ASSUME Reset PROVE LInv'
  <2>1. /\ stage = "idle" /\ position' = 0 /\ active_slot' = 0
        /\ slot' = [s \in Slots |-> EmptyCopy] /\ status' = "OK"
        /\ committed' = << >> /\ previous' = << >> /\ undo' = "none"
        /\ UNCHANGED <<family, stage, tokens>>
    BY <1>10 DEF Reset
  <2>2. EmptyCopy \in Copy /\ << >> \in Seq(Token) /\ Len(<< >>) = 0
    BY EmptySeq DEF EmptyCopy, Copy
  <2>3. slot' \in [Slots -> Copy] /\ \A s \in Slots : slot'[s] = EmptyCopy
    BY <2>1, <2>2
  <2>4. TypeOK' /\ History'
    BY <2>1, <2>2, <2>3 DEF LInv, TypeOK, History, Slots
  <2>5. ActiveIsCommitted'
    BY <2>1, <2>2, <2>3 DEF ActiveIsCommitted, Live, Image, EmptyCopy, Slots
  <2>6. PreviousIntact' /\ Stages'
    BY <2>1 DEF LInv, PreviousIntact, Stages
  <2>7. Bounds'
    BY <2>1, <2>2, <2>3, LayerAssumption
    DEF LInv, Bounds, QsaWithinCapacity, EmptyCopy
  <2> QED
    BY <2>4, <2>5, <2>6, <2>7 DEF LInv
<1>11. ASSUME UNCHANGED vars PROVE LInv'
  <2>1. UNCHANGED <<family, position, active_slot, slot, stage, tokens, status,
                    committed, previous, undo>>
    BY <1>11 DEF vars, state, call
  <2>2. TypeOK' /\ History'
    BY <2>1 DEF LInv, TypeOK, History
  <2>3. Live' = Live /\ Working' = Working
    BY <2>1 DEF Live, Working, StagingSlot
  <2>4. ActiveIsCommitted' /\ PreviousIntact'
    BY <2>1, <2>3 DEF LInv, ActiveIsCommitted, PreviousIntact, Image
  <2>5. Stages'
    BY <2>1, <2>3 DEF LInv, Stages, PleHolds, Advanced
  <2>6. Bounds'
    BY <2>1 DEF LInv, Bounds, QsaWithinCapacity
  <2> QED
    BY <2>2, <2>4, <2>5, <2>6 DEF LInv
<1> QED
  BY <1>1, <1>2, <1>3, <1>4, <1>5, <1>6, <1>7, <1>8, <1>9, <1>10, <1>11, <1>12 DEF Next

\* The inductive invariant holds throughout every behaviour of a layer.
THEOREM LayerInvariance == Spec => []LInv
BY LInitInv, LStepInv, PTL DEF Spec

\* The active slot always holds exactly what the successful calls folded in.
THEOREM ActiveSlotCorrect == Spec => []ActiveIsCommitted
<1>1. LInv => ActiveIsCommitted
  BY DEF LInv
<1> QED
  BY <1>1, LayerInvariance, PTL

\* The other slot holds the state before the last commit for as long as that
\* commit can be undone.
THEOREM UndoSlotCorrect == Spec => []PreviousIntact
<1>1. LInv => PreviousIntact
  BY DEF LInv
<1> QED
  BY <1>1, LayerInvariance, PTL

\* The PLE value operator never finds intents of another position.
THEOREM IntentsStayAligned == Spec => []IntentsAlwaysAligned
<1>1. ASSUME LInv, stage = "value" PROVE IntentsAligned
  <2>1. Working.address = Advanced /\ Working.value = committed
    BY <1>1 DEF LInv, Stages, PleHolds
  <2>2. /\ Len(Advanced) = Len(committed) + Len(tokens)
        /\ Len(committed) \in Nat /\ Len(tokens) \in Nat
    BY <1>1, PartTypes, LenProperties
  <2> QED
    BY <2>1, <2>2 DEF IntentsAligned
<1>2. LInv => IntentsAlwaysAligned
  BY <1>1 DEF IntentsAlwaysAligned
<1> QED
  BY <1>2, LayerInvariance, PTL

\* No slot of a QSA layer outgrows its caches.
THEOREM QsaCachesBounded == Spec => []QsaWithinCapacity
<1>1. LInv => QsaWithinCapacity
  BY DEF LInv, Bounds
<1> QED
  BY <1>1, LayerInvariance, PTL
-----------------------------------------------------------------------------
(* The refinement. *)

\* The image of the layer in the atomic specification.
Mapped == [position    |-> position,
           active_slot |-> active_slot,
           slot        |-> [s \in Slots |-> slot[s].mixer]]

LEMMA MappedFacts ==
    ASSUME LInv
    PROVE  /\ Atomic!Staging(Mapped) = StagingSlot
           /\ Atomic!Active(Mapped) = Live.mixer
           /\ Mapped.slot[StagingSlot] = Working.mixer
BY SlotRoles
DEF LInv, Mapped, Atomic!Staging, Atomic!Active, StagingSlot, Live, Working

\* Rewriting the staging slot is, in the image, abandoning an execution.
LEMMA RewriteIsAbandon ==
    ASSUME LInv, NEW m \in Seq(Token), NEW a \in Seq(Token),
           NEW v \in Seq(Token), Rewrite(m, a, v),
           UNCHANGED <<position, active_slot>>,
           tokens \in Chunk,
           m \in {Working.mixer, Live.mixer, Live.mixer \o tokens}
    PROVE  Atomic!Abandon
<1> DEFINE c == [mixer |-> m, address |-> a, value |-> v]
<1>1. slot \in [Slots -> Copy] /\ StagingSlot \in Slots
  BY SlotRoles DEF LInv, TypeOK
<1>2. slot' = [slot EXCEPT ![StagingSlot] = c]
  BY DEF Rewrite
<1>3. c.mixer = m
  OBVIOUS
<1> HIDE DEF c
<1>4. [s \in Slots |-> slot'[s].mixer]
        = [[s \in Slots |-> slot[s].mixer] EXCEPT ![StagingSlot] = m]
  BY <1>1, <1>2, <1>3
<1>5. m \in Atomic!Scribbles(Mapped, tokens)
  BY MappedFacts DEF Atomic!Scribbles
<1>6. Mapped' = Atomic!AbandonLayer(Mapped, m)
  BY <1>4, MappedFacts DEF Mapped, Atomic!AbandonLayer
<1> QED
  BY <1>5, <1>6 DEF Atomic!Abandon, Mapped

\* A call that goes through its stages one by one, failing at any of them, is
\* in its mixer slots an atomic execution or an abandoned one.
THEOREM LayerIsAtomic == Spec => ImplementsAtomic
<1>1. Init => Atomic!Init
  BY DEF Init, Atomic!Init, Atomic!FreshLayer, Atomic!Slots, Slots, EmptyCopy
<1>2. LInv /\ LInv' /\ [Next]_vars => [Atomic!Next]_Mapped
  <2> SUFFICES ASSUME LInv, LInv', [Next]_vars PROVE [Atomic!Next]_Mapped
    OBVIOUS
  <2>1. ASSUME CopyMixer \/ Mix PROVE Atomic!Next
    <3>1. tokens \in Chunk /\ (stage = "mix" => Working.mixer = committed)
      BY <2>1 DEF LInv, Stages, CopyMixer, Mix
    <3>2. Live.mixer = committed
      BY DEF LInv, ActiveIsCommitted, Image
    <3>3. \E m \in {Live.mixer, Live.mixer \o tokens} :
            Rewrite(m, Working.address, Working.value)
      BY <2>1, <3>1, <3>2 DEF CopyMixer, Mix
    <3>4. Live.mixer \o tokens \in Seq(Token)
      BY <3>2, PartTypes DEF Advanced
    <3>5. UNCHANGED <<position, active_slot>>
      BY <2>1 DEF CopyMixer, Mix
    <3>6. Atomic!Abandon
      BY <3>1, <3>3, <3>4, <3>5, PartTypes, RewriteIsAbandon
    <3> QED
      BY <3>6 DEF Atomic!Next
  <2>2. ASSUME CopyAddress \/ CopyValue \/ Address \/ Value
        PROVE  Atomic!Abandon \/ UNCHANGED Mapped
    <3>1. UNCHANGED <<position, active_slot>> /\ tokens \in Chunk
      BY <2>2 DEF LInv, Stages, CopyAddress, CopyValue, Address, Value
    <3>2. CASE UNCHANGED slot
      BY <3>1, <3>2 DEF Mapped
    <3>3. CASE \/ Rewrite(Working.mixer, Live.address, Working.value)
               \/ Rewrite(Working.mixer, Working.address, Live.value)
      BY <3>1, <3>3, PartTypes, RewriteIsAbandon
    <3>4. CASE stage = "address" /\ Rewrite(Working.mixer,
                 Working.address \o tokens, Working.value)
      <4>1. Working.address \o tokens \in Seq(Token)
        BY PartTypes, ConcatProperties
      <4> QED
        BY <3>1, <3>4, <4>1, PartTypes, RewriteIsAbandon
    <3>5. CASE stage = "value" /\ Rewrite(Working.mixer, Working.address,
                 Working.value \o tokens)
      <4>1. Working.value \o tokens \in Seq(Token)
        BY PartTypes, ConcatProperties
      <4> QED
        BY <3>1, <3>5, <4>1, PartTypes, RewriteIsAbandon
    <3> QED
      BY <2>2, <3>2, <3>3, <3>4, <3>5 DEF CopyAddress, CopyValue, Address, Value
  <2>3. ASSUME Commit PROVE Atomic!Next
    <3>1. /\ stage = "moe" /\ tokens \in Chunk /\ Working.mixer = Advanced
          /\ Live.mixer = committed
          /\ position' = position + Len(tokens)
          /\ active_slot' = StagingSlot /\ slot' = slot
      BY <2>3 DEF Commit, LInv, Stages, ActiveIsCommitted, Image
    <3>2. [Mapped.slot EXCEPT ![StagingSlot] = Advanced] = Mapped.slot
      BY <3>1, MappedFacts, SlotRoles DEF Mapped, LInv
    <3>3. Mapped' = Atomic!ExecuteLayer(Mapped, tokens)
      BY <3>1, <3>2, MappedFacts DEF Mapped, Atomic!ExecuteLayer, Advanced
    <3> QED
      BY <3>1, <3>3 DEF Atomic!Next, Atomic!Execute, Mapped
  <2>4. ASSUME NEW n \in 1..MaxTokens, RollbackLast(n) PROVE Atomic!Next
    <3>1. /\ undo = "intact" /\ n = Len(committed) - Len(previous)
          /\ slot' = slot
      BY <2>4 DEF RollbackLast
    <3>2. PICK c \in Chunk : committed = previous \o c
      BY <3>1 DEF LInv, History
    <3>3. /\ previous \in Seq(Token) /\ c \in Seq(Token)
          /\ Len(committed) = Len(previous) + Len(c)
          /\ position = Len(committed)
      BY <3>2, LayerAssumption, ConcatProperties DEF LInv, History,
         ActiveIsCommitted
    <3>4. n = Len(c) /\ n > 0 /\ position >= n
      BY <3>1, <3>3, LayerAssumption, LenProperties
    <3>5. active_slot' = StagingSlot /\ position' = position - n
      BY <2>4, <3>4 DEF RollbackLast
    <3>6. Atomic!CanRollback(Mapped, Len(c))
      BY <3>4 DEF Atomic!CanRollback, Mapped
    <3>7. Mapped' = Atomic!RollbackLayer(Mapped, Len(c))
      BY <3>1, <3>4, <3>5, MappedFacts DEF Mapped, Atomic!RollbackLayer
    <3> QED
      BY <3>6, <3>7 DEF Atomic!Next, Atomic!Rollback, Mapped
  <2>5. ASSUME Reset PROVE Atomic!Next
    <3>1. Mapped' = Atomic!FreshLayer
      BY <2>5 DEF Reset, Mapped, Atomic!FreshLayer, Atomic!Slots, Slots, EmptyCopy
    <3> QED
      BY <3>1 DEF Atomic!Next, Atomic!Reset, Mapped
  <2>6. ASSUME (\E chunk \in Chunk : Begin(chunk)) \/ Fail \/ UNCHANGED vars
        PROVE  UNCHANGED Mapped
    BY <2>6 DEF Begin, Fail, vars, state, Mapped
  <2> QED
    BY <2>1, <2>2, <2>3, <2>4, <2>5, <2>6 DEF Next, Atomic!Next
<1> QED
  BY <1>1, <1>2, LayerInvariance, PTL
  DEF Spec, ImplementsAtomic, Atomic!Spec, Mapped
=============================================================================
