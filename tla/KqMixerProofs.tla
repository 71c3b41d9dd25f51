--------------------------- MODULE KqMixerProofs ---------------------------
(***************************************************************************)
(* Proofs about the mixers behind a layer's slots, for any kernel, block   *)
(* size, number of blocks, capacity and score.                             *)
(*                                                                         *)
(* The inductive invariant says of each slot which history it has folded   *)
(* in, and of a run in progress how far its copy (GDN) or its pending rows *)
(* (QSA) are ahead of the staging slot.  Rows beyond a cache's length are  *)
(* not mentioned: they are whatever earlier calls left there.              *)
(*                                                                         *)
(* Of the selection it is shown that the insertion of each candidate keeps *)
(* the best blocks so far in order (Chosen), hence that the n-th block     *)
(* chosen is the one with n - 1 better ones, which is the document's.      *)
(***************************************************************************)
EXTENDS KqMixer, SequenceTheorems, FiniteSetTheorems, WellFoundedInduction, TLAPS

Stream == committed \o inputs
Kinds  == {"key", "value", "raw"}

\* What a cache holds of position i of a stream.
RowOf(kind, stream, i) ==
    IF kind = "key" THEN <<i, stream[i + 1]>> ELSE stream[i + 1]

\* The window and the matrix after the first n rows of a stream.
GdnFolds(state, stream, n) ==
    state = [conv        |-> WindowAt(stream, n),
             recurrent   |-> [i \in 1..n |-> WindowAt(stream, i)],
             initialized |-> state.initialized]

QsaFolds(state, stream) ==
    /\ state = [length |-> Len(stream), key |-> state.key,
                value |-> state.value, raw |-> state.raw]
    /\ Len(stream) <= Capacity
    /\ \A kind \in Kinds :
         /\ DOMAIN state[kind] = 0..(Capacity - 1)
         /\ \A i \in 0..(Len(stream) - 1) : state[kind][i] = RowOf(kind, stream, i)

\* A mixer state has folded in a history.
Holds(f, state, h) ==
    IF f = "GDN"
      THEN /\ GdnFolds(state, h, Len(h))
           /\ state.initialized \in BOOLEAN
           /\ ~state.initialized => h = << >>
      ELSE QsaFolds(state, h)

StateHolds(state, h) == Holds(family, state, h)

\* Folded, with the family as a parameter.
FoldedBy(f, state) ==
    IF f = "GDN"
      THEN [i \in DOMAIN state.recurrent |-> state.recurrent[i][Kernel]]
      ELSE [i \in 1..state.length |-> state.value[i - 1]]

\* The outputs are a sequence, whatever their elements.
IsSequence(s) == s \in Seq({s[i] : i \in DOMAIN s})

PendingRow == [key : Nat \X Input, value : Input, raw : Input]

\* How far a run is.
RunHolds ==
    /\ IsSequence(run.out) /\ Len(run.out) <= Len(inputs)
    /\ family = "GDN" =>
         /\ GdnFolds(run.work, Stream, Len(committed) + Len(run.out))
         /\ \A n \in 1..Len(run.out) :
              run.out[n] = [i \in 1..(Len(committed) + n) |-> WindowAt(Stream, i)]
    /\ family = "QSA" =>
         /\ run.work \in Seq(PendingRow) /\ Len(run.work) = Len(run.out)
         /\ \A n \in 1..Len(run.work), kind \in Kinds :
              run.work[n][kind] = RowOf(kind, Stream, Len(committed) + n - 1)
         /\ \A n \in 1..Len(run.out) :
              run.out[n] = AttendedAt(Stream, Len(committed) + n - 1)

Shape == /\ family \in {"GDN", "QSA"} /\ active_slot \in Slots
         /\ mixer = [s \in Slots |-> mixer[s]]

History == /\ committed \in Seq(Input) /\ previous \in Seq(Input)
           /\ position = Len(committed)
           /\ undo \in BOOLEAN
           /\ undo => \E c \in Chunk : committed = previous \o c

Held == /\ StateHolds(Live, committed)
        /\ \E h \in Seq(Input) : StateHolds(Working, h)
        /\ undo => StateHolds(Working, previous)

Stages ==
    /\ stage \in {"idle", "copy", "copied", "run", "mixed"}
    /\ stage # "idle" => /\ inputs \in Chunk
                         /\ family = "QSA" => Len(committed) + Len(inputs) <= Capacity
    /\ stage \in {"copied", "run", "mixed"} => ~undo
    /\ stage \in {"copied", "run"} => StateHolds(Working, committed)
    /\ stage = "run" => RunHolds
    /\ stage = "mixed" => StateHolds(Working, Stream)

MInv == Shape /\ History /\ Held /\ Stages
-----------------------------------------------------------------------------
(* Sequences and windows. *)

Cell == Input \cup {Zero}

LEMMA ChunkFacts ==
    ASSUME NEW c \in Chunk
    PROVE  c \in Seq(Input) /\ c # << >> /\ Len(c) \in Nat \ {0}
<1>1. c \in Seq(Input) /\ c # << >>
  BY MixerAssumption
<1> QED
  BY <1>1, EmptySeq

LEMMA SequenceGrows ==
    ASSUME NEW s, IsSequence(s), NEW x
    PROVE  /\ IsSequence(Append(s, x))
           /\ Len(s) \in Nat /\ Len(Append(s, x)) = Len(s) + 1
           /\ \A i \in 1..Len(s) : Append(s, x)[i] = s[i]
           /\ Append(s, x)[Len(s) + 1] = x
<1> DEFINE S == {s[i] : i \in DOMAIN s} \cup {x}
           t == Append(s, x)
<1>1. s \in Seq(S) /\ x \in S
  <2>1. {s[i] : i \in DOMAIN s} \subseteq S
    OBVIOUS
  <2>2. s \in Seq({s[i] : i \in DOMAIN s})
    BY DEF IsSequence
  <2> HIDE DEF S
  <2>3. s \in Seq(S)
    BY <2>1, <2>2, SeqMonotonic
  <2> QED
    BY <2>3 DEF S
<1> HIDE DEF S
<1>2. /\ t \in Seq(S) /\ Len(t) = Len(s) + 1 /\ Len(s) \in Nat
      /\ \A i \in 1..Len(s) : t[i] = s[i]
      /\ t[Len(s) + 1] = x
  BY <1>1, AppendProperties, LenProperties
<1> HIDE DEF t
<1>3. t \in [1..Len(t) -> {t[i] : i \in DOMAIN t}]
  BY <1>2, LenProperties
<1>4. IsSequence(t)
  <2>1. Len(t) \in Nat
    BY <1>2
  <2> DEFINE T == {t[i] : i \in DOMAIN t}
  <2> HIDE DEF T
  <2>2. t \in [1..Len(t) -> T]
    BY <1>3 DEF T
  <2>3. t \in Seq(T)
    BY <2>1, <2>2
  <2> QED
    BY <2>3 DEF IsSequence, T
<1> QED
  BY <1>2, <1>4 DEF t

\* A window only depends on the rows up to its position.
LEMMA WindowPrefix ==
    ASSUME NEW s, NEW t, NEW p \in Nat, \A j \in 1..p : s[j] = t[j]
    PROVE  WindowAt(s, p) = WindowAt(t, p)
BY MixerAssumption DEF WindowAt

\* Shifting in the next row.
LEMMA WindowShift ==
    ASSUME NEW s \in Seq(Input), NEW p \in Nat, p < Len(s)
    PROVE  Append(Tail(WindowAt(s, p)), s[p + 1]) = WindowAt(s, p + 1)
<1> DEFINE w == WindowAt(s, p)
           v == WindowAt(s, p + 1)
           x == s[p + 1]
<1>1. Kernel \in Nat \ {0} /\ Len(s) \in Nat
  BY MixerAssumption, LenProperties
<1>2. x \in Cell
  BY <1>1, ElementOfSeq DEF Cell
<1>3. /\ w \in [1..Kernel -> Cell] /\ v \in [1..Kernel -> Cell]
      /\ \A k \in 1..Kernel :
           /\ w[k] = IF p - Kernel + k < 1 THEN Zero ELSE s[p - Kernel + k]
           /\ v[k] = IF p + 1 - Kernel + k < 1 THEN Zero ELSE s[p + 1 - Kernel + k]
  BY <1>1, ElementOfSeq DEF WindowAt, Cell
<1> HIDE DEF w, v
<1>4. v[Kernel] = x /\ \A k \in 1..(Kernel - 1) : v[k] = w[k + 1]
  <2>1. v[Kernel] = x
    BY <1>1, <1>3
  <2>2. ASSUME NEW k \in 1..(Kernel - 1) PROVE v[k] = w[k + 1]
    <3>1. k \in 1..Kernel /\ k + 1 \in 1..Kernel
      BY <1>1
    <3>2. /\ w[k + 1] = IF p - Kernel + (k + 1) < 1 THEN Zero ELSE s[p - Kernel + (k + 1)]
          /\ v[k] = IF p + 1 - Kernel + k < 1 THEN Zero ELSE s[p + 1 - Kernel + k]
      BY <1>3, <3>1
    <3>3. p - Kernel + (k + 1) = p + 1 - Kernel + k
      BY <1>1
    <3> QED
      BY <3>2, <3>3
  <2> QED
    BY <2>1, <2>2
<1> HIDE DEF x
<1>5. /\ w \in Seq(Cell) /\ Len(w) = Kernel /\ v \in Seq(Cell) /\ Len(v) = Kernel
  BY <1>1, <1>3
<1>6. w # << >>
  BY <1>1, <1>5, EmptySeq
<1>7. /\ Tail(w) \in Seq(Cell) /\ Len(Tail(w)) = Kernel - 1
      /\ \A k \in 1..(Kernel - 1) : Tail(w)[k] = w[k + 1]
  BY <1>5, <1>6, HeadTailProperties
<1> DEFINE u == Tail(w)
<1> HIDE DEF u
<1>8. /\ Append(u, x) \in Seq(Cell) /\ Len(Append(u, x)) = Kernel
      /\ \A k \in 1..(Kernel - 1) : Append(u, x)[k] = u[k]
      /\ Append(u, x)[Kernel] = x
  BY <1>1, <1>2, <1>7, AppendProperties DEF u
<1>9. \A k \in 1..Kernel : Append(u, x)[k] = v[k]
  BY <1>1, <1>4, <1>7, <1>8 DEF u
<1>10. Append(u, x) = v
  BY <1>5, <1>8, <1>9, SeqEqual
<1> QED
  BY <1>10 DEF u, w, v, x

\* One more update of the matrix.
LEMMA MatrixStep ==
    ASSUME NEW s, NEW p \in Nat
    PROVE  Append([i \in 1..p |-> WindowAt(s, i)], WindowAt(s, p + 1))
             = [i \in 1..(p + 1) |-> WindowAt(s, i)]
<1> DEFINE S == {WindowAt(s, i) : i \in 1..(p + 1)}
           m == [i \in 1..p |-> WindowAt(s, i)]
           l == [i \in 1..(p + 1) |-> WindowAt(s, i)]
<1>1. /\ m \in Seq(S) /\ Len(m) = p /\ l \in Seq(S) /\ Len(l) = p + 1
      /\ l[p + 1] \in S /\ l[p + 1] = WindowAt(s, p + 1)
      /\ \A i \in 1..p : m[i] = l[i]
  OBVIOUS
<1> HIDE DEF S, m, l
<1> DEFINE e == l[p + 1]
<1> HIDE DEF e
<1>2. /\ Append(m, e) \in Seq(S) /\ Len(Append(m, e)) = p + 1
      /\ \A i \in 1..p : Append(m, e)[i] = m[i]
      /\ Append(m, e)[p + 1] = e
  BY <1>1, AppendProperties DEF e
<1>3. \A i \in 1..(p + 1) : Append(m, e)[i] = l[i]
  BY <1>1, <1>2 DEF e
<1>4. Append(m, e) = l
  BY <1>1, <1>2, <1>3, SeqEqual
<1> QED
  BY <1>1, <1>4 DEF m, l, e
-----------------------------------------------------------------------------
(* What the handlers do to a mixer state. *)

\* The history can be read back from the state.
LEMMA FoldedIs ==
    ASSUME NEW f \in {"GDN", "QSA"}, NEW state, NEW h \in Seq(Input),
           Holds(f, state, h)
    PROVE  FoldedBy(f, state) = h
<1>1. Len(h) \in Nat /\ h = [i \in 1..Len(h) |-> h[i]]
  BY LenProperties
<1>2. CASE f = "GDN"
  <2>1. state.recurrent = [i \in 1..Len(h) |-> WindowAt(h, i)]
    BY <1>2 DEF Holds, GdnFolds
  <2>2. \A i \in 1..Len(h) : WindowAt(h, i)[Kernel] = h[i]
    BY MixerAssumption DEF WindowAt
  <2>3. FoldedBy(f, state) = [i \in 1..Len(h) |-> h[i]]
    BY <1>2, <2>1, <2>2 DEF FoldedBy
  <2> QED
    BY <1>1, <2>3
<1>3. CASE f = "QSA"
  <2>1. state.length = Len(h)
    BY <1>3 DEF Holds, QsaFolds
  <2>2. \A i \in 0..(Len(h) - 1) : state["value"][i] = h[i + 1]
    BY <1>3 DEF Holds, QsaFolds, Kinds, RowOf
  <2>3. \A i \in 1..Len(h) : state.value[i - 1] = h[i]
    <3>1. ASSUME NEW i \in 1..Len(h)
          PROVE  i - 1 \in 0..(Len(h) - 1) /\ (i - 1) + 1 = i
      BY <1>1
    <3> QED
      BY <2>2, <3>1
  <2>4. FoldedBy(f, state) = [i \in 1..Len(h) |-> h[i]]
    BY <1>3, <2>1, <2>3 DEF FoldedBy
  <2> QED
    BY <1>1, <2>4
<1> QED
  BY <1>2, <1>3

\* Nothing has been folded into a new state.
LEMMA FreshGdnHolds ==
    ASSUME family = "GDN" PROVE StateHolds(FreshGdn, << >>)
<1>1. /\ Len(<< >>) = 0 /\ Kernel \in Nat \ {0}
      /\ [i \in 1..0 |-> WindowAt(<< >>, i)] = << >>
  BY MixerAssumption, EmptySeq
<1>2. WindowAt(<< >>, 0) = [k \in 1..Kernel |-> Zero]
  BY <1>1 DEF WindowAt
<1> QED
  BY <1>1, <1>2 DEF StateHolds, Holds, GdnFolds, FreshGdn

LEMMA FreshQsaHolds ==
    ASSUME family = "QSA" PROVE StateHolds(FreshQsa, << >>)
<1>1. Len(<< >>) = 0 /\ Capacity \in Nat
  BY MixerAssumption, EmptySeq
<1>2. \A kind \in Kinds : DOMAIN FreshQsa[kind] = 0..(Capacity - 1)
  BY DEF Kinds, FreshQsa, Cleared
<1> QED
  BY <1>1, <1>2 DEF StateHolds, Holds, QsaFolds, FreshQsa

\* A reset forgets the history, although a QSA state keeps its rows.
LEMMA ResetHolds ==
    ASSUME NEW s, NEW h, StateHolds(mixer[s], h), family \in {"GDN", "QSA"}
    PROVE  StateHolds(ResetMixer(s), << >>)
<1>1. CASE family = "GDN"
  BY <1>1, FreshGdnHolds DEF ResetMixer
<1>2. CASE family = "QSA"
  <2> DEFINE old == mixer[s]
             new == [old EXCEPT !.length = 0]
  <2>1. /\ old = [length |-> Len(h), key |-> old.key, value |-> old.value,
                  raw |-> old.raw]
        /\ \A kind \in Kinds : DOMAIN old[kind] = 0..(Capacity - 1)
    BY <1>2 DEF StateHolds, Holds, QsaFolds
  <2> HIDE DEF old
  <2>2. /\ new = [length |-> 0, key |-> new.key, value |-> new.value, raw |-> new.raw]
        /\ new.key = old.key /\ new.value = old.value /\ new.raw = old.raw
    BY <2>1
  <2>3. \A kind \in Kinds : DOMAIN new[kind] = 0..(Capacity - 1)
    BY <2>1, <2>2 DEF Kinds
  <2>4. Len(<< >>) = 0 /\ Capacity \in Nat
    BY MixerAssumption, EmptySeq
  <2> HIDE DEF new
  <2>5. QsaFolds(new, << >>)
    BY <2>2, <2>3, <2>4 DEF QsaFolds
  <2>6. ResetMixer(s) = new
    BY <1>2 DEF ResetMixer, new, old
  <2> QED
    BY <1>2, <2>5, <2>6 DEF StateHolds, Holds
<1> QED
  BY <1>1, <1>2

\* The copy is accepted, and the other slot then holds what this one holds.
LEMMA ImportHolds ==
    ASSUME NEW old, NEW image, NEW h \in Seq(Input), NEW g,
           StateHolds(old, g), StateHolds(image, h), family \in {"GDN", "QSA"}
    PROVE  ImportAccepted(image) /\ StateHolds(Import(old, image), h)
<1>1. CASE family = "GDN"
  <2>1. ~image.initialized => /\ image.conv = FreshGdn.conv
                              /\ image.recurrent = << >>
    <3>1. StateHolds(FreshGdn, << >>)
      BY <1>1, FreshGdnHolds
    <3>2. /\ FreshGdn.conv = WindowAt(<< >>, Len(<< >>))
          /\ FreshGdn.recurrent = [i \in 1..Len(<< >>) |-> WindowAt(<< >>, i)]
          /\ FreshGdn.recurrent = << >>
      BY <1>1, <3>1 DEF StateHolds, Holds, GdnFolds, FreshGdn
    <3> QED
      BY <1>1, <3>2 DEF StateHolds, Holds, GdnFolds
  <2> QED
    BY <1>1, <2>1 DEF ImportAccepted, Import
<1>2. CASE family = "QSA"
  <2> DEFINE new == Import(old, image)
  <2>1. /\ image.length = Len(h) /\ Len(h) <= Capacity
        /\ \A kind \in Kinds :
             /\ DOMAIN image[kind] = 0..(Capacity - 1)
             /\ \A i \in 0..(Len(h) - 1) : image[kind][i] = RowOf(kind, h, i)
        /\ \A kind \in Kinds : DOMAIN old[kind] = 0..(Capacity - 1)
    BY <1>2 DEF StateHolds, Holds, QsaFolds
  <2>2. new = [length |-> Len(h),
               key    |-> Overlay(old["key"], image["key"], Len(h)),
               value  |-> Overlay(old["value"], image["value"], Len(h)),
               raw    |-> Overlay(old["raw"], image["raw"], Len(h))]
    BY <1>2, <2>1 DEF Import
  <2> HIDE DEF new
  <2>3. \A kind \in Kinds : new[kind] = Overlay(old[kind], image[kind], Len(h))
    BY <2>2 DEF Kinds
  <2>4. ASSUME NEW kind \in Kinds
        PROVE  /\ DOMAIN new[kind] = 0..(Capacity - 1)
               /\ \A i \in 0..(Len(h) - 1) : new[kind][i] = RowOf(kind, h, i)
    <3>1. Len(h) \in Nat /\ Capacity \in Nat
      BY MixerAssumption, LenProperties
    <3>2. \A i \in 0..(Len(h) - 1) : i \in 0..(Capacity - 1) /\ i < Len(h)
      BY <2>1, <3>1
    <3> QED
      BY <2>1, <2>3, <3>2 DEF Overlay
  <2>5. QsaFolds(new, h)
    BY <2>1, <2>2, <2>4 DEF QsaFolds
  <2>6. ImportAccepted(image)
    BY <1>2, <2>1 DEF ImportAccepted
  <2> QED
    BY <1>2, <2>5, <2>6 DEF StateHolds, Holds, new
<1> QED
  BY <1>1, <1>2
-----------------------------------------------------------------------------
(* Division. *)

\* A multiple of a divisor that is not below it in one direction.
LEMMA ProductBound ==
    ASSUME NEW b \in Nat \ {0}, NEW k \in Int, k >= 1
    PROVE  b * k >= b
<1>1. b * k = b + b * (k - 1)
  OBVIOUS
<1>2. b * (k - 1) >= 0
  OBVIOUS
<1> QED
  BY <1>1, <1>2

\* Quotient and remainder are unique.
LEMMA DivMod ==
    ASSUME NEW q \in Nat, NEW b \in Nat \ {0}, NEW r \in 0..(b - 1)
    PROVE  (q * b + r) \div b = q /\ (q * b + r) % b = r
<1> DEFINE a == q * b + r
           d == a \div b
           m == a % b
<1>1. a \in Int /\ d \in Int /\ m \in 0..(b - 1) /\ a = b * d + m
  OBVIOUS
<1>2. b * (q - d) = m - r
  OBVIOUS
<1> HIDE DEF d, m
<1>3. ~(q - d >= 1)
  BY <1>1, <1>2, ProductBound
<1>4. ~(d - q >= 1)
  <2>1. b * (d - q) = r - m
    BY <1>1, <1>2
  <2> QED
    BY <1>1, <2>1, ProductBound
<1>5. q = d
  BY <1>1, <1>3, <1>4
<1>6. r = m
  BY <1>1, <1>2, <1>5
<1> QED
  BY <1>5, <1>6 DEF d, m

LEMMA SameDigits ==
    ASSUME NEW b \in Nat \ {0}, NEW q \in Nat, NEW m \in 0..(b - 1),
           NEW u \in Nat, NEW k \in 0..(b - 1), q * b + m = u * b + k
    PROVE  q = u /\ m = k
<1>1. (q * b + m) \div b = q /\ (q * b + m) % b = m
  BY DivMod
<1>2. (u * b + k) \div b = u /\ (u * b + k) % b = k
  BY DivMod
<1> QED
  BY <1>1, <1>2

\* Division with remainder.
LEMMA Division ==
    ASSUME NEW a \in Nat, NEW b \in Nat \ {0}
    PROVE  /\ a \div b \in Nat /\ a % b \in 0..(b - 1)
           /\ a = (a \div b) * b + (a % b)
<1> DEFINE d == a \div b
           m == a % b
<1>1. d \in Int /\ m \in 0..(b - 1) /\ a = b * d + m
  OBVIOUS
<1> HIDE DEF d, m
<1>2. ~(-d >= 1)
  <2>1. b * (-d) = m - a
    BY <1>1
  <2> QED
    BY <1>1, <2>1, ProductBound
<1>3. d \in Nat /\ b * d = d * b
  BY <1>1, <1>2
<1> QED
  BY <1>1, <1>3 DEF d, m

\* A quotient is bounded by what the dividend is a part of.
LEMMA QuotientBound ==
    ASSUME NEW n \in Nat, NEW b \in Nat \ {0}, NEW a \in 0..(n * b - 1)
    PROVE  a \div b \in 0..(n - 1)
<1> DEFINE d == a \div b
           m == a % b
<1>1. a \in Nat /\ a < n * b
  OBVIOUS
<1>2. d \in Nat /\ m \in 0..(b - 1) /\ a = d * b + m
  BY <1>1, Division
<1> HIDE DEF d, m
<1>3. ~(d - n >= 0)
  <2> SUFFICES ASSUME d - n >= 0 PROVE FALSE
    OBVIOUS
  <2>1. d - n \in Nat /\ (d - n) * b \in Nat
    BY <1>2
  <2>2. (d - n) * b = d * b - n * b
    BY <1>2
  <2> QED
    BY <1>1, <1>2, <2>1, <2>2
<1>4. d < n
  BY <1>2, <1>3
<1> QED
  BY <1>2, <1>4 DEF d

\* A digit and a rest below its weight make a number below the next weight.
LEMMA DigitBound ==
    ASSUME NEW n \in Nat, NEW b \in Nat \ {0}, NEW d \in 0..(n - 1), NEW m \in 0..(b - 1)
    PROVE  d * b + m \in 0..(n * b - 1)
<1>1. n - 1 - d \in Nat /\ (n - 1 - d) * b \in Nat
  OBVIOUS
<1>2. n * b = (n - 1 - d) * b + d * b + b
  OBVIOUS
<1>3. d * b \in Nat
  OBVIOUS
<1> QED
  BY <1>1, <1>2, <1>3
-----------------------------------------------------------------------------
(* The selection of blocks. *)

\* Every set of naturals that is not empty has a least member.
LEMMA Least ==
    ASSUME NEW S \in SUBSET Nat, S # {}
    PROVE  \E x \in S : \A y \in S : x <= y
<1>1. IsWellFoundedOn(OpToRel(<, Nat), Nat)
  BY NatLessThanWellFounded
<1>2. PICK x \in S : \A y \in S : ~(<<y, x>> \in OpToRel(<, Nat))
  BY <1>1, WFMin
<1>3. \A y \in S : ~(y < x)
  BY <1>2 DEF OpToRel
<1> QED
  BY <1>3

Scores(count) == [0..(count - 1) -> Int]

\* Better is a strict linear order of the blocks.
LEMMA BetterOrder ==
    ASSUME NEW count \in Nat, NEW s \in Scores(count),
           NEW a \in 0..(count - 1), NEW b \in 0..(count - 1), NEW c \in 0..(count - 1)
    PROVE  /\ ~Better(s, a, a)
           /\ Better(s, a, b) => ~Better(s, b, a)
           /\ a # b => Better(s, a, b) \/ Better(s, b, a)
           /\ Better(s, a, b) /\ Better(s, b, c) => Better(s, a, c)
<1>1. s[a] \in Int /\ s[b] \in Int /\ s[c] \in Int
  BY DEF Scores
<1> QED
  BY <1>1 DEF Better

\* Where a candidate goes, and what is then chosen.
Inserted(s, limit, chosen, c, B, place) ==
    LET r == Insert(s, limit, chosen, c)
    IN  /\ place = Len(chosen) + 1 \/ Better(s, c, chosen[place])
        /\ \A m \in 1..(place - 1) : ~Better(s, c, chosen[m])
        /\ r \in Seq(B)
        /\ Len(r) = IF Len(chosen) < limit THEN Len(chosen) + 1 ELSE limit
        /\ \A i \in 1..Len(r) : r[i] = IF i < place THEN chosen[i]
                                       ELSE IF i = place THEN c ELSE chosen[i - 1]

LEMMA InsertIs ==
    ASSUME NEW s, NEW limit \in Nat, NEW B, NEW chosen \in Seq(B), NEW c \in B,
           Len(chosen) <= limit
    PROVE  \E place \in 1..(Len(chosen) + 1) : Inserted(s, limit, chosen, c, B, place)
<1> DEFINE l == Len(chosen)
           Fits(n) == /\ n = l + 1 \/ Better(s, c, chosen[n])
                      /\ \A m \in 1..(n - 1) : ~Better(s, c, chosen[m])
           place == CHOOSE n \in 1..(l + 1) : Fits(n)
           before == SubSeq(chosen, 1, place - 1)
           after == SubSeq(chosen, place, l)
           longer == before \o <<c>> \o after
           r == Insert(s, limit, chosen, c)
<1>1. l \in Nat
  BY LenProperties
<1>2. place \in 1..(l + 1) /\ Fits(place)
  <2> DEFINE open == {n \in 1..(l + 1) : n = l + 1 \/ Better(s, c, chosen[n])}
  <2>1. open \in SUBSET Nat /\ l + 1 \in open
    BY <1>1
  <2>2. PICK n \in open : \A m \in open : n <= m
    BY <2>1, Least
  <2>3. ASSUME NEW m \in 1..(n - 1) PROVE ~Better(s, c, chosen[m])
    <3>1. m \in 1..(l + 1) /\ ~(n <= m)
      BY <1>1, <2>1
    <3> QED
      BY <2>2, <3>1
  <2>4. n \in 1..(l + 1) /\ Fits(n)
    BY <2>2, <2>3
  <2> HIDE DEF Fits
  <2> QED
    BY <2>4
<1>3. r = IF Len(longer) <= limit THEN longer ELSE SubSeq(longer, 1, limit)
  BY DEF Insert
<1> HIDE DEF place, r
<1> HIDE DEF l
<1>4. /\ before \in Seq(B) /\ Len(before) = place - 1
      /\ \A i \in 1..(place - 1) : before[i] = chosen[i]
      /\ after \in Seq(B) /\ Len(after) = l - place + 1
      /\ \A i \in 1..(l - place + 1) : after[i] = chosen[place + i - 1]
  BY <1>1, <1>2, SubSeqProperties DEF l
<1> HIDE DEF before, after
<1>5. <<c>> \in Seq(B) /\ Len(<<c>>) = 1 /\ <<c>>[1] = c
  OBVIOUS
<1> DEFINE front == before \o <<c>>
<1>6. /\ front \in Seq(B) /\ Len(front) = place
      /\ \A i \in 1..(place - 1) : front[i] = chosen[i]
      /\ front[place] = c
  <2>1. front \in Seq(B) /\ Len(front) = Len(before) + 1
        /\ \A i \in 1..Len(front) : front[i] = IF i <= Len(before) THEN before[i]
                                               ELSE <<c>>[i - Len(before)]
    BY <1>4, <1>5, ConcatProperties
  <2>2. Len(front) = place /\ place \in 1..Len(front) /\ ~(place <= Len(before))
        /\ place - Len(before) = 1
    BY <1>1, <1>2, <1>4, <2>1
  <2>3. front[place] = c
    BY <1>5, <2>1, <2>2
  <2>4. ASSUME NEW i \in 1..(place - 1) PROVE front[i] = chosen[i]
    <3>1. i \in 1..Len(front) /\ i <= Len(before)
      BY <1>1, <1>2, <1>4, <2>2
    <3> QED
      BY <1>4, <2>1, <3>1
  <2> QED
    BY <2>1, <2>2, <2>3, <2>4
<1> HIDE DEF front
<1>7. /\ longer \in Seq(B) /\ Len(longer) = l + 1
      /\ \A i \in 1..(l + 1) : longer[i] = IF i < place THEN chosen[i]
                                           ELSE IF i = place THEN c ELSE chosen[i - 1]
  <2>1. longer = front \o after
    BY DEF front
  <2> HIDE DEF longer
  <2>2. longer \in Seq(B) /\ Len(longer) = Len(front) + Len(after)
        /\ \A i \in 1..Len(longer) : longer[i] = IF i <= Len(front) THEN front[i]
                                                 ELSE after[i - Len(front)]
    <3>1. front \in Seq(B) /\ after \in Seq(B)
      BY <1>4, <1>6
    <3>2. /\ front \o after \in Seq(B)
          /\ Len(front \o after) = Len(front) + Len(after)
          /\ \A i \in 1..(Len(front) + Len(after)) :
               (front \o after)[i] = IF i <= Len(front) THEN front[i] ELSE after[i - Len(front)]
      BY ONLY <3>1, ConcatProperties
    <3> QED
      BY ONLY <2>1, <3>2
  <2>3. Len(longer) = l + 1
    BY <1>1, <1>2, <1>4, <1>6, <2>2
  <2>4. ASSUME NEW i \in 1..(l + 1)
        PROVE  longer[i] = IF i < place THEN chosen[i] ELSE IF i = place THEN c ELSE chosen[i - 1]
    <3>1. CASE i < place
      <4>1. i \in 1..(place - 1) /\ i <= Len(front) /\ i \in 1..Len(longer)
        BY <1>1, <1>2, <1>6, <2>3, <3>1
      <4> QED
        BY <1>6, <2>2, <3>1, <4>1
    <3>2. CASE i = place
      <4>1. i <= Len(front) /\ i \in 1..Len(longer) /\ ~(i < place)
        BY <1>1, <1>2, <1>6, <2>3, <3>2
      <4> QED
        BY <1>6, <2>2, <3>2, <4>1
    <3>3. CASE i > place
      <4>1. /\ ~(i <= Len(front)) /\ i \in 1..Len(longer) /\ ~(i < place) /\ i # place
            /\ i - place \in 1..(l - place + 1) /\ place + (i - place) - 1 = i - 1
        BY <1>1, <1>2, <1>6, <2>3, <3>3
      <4>2. after[i - place] = chosen[place + (i - place) - 1]
        BY <1>4, <4>1
      <4>3. longer[i] = after[i - place]
        BY <1>6, <2>2, <4>1
      <4> QED
        BY <4>1, <4>2, <4>3
    <3> QED
      BY <1>1, <1>2, <3>1, <3>2, <3>3
  <2> QED
    BY <2>2, <2>3, <2>4
<1> HIDE DEF longer
<1>8. /\ r \in Seq(B)
      /\ Len(r) = IF l < limit THEN l + 1 ELSE limit
      /\ \A i \in 1..Len(r) : r[i] = longer[i] /\ i \in 1..(l + 1)
  <2>1. CASE l < limit
    <3>1. r = longer
      BY <1>1, <1>3, <1>7, <2>1
    <3> QED
      BY <1>7, <2>1, <3>1
  <2>2. CASE ~(l < limit)
    <3>1. l = limit
      BY <1>1, <2>2 DEF l
    <3>2. r = SubSeq(longer, 1, limit) /\ limit \in 0..Len(longer)
      BY <1>1, <1>3, <1>7, <3>1
    <3>3. r \in Seq(B) /\ Len(r) = limit /\ \A i \in 1..limit : r[i] = longer[i]
      <4>1. 1 \in 1..(Len(longer) + 1)
        BY <1>1, <1>7
      <4> QED
        BY <1>7, <3>2, <4>1, SubSeqProperties
    <3> QED
      BY <1>1, <2>2, <3>1, <3>3
  <2> QED
    BY <2>1, <2>2
<1>9. \A i \in 1..Len(r) : r[i] = IF i < place THEN chosen[i]
                                  ELSE IF i = place THEN c ELSE chosen[i - 1]
  BY <1>7, <1>8
<1> HIDE DEF Fits
<1>10. place \in 1..(l + 1) /\ (place = l + 1 \/ Better(s, c, chosen[place]))
       /\ \A m \in 1..(place - 1) : ~Better(s, c, chosen[m])
  BY <1>2 DEF Fits
<1> QED
  BY <1>8, <1>9, <1>10 DEF l, r, Inserted

\* The best of the first c blocks, the better first, as many as the limit allows.
Chosen(s, c, limit, chosen) ==
    /\ chosen \in Seq(0..(c - 1))
    /\ Len(chosen) = IF c < limit THEN c ELSE limit
    /\ \A i, j \in 1..Len(chosen) : i < j => Better(s, chosen[i], chosen[j])
    /\ \A b \in 0..(c - 1) :
         \/ \E i \in 1..Len(chosen) : chosen[i] = b
         \/ limit <= c /\ \A i \in 1..Len(chosen) : Better(s, chosen[i], b)

LEMMA InsertKeeps ==
    ASSUME NEW count \in Nat, NEW s \in Scores(count), NEW limit \in Nat \ {0},
           NEW c \in 0..(count - 1), NEW chosen, Chosen(s, c, limit, chosen)
    PROVE  Chosen(s, c + 1, limit, Insert(s, limit, chosen, c))
<1> DEFINE l == Len(chosen)
           r == Insert(s, limit, chosen, c)
           B == 0..c
<1>1. /\ l \in Nat /\ l = IF c < limit THEN c ELSE limit
      /\ \A i \in 1..l : chosen[i] \in 0..(c - 1)
      /\ \A i, j \in 1..l : i < j => Better(s, chosen[i], chosen[j])
  BY ElementOfSeq, LenProperties DEF Chosen
<1>2. chosen \in Seq(B) /\ c \in B /\ l <= limit /\ c \in Nat
  <2>1. 0..(c - 1) \subseteq B
    OBVIOUS
  <2>2. chosen \in Seq(0..(c - 1))
    BY DEF Chosen
  <2>3. chosen \in Seq(B)
    BY <2>1, <2>2, SeqMonotonic
  <2> QED
    BY <1>1, <2>3
<1>0. PICK place \in 1..(l + 1) : Inserted(s, limit, chosen, c, B, place)
  <2> HIDE DEF B
  <2> QED
    BY <1>2, InsertIs
<1>3. /\ place \in 1..(l + 1)
      /\ place = l + 1 \/ Better(s, c, chosen[place])
      /\ \A m \in 1..(place - 1) : ~Better(s, c, chosen[m])
      /\ r \in Seq(B)
      /\ Len(r) = IF l < limit THEN l + 1 ELSE limit
      /\ \A i \in 1..Len(r) : r[i] = IF i < place THEN chosen[i]
                                     ELSE IF i = place THEN c ELSE chosen[i - 1]
  BY <1>0 DEF Inserted
<1> HIDE DEF l, r, B
<1>4. \A i \in 1..l : chosen[i] \in 0..(count - 1) /\ chosen[i] # c
  BY <1>1, <1>2
<1>5. ASSUME NEW m \in 1..l, m < place PROVE Better(s, chosen[m], c)
  <2>1. m \in 1..(place - 1)
    BY <1>1, <1>3, <1>5
  <2>2. ~Better(s, c, chosen[m])
    BY <1>3, <2>1
  <2> QED
    BY <1>4, <2>2, BetterOrder
<1>6. ASSUME NEW m \in 1..l, m >= place PROVE Better(s, c, chosen[m])
  <2>1. place \in 1..l /\ place # l + 1
    BY <1>1, <1>3, <1>6
  <2>2. Better(s, c, chosen[place])
    BY <1>3, <2>1
  <2>3. CASE m = place
    BY <2>2, <2>3
  <2>4. CASE m # place
    <3>1. Better(s, chosen[place], chosen[m])
      BY <1>1, <1>3, <1>6, <2>1, <2>4
    <3> QED
      BY <1>4, <2>1, <2>2, <3>1, BetterOrder
  <2> QED
    BY <2>3, <2>4
<1>7. Len(r) \in Nat /\ Len(r) <= l + 1 /\ (l < limit => Len(r) = l + 1) /\ (l >= limit => Len(r) = l)
  BY <1>1, <1>2, <1>3
<1>8. Len(r) = IF c + 1 < limit THEN c + 1 ELSE limit
  BY <1>1, <1>2, <1>3
<1>9. ASSUME NEW i \in 1..Len(r), NEW j \in 1..Len(r), i < j PROVE Better(s, r[i], r[j])
  <2>1. i \in Nat /\ j \in Nat /\ place \in Nat /\ i <= l /\ j <= l + 1
    BY <1>1, <1>3, <1>7, <1>9
  <2>2. CASE j < place
    <3>1. i \in 1..l /\ j \in 1..l /\ i < place
      BY <1>1, <1>3, <1>9, <2>1, <2>2
    <3> QED
      BY <1>1, <1>3, <1>9, <2>2, <3>1
  <2>3. CASE j = place
    <3>1. i \in 1..l /\ i < place
      BY <1>1, <1>3, <1>9, <2>1, <2>3
    <3>2. r[i] = chosen[i] /\ r[j] = c
      BY <1>3, <2>3, <3>1
    <3> QED
      BY <1>5, <3>1, <3>2
  <2>4. CASE j > place
    <3>1. j - 1 \in 1..l /\ r[j] = chosen[j - 1] /\ j - 1 >= place
      BY <1>1, <1>3, <1>9, <2>1, <2>4
    <3>2. CASE i < place
      <4>1. i \in 1..l /\ i < j - 1 /\ r[i] = chosen[i]
        BY <1>1, <1>3, <2>1, <2>4, <3>2
      <4> QED
        BY <1>1, <3>1, <4>1
    <3>3. CASE i = place
      BY <1>3, <1>6, <3>1, <3>3
    <3>4. CASE i > place
      <4>1. i - 1 \in 1..l /\ r[i] = chosen[i - 1] /\ i - 1 < j - 1
        BY <1>1, <1>3, <1>9, <2>1, <3>4
      <4> QED
        BY <1>1, <3>1, <4>1
    <3> QED
      BY <2>1, <3>2, <3>3, <3>4
  <2> QED
    BY <2>1, <2>2, <2>3, <2>4
<1>10. ASSUME NEW b \in 0..c
       PROVE  \/ \E i \in 1..Len(r) : r[i] = b
              \/ limit <= c + 1 /\ \A i \in 1..Len(r) : Better(s, r[i], b)
  <2>1. c \in 0..(count - 1) /\ b \in 0..(count - 1)
    BY <1>2
  <2>2. CASE b = c
    <3>1. CASE place <= Len(r)
      <4>1. place \in 1..Len(r) /\ r[place] = c
        BY <1>3, <1>7, <3>1
      <4> QED
        BY <2>2, <4>1
    <3>2. CASE ~(place <= Len(r))
      <4>1. l >= limit /\ Len(r) = l /\ place = l + 1 /\ limit <= c + 1
        BY <1>1, <1>2, <1>3, <1>7, <3>2
      <4>2. \A i \in 1..Len(r) : i \in 1..l /\ i < place /\ r[i] = chosen[i]
        BY <1>1, <1>3, <4>1
      <4> QED
        BY <1>5, <2>2, <4>1, <4>2
    <3> QED
      BY <3>1, <3>2
  <2>3. CASE b # c /\ \E i \in 1..l : chosen[i] = b
    <3>1. PICK i \in 1..l : chosen[i] = b
      BY <2>3
    <3>2. CASE i < place
      <4>1. CASE i \in 1..Len(r)
        BY <1>3, <3>1, <3>2, <4>1
      <4>2. CASE i \notin 1..Len(r)
        BY <1>1, <1>3, <1>7, <3>1, <4>2
      <4> QED
        BY <4>1, <4>2
    <3>3. CASE ~(i < place)
      <4>1. CASE i + 1 <= Len(r)
        <5>1. i + 1 \in 1..Len(r) /\ ~(i + 1 < place) /\ i + 1 # place /\ i + 1 - 1 = i
          BY <1>1, <1>3, <1>7, <3>3, <4>1
        <5>2. r[i + 1] = chosen[i]
          BY <1>3, <5>1
        <5> QED
          BY <3>1, <5>1, <5>2
      <4>2. CASE ~(i + 1 <= Len(r))
        <5>1. i = l /\ Len(r) = l /\ l >= limit /\ limit <= c + 1 /\ place <= l
          BY <1>1, <1>2, <1>3, <1>7, <3>3, <4>2
        <5>2. ASSUME NEW k \in 1..Len(r) PROVE Better(s, r[k], b)
          <6>1. k \in 1..l /\ k \in Nat
            BY <1>7, <5>1
          <6>2. CASE k < place
            <7>1. r[k] = chosen[k] /\ k < i
              BY <1>3, <5>1, <6>2
            <7> QED
              BY <1>1, <3>1, <6>1, <7>1
          <6>3. CASE k = place
            <7>1. r[k] = c /\ i >= place
              BY <1>3, <5>1, <6>3
            <7> QED
              BY <1>6, <3>1, <7>1
          <6>4. CASE k > place
            <7>1. r[k] = chosen[k - 1] /\ k - 1 \in 1..l /\ k - 1 < i
              BY <1>1, <1>3, <5>1, <6>1, <6>4
            <7> QED
              BY <1>1, <3>1, <7>1
          <6> QED
            BY <1>3, <6>1, <6>2, <6>3, <6>4
        <5> QED
          BY <5>1, <5>2
      <4> QED
        BY <4>1, <4>2
    <3> QED
      BY <3>2, <3>3
  <2>4. CASE b # c /\ ~\E i \in 1..l : chosen[i] = b
    <3>1. b \in 0..(c - 1)
      BY <1>2, <2>4
    <3>2. limit <= c /\ \A i \in 1..l : Better(s, chosen[i], b)
      BY <2>4, <3>1 DEF Chosen, l
    <3>3. l = limit /\ Len(r) = l /\ limit <= c + 1 /\ l \in 1..l
      BY <1>1, <1>2, <1>7, <3>2
    <3>4. ASSUME NEW k \in 1..Len(r) PROVE Better(s, r[k], b)
      <4>1. k \in 1..l /\ k \in Nat
        BY <1>7, <3>3
      <4>2. CASE k < place
        BY <1>3, <3>2, <4>1, <4>2
      <4>3. CASE k = place
        <5>1. r[k] = c /\ Better(s, c, chosen[place]) /\ Better(s, chosen[place], b)
          BY <1>1, <1>3, <3>2, <4>1, <4>3
        <5>2. chosen[place] \in 0..(count - 1)
          BY <1>4, <4>1, <4>3
        <5> QED
          BY <2>1, <5>1, <5>2, BetterOrder
      <4>4. CASE k > place
        <5>1. r[k] = chosen[k - 1] /\ k - 1 \in 1..l
          BY <1>1, <1>3, <4>1, <4>4
        <5> QED
          BY <3>2, <5>1
      <4> QED
        BY <1>3, <4>1, <4>2, <4>3, <4>4
    <3> QED
      BY <3>3, <3>4
  <2> QED
    BY <2>2, <2>3, <2>4
<1>11. 0..(c + 1 - 1) = 0..c
  BY <1>2
<1> QED
  BY <1>3, <1>8, <1>9, <1>10, <1>11 DEF Chosen, r, B

\* The choice after each candidate, as the recursion computes it.
Steps(s, limit, c, after) ==
    after = [d \in 0..c |-> IF d = 0 THEN << >> ELSE Insert(s, limit, after[d - 1], d - 1)]

LEMMA StepsExist ==
    ASSUME NEW s, NEW limit, NEW count \in Nat
    PROVE  \E after : Steps(s, limit, count, after)
<1> DEFINE Ends(c) == \E after : Steps(s, limit, c, after)
           apart == {c \in 0..count : ~Ends(c)}
<1>1. apart = {}
  <2> SUFFICES ASSUME apart # {} PROVE FALSE
    OBVIOUS
  <2>1. apart \in SUBSET Nat
    OBVIOUS
  <2>2. PICK c \in apart : \A j \in apart : c <= j
    BY <2>1, Least
  <2>3. c \in 0..count /\ ~Ends(c)
    BY <2>2
  <2>4. CASE c = 0
    <3> DEFINE after == [d \in 0..0 |-> << >>]
    <3>1. Steps(s, limit, 0, after)
      BY DEF Steps
    <3> QED
      BY <2>3, <2>4, <3>1
  <2>5. CASE c # 0
    <3>1. c - 1 \in 0..count /\ ~(c <= c - 1) /\ c \in Nat
      BY <2>3, <2>5
    <3>2. c - 1 \notin apart
      BY <2>2, <3>1
    <3>3. PICK after : Steps(s, limit, c - 1, after)
      BY <3>1, <3>2
    <3> DEFINE longer == [d \in 0..c |-> IF d = c THEN Insert(s, limit, after[c - 1], c - 1)
                                         ELSE after[d]]
    <3>4. ASSUME NEW d \in 0..c
          PROVE  longer[d] = IF d = 0 THEN << >> ELSE Insert(s, limit, longer[d - 1], d - 1)
      <4>1. CASE d = c
        <5>1. c - 1 \in 0..c /\ c - 1 # c
          BY <3>1
        <5>2. longer[c - 1] = after[c - 1] /\ longer[c] = Insert(s, limit, after[c - 1], c - 1)
          BY <3>4, <4>1, <5>1
        <5> QED
          BY <2>5, <4>1, <5>2
      <4>2. CASE d # c
        <5>1. d \in 0..(c - 1)
          BY <3>1, <3>4, <4>2
        <5>2. after[d] = IF d = 0 THEN << >> ELSE Insert(s, limit, after[d - 1], d - 1)
          BY <3>3, <5>1 DEF Steps
        <5>3. longer[d] = after[d]
          BY <3>4, <4>2
        <5>4. d # 0 => longer[d - 1] = after[d - 1]
          BY <3>1, <5>1
        <5> QED
          BY <5>2, <5>3, <5>4
      <4> QED
        BY <4>1, <4>2
    <3>5. longer = [d \in 0..c |-> longer[d]]
      OBVIOUS
    <3> HIDE DEF longer
    <3>6. Steps(s, limit, c, longer)
      BY <3>4, <3>5 DEF Steps
    <3> QED
      BY <2>3, <3>6
  <2> QED
    BY <2>4, <2>5
<1>2. count \in 0..count
  OBVIOUS
<1> QED
  BY <1>1, <1>2

LEMMA StepsChosen ==
    ASSUME NEW count \in Nat, NEW s \in Scores(count), NEW limit \in Nat \ {0}, NEW after,
           Steps(s, limit, count, after)
    PROVE  Chosen(s, count, limit, after[count])
<1> DEFINE apart == {c \in 0..count : ~Chosen(s, c, limit, after[c])}
<1>1. \A d \in 0..count :
        after[d] = IF d = 0 THEN << >> ELSE Insert(s, limit, after[d - 1], d - 1)
  BY DEF Steps
<1>2. apart = {}
  <2> SUFFICES ASSUME apart # {} PROVE FALSE
    OBVIOUS
  <2>1. apart \in SUBSET Nat
    OBVIOUS
  <2>2. PICK c \in apart : \A j \in apart : c <= j
    BY <2>1, Least
  <2>3. c \in 0..count /\ ~Chosen(s, c, limit, after[c])
    BY <2>2
  <2>4. CASE c = 0
    <3>1. after[0] = << >>
      BY <1>1, <2>3, <2>4
    <3>2. << >> \in Seq(0..(0 - 1)) /\ Len(<< >>) = 0 /\ 1..0 = {} /\ 0..(0 - 1) = {}
      OBVIOUS
    <3>3. Chosen(s, 0, limit, << >>)
      BY <3>2 DEF Chosen
    <3> QED
      BY <2>3, <2>4, <3>1, <3>3
  <2>5. CASE c # 0
    <3>1. c - 1 \in 0..count /\ c - 1 \in 0..(count - 1) /\ ~(c <= c - 1) /\ c - 1 + 1 = c
      BY <2>3, <2>5
    <3>2. c - 1 \notin apart
      BY <2>2, <3>1
    <3>3. Chosen(s, c - 1, limit, after[c - 1])
      BY <3>1, <3>2
    <3>4. Chosen(s, c - 1 + 1, limit, Insert(s, limit, after[c - 1], c - 1))
      BY <3>1, <3>3, InsertKeeps
    <3>5. after[c] = Insert(s, limit, after[c - 1], c - 1)
      BY <1>1, <2>3, <2>5
    <3> QED
      BY <2>3, <3>1, <3>4, <3>5
  <2> QED
    BY <2>4, <2>5
<1>3. count \in 0..count
  OBVIOUS
<1> QED
  BY <1>2, <1>3

\* What kq_qsa_select_blocks selects.
LEMMA SelectIs ==
    ASSUME NEW count \in Nat, NEW s \in Scores(count), NEW limit \in Nat \ {0}
    PROVE  Chosen(s, count, limit, SelectBlocks(s, count, limit))
<1> DEFINE after == CHOOSE a : Steps(s, limit, count, a)
<1>1. Steps(s, limit, count, after)
  BY StepsExist
<1>2. SelectBlocks(s, count, limit) = after[count]
  BY Zenon DEF SelectBlocks, Steps
<1> HIDE DEF after
<1> QED
  BY <1>1, <1>2, StepsChosen

\* The blocks ahead of a block, and that their number orders the blocks.
Ahead(s, count, b) == {c \in 0..(count - 1) : Better(s, c, b)}

LEMMA AheadFinite ==
    ASSUME NEW count \in Nat, NEW s, NEW b
    PROVE  IsFiniteSet(Ahead(s, count, b)) /\ Cardinality(Ahead(s, count, b)) \in Nat
<1>1. IsFiniteSet(0..(count - 1))
  BY FS_Interval
<1>2. Ahead(s, count, b) \in SUBSET (0..(count - 1))
  BY DEF Ahead
<1>3. IsFiniteSet(Ahead(s, count, b))
  BY <1>1, <1>2, FS_Subset
<1> QED
  BY <1>3, FS_CardinalityType

LEMMA AheadOrders ==
    ASSUME NEW count \in Nat, NEW s \in Scores(count),
           NEW a \in 0..(count - 1), NEW b \in 0..(count - 1), Better(s, a, b)
    PROVE  Cardinality(Ahead(s, count, a)) < Cardinality(Ahead(s, count, b))
<1> DEFINE A == Ahead(s, count, a)
           B == Ahead(s, count, b)
<1>1. A \in SUBSET B
  BY BetterOrder DEF Ahead
<1>2. a \in B /\ a \notin A
  BY BetterOrder DEF Ahead
<1>3. IsFiniteSet(B) /\ Cardinality(A) \in Nat /\ Cardinality(B) \in Nat
  BY AheadFinite
<1> HIDE DEF A, B
<1>4. Cardinality(A) <= Cardinality(B) /\ (Cardinality(B) = Cardinality(A) => B = A)
  BY <1>1, <1>3, FS_Subset
<1>5. Cardinality(A) < Cardinality(B)
  BY <1>2, <1>3, <1>4
<1> QED
  BY <1>5 DEF A, B

\* Before the n-th chosen block there are those chosen before it.
LEMMA AheadOfChosen ==
    ASSUME NEW count \in Nat, NEW s \in Scores(count), NEW limit, NEW chosen,
           Chosen(s, count, limit, chosen), NEW n \in 1..Len(chosen)
    PROVE  chosen[n] \in 0..(count - 1) /\ Cardinality(Ahead(s, count, chosen[n])) = n - 1
<1> DEFINE l == Len(chosen)
           b == chosen[n]
           A == Ahead(s, count, b)
           f == [m \in 1..(n - 1) |-> chosen[m]]
<1>1. /\ l \in Nat /\ \A i \in 1..l : chosen[i] \in 0..(count - 1)
      /\ \A i, j \in 1..l : i < j => Better(s, chosen[i], chosen[j])
  BY ElementOfSeq, LenProperties DEF Chosen
<1>2. n \in 1..l /\ b \in 0..(count - 1)
  BY <1>1
<1> HIDE DEF l
<1>3. ASSUME NEW m \in 1..(n - 1) PROVE chosen[m] \in A
  <2>1. m \in 1..l /\ m < n
    BY <1>1, <1>2
  <2> QED
    BY <1>1, <1>2, <2>1 DEF Ahead
<1>4. ASSUME NEW c \in A PROVE \E m \in 1..(n - 1) : chosen[m] = c
  <2>1. c \in 0..(count - 1) /\ Better(s, c, b)
    BY DEF Ahead
  <2>2. \/ \E i \in 1..l : chosen[i] = c
        \/ \A i \in 1..l : Better(s, chosen[i], c)
    BY <2>1 DEF Chosen, l
  <2>3. ~Better(s, b, c)
    BY <1>2, <2>1, BetterOrder
  <2>4. PICK i \in 1..l : chosen[i] = c
    BY <1>2, <2>2, <2>3
  <2>5. ~(n < i)
    BY <1>1, <1>2, <2>3, <2>4
  <2>6. n # i
    BY <1>2, <2>1, <2>4, BetterOrder
  <2>7. i \in 1..(n - 1)
    BY <1>1, <1>2, <2>5, <2>6
  <2> QED
    BY <2>4, <2>7
<1>5. ASSUME NEW i \in 1..(n - 1), NEW j \in 1..(n - 1), chosen[i] = chosen[j] PROVE i = j
  <2>1. i \in 1..l /\ j \in 1..l /\ i \in Nat /\ j \in Nat
    BY <1>1, <1>2
  <2>2. ~Better(s, chosen[i], chosen[j]) /\ ~Better(s, chosen[j], chosen[i])
    BY <1>1, <1>5, <2>1, BetterOrder
  <2>3. ~(i < j) /\ ~(j < i)
    BY <1>1, <2>1, <2>2
  <2> QED
    BY <2>1, <2>3
<1> HIDE DEF A
<1>6. f \in Bijection(1..(n - 1), A)
  <2>1. f \in [1..(n - 1) -> A]
    BY <1>3
  <2>2. \A i, j \in 1..(n - 1) : f[i] = f[j] => i = j
    BY <1>5
  <2>3. \A c \in A : \E m \in 1..(n - 1) : f[m] = c
    BY <1>4
  <2> HIDE DEF f
  <2> QED
    BY <2>1, <2>2, <2>3 DEF Bijection, Injection, Surjection, IsInjective
<1>7. ExistsBijection(1..(n - 1), A)
  BY <1>6 DEF ExistsBijection
<1>8. IsFiniteSet(1..(n - 1)) /\ Cardinality(1..(n - 1)) = n - 1
  <2>1. n - 1 \in Nat
    BY <1>2
  <2> QED
    BY <2>1, FS_Interval
<1>9. Cardinality(A) = n - 1
  BY <1>7, <1>8, FS_Bijection
<1> QED
  BY <1>2, <1>9 DEF A

\* They are the blocks the document names, in its order.
LEMMA BestIs ==
    ASSUME NEW count \in Nat, NEW s \in Scores(count)
    PROVE  SelectBlocks(s, count, IF count < TopK THEN count ELSE TopK) = BestBlocks(s, count)
<1> DEFINE limit == IF count < TopK THEN count ELSE TopK
           chosen == SelectBlocks(s, count, limit)
           Named(n) == CHOOSE b \in 0..(count - 1) : Cardinality(Ahead(s, count, b)) = n - 1
<1>1. TopK \in Nat \ {0} /\ limit \in Nat
  BY MixerAssumption
<1>2. BestBlocks(s, count) = [n \in 1..limit |-> Named(n)]
  BY DEF BestBlocks, Ahead, Better
<1> HIDE DEF Named
<1>3. CASE count = 0
  <2>1. limit = 0 /\ 1..limit = {}
    BY <1>1, <1>3
  <2>2. chosen = << >>
    <3>1. PICK after : Steps(s, 0, 0, after)
      BY StepsExist
    <3> DEFINE a == CHOOSE a : Steps(s, 0, 0, a)
    <3>2. Steps(s, 0, 0, a)
      BY <3>1
    <3>3. SelectBlocks(s, 0, 0) = a[0]
      BY Zenon DEF SelectBlocks, Steps
    <3> HIDE DEF a
    <3>4. a[0] = << >>
      BY <3>2 DEF Steps
    <3> QED
      BY <1>3, <2>1, <3>3, <3>4
  <2>3. [n \in 1..0 |-> Named(n)] = << >>
    OBVIOUS
  <2> QED
    BY <1>2, <2>1, <2>2, <2>3
<1>4. CASE count # 0
  <2>1. limit \in Nat \ {0} /\ Chosen(s, count, limit, chosen)
    BY <1>1, <1>4, SelectIs
  <2> HIDE DEF chosen
  <2>2. Len(chosen) = limit /\ chosen \in Seq(0..(count - 1))
    BY <1>1, <2>1 DEF Chosen
  <2> HIDE DEF limit
  <2>3. ASSUME NEW n \in 1..limit PROVE Named(n) = chosen[n]
    <3>1. chosen[n] \in 0..(count - 1) /\ Cardinality(Ahead(s, count, chosen[n])) = n - 1
      BY <2>1, <2>2, AheadOfChosen
    <3>2. ASSUME NEW b \in 0..(count - 1), Cardinality(Ahead(s, count, b)) = n - 1
          PROVE  b = chosen[n]
      <4>1. ~Better(s, b, chosen[n])
        BY <3>1, <3>2, AheadOrders, AheadFinite
      <4>2. ~Better(s, chosen[n], b)
        BY <3>1, <3>2, AheadOrders, AheadFinite
      <4> QED
        BY <3>1, <4>1, <4>2, BetterOrder
    <3> QED
      BY <3>1, <3>2 DEF Named
  <2>4. chosen = [n \in 1..limit |-> chosen[n]]
    BY <2>2, LenProperties
  <2>5. chosen = [n \in 1..limit |-> Named(n)]
    BY <2>3, <2>4, Zenon
  <2> QED
    BY <1>2, <2>5 DEF chosen, limit
<1> QED
  BY <1>3, <1>4

\* A chosen block is complete, and none is chosen twice.
LEMMA ChosenApart ==
    ASSUME NEW count \in Nat, NEW s \in Scores(count), NEW limit, NEW chosen,
           Chosen(s, count, limit, chosen)
    PROVE  /\ chosen \in Seq(0..(count - 1)) /\ Len(chosen) \in Nat
           /\ Len(chosen) = IF count < limit THEN count ELSE limit
           /\ \A i \in 1..Len(chosen) : chosen[i] \in 0..(count - 1)
           /\ \A i, j \in 1..Len(chosen) : chosen[i] = chosen[j] => i = j
<1>1. /\ chosen \in Seq(0..(count - 1)) /\ Len(chosen) \in Nat
      /\ \A i \in 1..Len(chosen) : chosen[i] \in 0..(count - 1)
      /\ \A i, j \in 1..Len(chosen) : i < j => Better(s, chosen[i], chosen[j])
  BY ElementOfSeq, LenProperties DEF Chosen
<1>2. ASSUME NEW i \in 1..Len(chosen), NEW j \in 1..Len(chosen), chosen[i] = chosen[j]
      PROVE  i = j
  <2>1. ~Better(s, chosen[i], chosen[j]) /\ ~Better(s, chosen[j], chosen[i])
    BY <1>1, <1>2, BetterOrder
  <2>2. ~(i < j) /\ ~(j < i) /\ i \in Nat /\ j \in Nat
    BY <1>1, <2>1
  <2> QED
    BY <2>2
<1> QED
  BY <1>1, <1>2 DEF Chosen

\* The tokens a position attends to are visible, apart, and as many as the
\* budget and the past allow.
Visible(at, p) ==
    /\ at \in Seq(0..p) /\ Len(at) \in Nat \ {0}
    /\ \A i, j \in 1..Len(at) : at[i] = at[j] => i = j
    /\ Len(at) <= TopK * BlockSize + BlockSize - 1
    /\ p + 1 <= TopK * BlockSize => Len(at) = p + 1

Complete(p) == (p + 1) \div BlockSize
Limit(p)    == IF Complete(p) < TopK THEN Complete(p) ELSE TopK

LEMMA CompleteIs ==
    ASSUME NEW p \in Nat
    PROVE  /\ Complete(p) \in Nat /\ (p + 1) % BlockSize \in 0..(BlockSize - 1)
           /\ p + 1 = Complete(p) * BlockSize + ((p + 1) % BlockSize)
           /\ Limit(p) \in Nat /\ Limit(p) <= Complete(p) /\ Limit(p) <= TopK
           /\ Complete(p) \in 0..(p + 1)
<1>1. BlockSize \in Nat \ {0} /\ TopK \in Nat /\ p + 1 \in Nat
  BY MixerAssumption
<1>2. /\ Complete(p) \in Nat /\ (p + 1) % BlockSize \in 0..(BlockSize - 1)
      /\ p + 1 = Complete(p) * BlockSize + ((p + 1) % BlockSize)
  BY <1>1, Division DEF Complete
<1>3. Limit(p) \in Nat /\ Limit(p) <= Complete(p) /\ Limit(p) <= TopK
  BY <1>1, <1>2 DEF Limit
<1> DEFINE c == Complete(p)
           r == (p + 1) % BlockSize
<1> HIDE DEF c, r
<1>4. c \in Nat /\ r \in Nat /\ p + 1 = c * BlockSize + r
  BY <1>1, <1>2 DEF c, r
<1>5. c * BlockSize = c + c * (BlockSize - 1) /\ c * (BlockSize - 1) \in Nat
  BY <1>1, <1>4
<1>6. c <= p + 1
  BY <1>1, <1>4, <1>5
<1> QED
  BY <1>2, <1>3, <1>4, <1>6 DEF c

LEMMA PositionsAre ==
    ASSUME NEW p \in Nat, NEW s \in Scores(Complete(p)), NEW chosen,
           chosen \in Seq(0..(Complete(p) - 1)), Len(chosen) = Limit(p),
           \A i, j \in 1..Len(chosen) : chosen[i] = chosen[j] => i = j
    PROVE  Visible(Positions(chosen, p), p)
<1> DEFINE B == BlockSize
           C == Complete(p)
           l == Len(chosen)
           r == (p + 1) % B
           front == [i \in 1..(l * B) |-> chosen[(i - 1) \div B + 1] * B + ((i - 1) % B)]
           rest == TailOf(p)
           at == Positions(chosen, p)
<1>1. /\ B \in Nat \ {0} /\ TopK \in Nat \ {0} /\ C \in Nat /\ r \in 0..(B - 1)
      /\ p + 1 = C * B + r /\ l \in Nat /\ l <= C /\ l <= TopK
      /\ l = IF C < TopK THEN C ELSE TopK
  BY MixerAssumption, CompleteIs DEF Limit
<1>2. \A i \in 1..l : chosen[i] \in 0..(C - 1)
  BY ElementOfSeq
<1>3. /\ rest = [i \in 1..r |-> C * B + i - 1]
      /\ at = front \o rest
  BY DEF TailOf, Positions, Complete
<1> HIDE DEF B, C, r, rest, at
<1>4. l * B \in Nat /\ C * B \in Nat /\ r \in Nat
  BY <1>1
<1>5. ASSUME NEW i \in 1..(l * B)
      PROVE  /\ (i - 1) \div B + 1 \in 1..l /\ (i - 1) % B \in 0..(B - 1)
             /\ i - 1 = ((i - 1) \div B) * B + ((i - 1) % B)
             /\ front[i] = chosen[(i - 1) \div B + 1] * B + ((i - 1) % B)
             /\ front[i] \in 0..(C * B - 1)
  <2> DEFINE q == (i - 1) \div B
             m == (i - 1) % B
  <2>1. i - 1 \in 0..(l * B - 1) /\ i - 1 \in Nat
    BY <1>4
  <2>2. q \in 0..(l - 1)
    BY <1>1, <2>1, QuotientBound
  <2>3. m \in 0..(B - 1) /\ i - 1 = q * B + m
    BY <1>1, <2>1, Division
  <2>4. front[i] = chosen[q + 1] * B + m
    OBVIOUS
  <2> HIDE DEF q, m, front
  <2>5. q + 1 \in 1..l
    BY <1>1, <2>2
  <2>6. chosen[q + 1] \in 0..(C - 1)
    BY <1>2, <2>5
  <2>7. chosen[q + 1] * B + m \in 0..(C * B - 1)
    BY <1>1, <2>3, <2>6, DigitBound
  <2> QED
    BY <2>3, <2>4, <2>5, <2>7 DEF q, m
<1>6. /\ front \in Seq(0..p) /\ Len(front) = l * B
  <2>1. \A i \in 1..(l * B) : front[i] \in 0..p
    <3>1. ASSUME NEW i \in 1..(l * B) PROVE front[i] \in 0..p
      <4>1. front[i] \in 0..(C * B - 1)
        BY <1>5
      <4> HIDE DEF front
      <4> QED
        BY <1>1, <1>4, <4>1
    <3> QED
      BY <3>1
  <2>2. front \in [1..(l * B) -> 0..p]
    <3>1. front = [i \in 1..(l * B) |-> front[i]]
      OBVIOUS
    <3> HIDE DEF front
    <3> QED
      BY <2>1, <3>1
  <2> HIDE DEF front
  <2> QED
    BY <1>4, <2>2
<1> HIDE DEF front
<1>7. /\ rest \in Seq(0..p) /\ Len(rest) = r
      /\ \A i \in 1..r : rest[i] = C * B + i - 1
  BY <1>1, <1>3, <1>4
<1>8. /\ at \in Seq(0..p) /\ Len(at) = l * B + r
      /\ \A i \in 1..(l * B + r) : at[i] = IF i <= l * B THEN front[i] ELSE rest[i - l * B]
  <2>1. /\ front \o rest \in Seq(0..p) /\ Len(front \o rest) = Len(front) + Len(rest)
        /\ \A i \in 1..(Len(front) + Len(rest)) :
             (front \o rest)[i] = IF i <= Len(front) THEN front[i] ELSE rest[i - Len(front)]
    BY ONLY <1>6, <1>7, ConcatProperties
  <2> QED
    BY ONLY <1>3, <1>6, <1>7, <2>1
<1> DEFINE e == l * B
           f == C * B
<1> HIDE DEF e, f, l
<1>9. ASSUME NEW i \in 1..(e + r)
      PROVE  /\ i <= e => i \in 1..e /\ at[i] = front[i] /\ at[i] \in 0..(f - 1)
             /\ ~(i <= e) => at[i] = f + (i - e) - 1
  <2>1. ASSUME i <= e PROVE i \in 1..e /\ at[i] = front[i] /\ at[i] \in 0..(f - 1)
    <3>1. i \in 1..(l * B) /\ i \in 1..e
      BY <1>4, <2>1 DEF e
    <3> QED
      BY <1>5, <1>8, <2>1, <3>1 DEF e, f
  <2>2. ASSUME ~(i <= e) PROVE at[i] = f + (i - e) - 1
    <3>1. i - e \in 1..r
      BY <1>4, <2>2 DEF e
    <3> QED
      BY <1>7, <1>8, <2>2, <3>1 DEF e, f
  <2> QED
    BY <2>1, <2>2
<1>10. ASSUME NEW i \in 1..(e + r), NEW j \in 1..(e + r), at[i] = at[j] PROVE i = j
  <2>1. e \in Nat /\ f \in Nat /\ r \in Nat
    BY <1>4 DEF e, f
  <2>2. CASE i <= e /\ j <= e
    <3> DEFINE q(k) == (k - 1) \div B
               m(k) == (k - 1) % B
    <3>1. i \in 1..(l * B) /\ j \in 1..(l * B) /\ front[i] = front[j]
      BY <1>9, <1>10, <2>2 DEF e
    <3>2. /\ q(i) + 1 \in 1..l /\ m(i) \in 0..(B - 1) /\ i - 1 = q(i) * B + m(i)
          /\ front[i] = chosen[q(i) + 1] * B + m(i)
      BY <1>5, <3>1
    <3>3. /\ q(j) + 1 \in 1..l /\ m(j) \in 0..(B - 1) /\ j - 1 = q(j) * B + m(j)
          /\ front[j] = chosen[q(j) + 1] * B + m(j)
      BY <1>5, <3>1
    <3> HIDE DEF q, m
    <3>4. chosen[q(i) + 1] \in Nat /\ chosen[q(j) + 1] \in Nat
      BY <1>2, <3>2, <3>3
    <3>5. chosen[q(i) + 1] = chosen[q(j) + 1] /\ m(i) = m(j)
      <4> DEFINE x == chosen[q(i) + 1]
                 y == chosen[q(j) + 1]
                 u == m(i)
                 v == m(j)
      <4> HIDE DEF x, y, u, v
      <4>1. x \in Nat /\ y \in Nat /\ u \in 0..(B - 1) /\ v \in 0..(B - 1)
            /\ x * B + u = y * B + v
        BY <3>1, <3>2, <3>3, <3>4 DEF x, y, u, v
      <4>2. x = y /\ u = v
        BY <1>1, <4>1, SameDigits
      <4> QED
        BY <4>2 DEF x, y, u, v
    <3>6. q(i) + 1 = q(j) + 1
      BY <3>2, <3>3, <3>5 DEF l
    <3>7. q(i) = q(j)
      <4>1. q(i) + 1 \in Nat /\ q(j) + 1 \in Nat
        BY <3>2, <3>3
      <4>2. q(i) \in Int /\ q(j) \in Int
        BY <1>1, <2>1 DEF q
      <4> QED
        BY <3>6, <4>2
    <3>8. i - 1 = j - 1
      BY <3>2, <3>3, <3>5, <3>7
    <3> QED
      BY <2>1, <3>8
  <2>3. CASE i <= e /\ ~(j <= e)
    <3>1. at[i] \in 0..(f - 1) /\ at[j] = f + (j - e) - 1
      BY <1>9, <2>3
    <3> QED
      BY <1>10, <2>1, <2>3, <3>1
  <2>4. CASE ~(i <= e) /\ j <= e
    <3>1. at[j] \in 0..(f - 1) /\ at[i] = f + (i - e) - 1
      BY <1>9, <2>4
    <3> QED
      BY <1>10, <2>1, <2>4, <3>1
  <2>5. CASE ~(i <= e) /\ ~(j <= e)
    <3>1. at[i] = f + (i - e) - 1 /\ at[j] = f + (j - e) - 1
      BY <1>9, <2>5
    <3>2. f + (i - e) - 1 = f + (j - e) - 1
      BY <1>10, <3>1, Zenon
    <3>3. i \in Int /\ j \in Int
      BY <2>1
    <3> QED
      BY ONLY <2>1, <3>2, <3>3
  <2> QED
    BY <2>2, <2>3, <2>4, <2>5
<1>11. Len(at) <= TopK * B + B - 1
  <2>1. (TopK - l) * B \in Nat /\ (TopK - l) * B = TopK * B - l * B
    BY <1>1 DEF l
  <2>2. Len(at) = l * B + r
    BY <1>8
  <2>3. TopK * B \in Nat /\ l * B <= TopK * B
    BY <1>1, <1>4, <2>1
  <2> QED
    BY <1>1, <1>4, <2>2, <2>3
<1>12. p + 1 <= TopK * B => Len(at) = p + 1
  <2> SUFFICES ASSUME p + 1 <= TopK * B PROVE Len(at) = p + 1
    OBVIOUS
  <2>1. ~(C - TopK >= 1)
    <3> SUFFICES ASSUME C - TopK >= 1 PROVE FALSE
      OBVIOUS
    <3>1. B * (C - TopK) >= B
      BY <1>1, ProductBound
    <3>2. B * (C - TopK) = C * B - TopK * B
      BY <1>1
    <3> QED
      BY <1>1, <1>4, <3>1, <3>2
  <2>2. l = C
    BY <1>1, <2>1
  <2> QED
    BY <1>1, <1>8, <2>2
<1>13. Len(at) \in Nat \ {0}
  <2>1. Len(at) \in Nat
    BY <1>4, <1>8
  <2>2. CASE r = 0
    <3>1. C # 0
      BY <1>1, <2>2
    <3>2. l >= 1
      BY <1>1, <3>1
    <3>3. B * l >= B /\ B * l = l * B
      BY <1>1, <3>2, ProductBound
    <3> QED
      BY <1>1, <1>4, <1>8, <2>1, <3>3
  <2>3. CASE r # 0
    BY <1>1, <1>4, <1>8, <2>3
  <2> QED
    BY <2>2, <2>3
<1>14. \A i, j \in 1..Len(at) : at[i] = at[j] => i = j
  BY <1>8, <1>10 DEF e
<1> QED
  BY <1>8, <1>11, <1>12, <1>13, <1>14 DEF Visible, at, B

\* The scores and the tokens of a position, read off the whole stream.
ScoresAt(stream, p) ==
    [b \in 0..(Complete(p) - 1) |->
        Score(stream[p + 1], p, [o \in 1..BlockSize |-> stream[b * BlockSize + o]], b)]

TokensAt(stream, p) == Positions(BestBlocks(ScoresAt(stream, p), Complete(p)), p)

LEMMA ScoresAreNumbers ==
    ASSUME NEW stream \in Seq(Input), NEW p \in 0..(Len(stream) - 1), p < Capacity
    PROVE  ScoresAt(stream, p) \in Scores(Complete(p))
<1> DEFINE c == Complete(p)
<1>1. /\ Capacity \in Nat /\ BlockSize \in Nat \ {0} /\ Len(stream) \in Nat /\ p \in Nat
      /\ c \in 0..(p + 1) /\ (p + 1) % BlockSize \in 0..(BlockSize - 1)
      /\ p + 1 = c * BlockSize + ((p + 1) % BlockSize)
  <2>1. Capacity \in Nat /\ BlockSize \in Nat \ {0} /\ Len(stream) \in Nat /\ p \in Nat
    BY MixerAssumption, LenProperties
  <2> QED
    BY <2>1, CompleteIs
<1> HIDE DEF c
<1>2. ASSUME NEW b \in 0..(c - 1)
      PROVE  Score(stream[p + 1], p, [o \in 1..BlockSize |-> stream[b * BlockSize + o]], b) \in Int
  <2>1. p \in 0..(Capacity - 1) /\ b \in 0..(Capacity - 1) /\ p + 1 \in 1..Len(stream)
    BY <1>1
  <2>2. stream[p + 1] \in Input
    BY <2>1, ElementOfSeq
  <2>3. ASSUME NEW o \in 1..BlockSize PROVE stream[b * BlockSize + o] \in Input
    <3>1. o - 1 \in 0..(BlockSize - 1) /\ c \in Nat
      BY <1>1
    <3>2. b * BlockSize + (o - 1) \in 0..(c * BlockSize - 1)
      BY <1>1, <3>1, DigitBound
    <3>3. c * BlockSize <= p + 1 /\ c * BlockSize \in Nat
      BY <1>1, <3>1
    <3>4. b * BlockSize + o \in 1..Len(stream)
      BY <1>1, <3>2, <3>3
    <3> QED
      BY <3>4, ElementOfSeq
  <2>4. [o \in 1..BlockSize |-> stream[b * BlockSize + o]] \in [1..BlockSize -> Input]
    BY <2>3
  <2> QED
    BY <2>1, <2>2, <2>4, ScoreAssumption
<1> QED
  BY <1>2 DEF ScoresAt, Scores, c

LEMMA TokensAreVisible ==
    ASSUME NEW stream \in Seq(Input), NEW p \in 0..(Len(stream) - 1), p < Capacity
    PROVE  Visible(TokensAt(stream, p), p)
<1> DEFINE s == ScoresAt(stream, p)
           c == Complete(p)
           best == BestBlocks(s, c)
<1>1. s \in Scores(c) /\ p \in Nat /\ c \in Nat
  BY ScoresAreNumbers, CompleteIs
<1>2. TopK \in Nat \ {0} /\ Limit(p) \in Nat
  BY <1>1, MixerAssumption, CompleteIs
<1>3. best = SelectBlocks(s, c, Limit(p))
  BY <1>1, BestIs DEF Limit
<1>4. best \in Seq(0..(c - 1)) /\ Len(best) = Limit(p)
      /\ \A i, j \in 1..Len(best) : best[i] = best[j] => i = j
  <2>1. CASE c = 0
    <3>1. best = << >> /\ Limit(p) = 0
      BY <1>2, <2>1 DEF BestBlocks, Limit
    <3>2. Len(<< >>) = 0 /\ 1..0 = {} /\ << >> \in Seq(0..(c - 1))
      OBVIOUS
    <3> QED
      BY <3>1, <3>2
  <2>2. CASE c # 0
    <3>1. Limit(p) \in Nat \ {0} /\ (IF c < Limit(p) THEN c ELSE Limit(p)) = Limit(p)
      BY <1>1, <1>2, <2>2 DEF Limit
    <3>2. Chosen(s, c, Limit(p), best)
      BY <1>1, <1>3, <3>1, SelectIs
    <3> HIDE DEF best
    <3> QED
      BY <1>1, <3>1, <3>2, ChosenApart
  <2> QED
    BY <2>1, <2>2
<1> HIDE DEF best
<1>5. Visible(Positions(best, p), p)
  BY <1>1, <1>4, PositionsAre
<1> QED
  BY <1>5 DEF TokensAt, best

\* What a position attends to, by its tokens.
LEMMA AttendedIs ==
    ASSUME NEW stream, NEW p \in Nat
    PROVE  AttendedAt(stream, p) =
             [i \in DOMAIN TokensAt(stream, p) |->
                <<<<TokensAt(stream, p)[i], stream[TokensAt(stream, p)[i] + 1]>>,
                  stream[TokensAt(stream, p)[i] + 1]>>]
<1>1. (p + 1) - ((p + 1) \div BlockSize) * BlockSize = (p + 1) % BlockSize
  <2> DEFINE c == (p + 1) \div BlockSize
             r == (p + 1) % BlockSize
  <2>1. c \in Nat /\ r \in 0..(BlockSize - 1) /\ p + 1 = c * BlockSize + r /\ BlockSize \in Nat
    BY MixerAssumption, CompleteIs DEF Complete
  <2> HIDE DEF c, r
  <2>2. c * BlockSize \in Nat
    BY <2>1
  <2>3. (p + 1) - c * BlockSize = r
    BY <2>1, <2>2
  <2> QED
    BY <2>3 DEF c, r
<1> QED
  BY <1>1, Zenon DEF AttendedAt, TokensAt, ScoresAt, Positions, TailOf, Complete
-----------------------------------------------------------------------------
(* A run. *)

\* The rows of the call's stream are those of the history and of the chunk.
LEMMA StreamRows ==
    ASSUME MInv, stage # "idle"
    PROVE  /\ committed \in Seq(Input) /\ inputs \in Seq(Input)
           /\ Len(committed) \in Nat /\ Len(inputs) \in Nat \ {0}
           /\ Stream \in Seq(Input) /\ Len(Stream) = Len(committed) + Len(inputs)
           /\ \A i \in 1..Len(committed) : Stream[i] = committed[i]
           /\ \A i \in 1..Len(inputs) : Stream[Len(committed) + i] = inputs[i]
<1>1. /\ committed \in Seq(Input) /\ inputs \in Seq(Input)
      /\ Len(committed) \in Nat /\ Len(inputs) \in Nat \ {0}
  BY ChunkFacts, LenProperties DEF MInv, History, Stages
<1>2. /\ Stream \in Seq(Input) /\ Len(Stream) = Len(committed) + Len(inputs)
      /\ \A i \in 1..(Len(committed) + Len(inputs)) :
           Stream[i] = IF i <= Len(committed) THEN committed[i]
                                              ELSE inputs[i - Len(committed)]
  BY <1>1, ConcatProperties DEF Stream
<1>3. ASSUME NEW i \in 1..Len(committed) PROVE Stream[i] = committed[i]
  <2>1. i \in 1..(Len(committed) + Len(inputs)) /\ i <= Len(committed)
    BY <1>1
  <2> QED
    BY <1>2, <2>1
<1>4. ASSUME NEW i \in 1..Len(inputs) PROVE Stream[Len(committed) + i] = inputs[i]
  <2>1. /\ Len(committed) + i \in 1..(Len(committed) + Len(inputs))
        /\ ~(Len(committed) + i <= Len(committed))
        /\ (Len(committed) + i) - Len(committed) = i
    BY <1>1
  <2> QED
    BY <1>2, <2>1
<1> QED
  BY <1>1, <1>2, <1>3, <1>4

\* What the staging slot holds is also what it holds of the call's stream.
LEMMA GdnPrefix ==
    ASSUME MInv, stage # "idle", NEW state, GdnFolds(state, committed, Len(committed))
    PROVE  GdnFolds(state, Stream, Len(committed))
<1>1. /\ Len(committed) \in Nat
      /\ \A i \in 1..Len(committed) : Stream[i] = committed[i]
  BY StreamRows
<1>2. ASSUME NEW p \in 0..Len(committed)
      PROVE  WindowAt(committed, p) = WindowAt(Stream, p)
  BY <1>1, WindowPrefix
<1>3. [i \in 1..Len(committed) |-> WindowAt(committed, i)]
        = [i \in 1..Len(committed) |-> WindowAt(Stream, i)]
  BY <1>1, <1>2
<1>4. WindowAt(committed, Len(committed)) = WindowAt(Stream, Len(committed))
  BY <1>1, <1>2
<1> QED
  BY <1>3, <1>4 DEF GdnFolds

\* The pending rows of a QSA run are those of the stream after the cache's.
PendingHolds(pending) ==
    /\ pending \in Seq(PendingRow)
    /\ \A n \in 1..Len(pending), kind \in Kinds :
         pending[n][kind] = RowOf(kind, Stream, Len(committed) + n - 1)

\* A row read is the stream's, from the cache or pending.
LEMMA ReadCombinedIs ==
    ASSUME MInv, stage = "run", family = "QSA", NEW kind \in Kinds,
           NEW pending, PendingHolds(pending),
           NEW i \in 0..(Len(committed) + Len(pending) - 1)
    PROVE  ReadCombined(kind, pending, i) = RowOf(kind, Stream, i)
<1>1. /\ Working.length = Len(committed) /\ Len(committed) \in Nat
      /\ \A j \in 0..(Len(committed) - 1) : Working[kind][j] = RowOf(kind, committed, j)
  BY StreamRows DEF MInv, Stages, StateHolds, Holds, QsaFolds
<1>2. Len(pending) \in Nat
  BY LenProperties DEF PendingHolds
<1>3. CASE i < Len(committed)
  <2>1. i \in 0..(Len(committed) - 1) /\ i + 1 \in 1..Len(committed)
    BY <1>1, <1>2, <1>3
  <2>2. Stream[i + 1] = committed[i + 1]
    BY <2>1, StreamRows
  <2>3. RowOf(kind, committed, i) = RowOf(kind, Stream, i)
    BY <2>2 DEF RowOf
  <2> QED
    BY <1>1, <1>3, <2>1, <2>3 DEF ReadCombined
<1>4. CASE ~(i < Len(committed))
  <2> DEFINE n == i - Len(committed) + 1
  <2>1. n \in 1..Len(pending) /\ Len(committed) + n - 1 = i
    BY <1>1, <1>2, <1>4
  <2> HIDE DEF n
  <2>2. pending[n][kind] = RowOf(kind, Stream, i)
    BY <2>1 DEF PendingHolds
  <2>3. ReadCombined(kind, pending, i) = pending[n][kind]
    BY <1>1, <1>4 DEF ReadCombined, n
  <2> QED
    BY <2>2, <2>3
<1> QED
  BY <1>3, <1>4

\* Only the mark changes.
LEMMA MarkInitialized ==
    ASSUME NEW w, NEW c, NEW m,
           w = [conv |-> c, recurrent |-> m, initialized |-> w.initialized]
    PROVE  [w EXCEPT !.initialized = TRUE]
             = [conv |-> c, recurrent |-> m, initialized |-> TRUE]
<1> DEFINE b == w.initialized
           new == [w EXCEPT !.initialized = TRUE]
<1>1. w = [conv |-> c, recurrent |-> m, initialized |-> b]
  OBVIOUS
<1> HIDE DEF b
<1>2. DOMAIN w = {"conv", "recurrent", "initialized"} /\ w.conv = c /\ w.recurrent = m
  BY <1>1
<1>3. new = [f \in {"conv", "recurrent", "initialized"} |->
               IF f = "initialized" THEN TRUE ELSE w[f]]
  BY <1>2, Zenon
<1> HIDE DEF new
<1>4. /\ DOMAIN new = {"conv", "recurrent", "initialized"}
      /\ new["conv"] = c /\ new["recurrent"] = m /\ new["initialized"] = TRUE
  BY <1>2, <1>3
<1>5. new = [conv |-> c, recurrent |-> m, initialized |-> TRUE]
  BY <1>3, <1>4
<1> QED
  BY <1>5 DEF new

\* What the end of a run writes back is one chunk further.
LEMMA AdvancedHolds ==
    ASSUME MInv, stage = "run", Len(run.out) = Len(inputs)
    PROVE  StateHolds(Advanced(Working), Stream)
<1>1. RunHolds /\ StateHolds(Working, committed)
  BY DEF MInv, Stages
<1>2. /\ Len(committed) \in Nat /\ Len(inputs) \in Nat \ {0}
      /\ Len(Stream) = Len(committed) + Len(inputs)
  BY StreamRows
<1>3. CASE family = "GDN"
  <2> DEFINE w == run.work
  <2> DEFINE window == WindowAt(Stream, Len(Stream))
             matrix == [i \in 1..Len(Stream) |-> WindowAt(Stream, i)]
  <2>1. w = [conv |-> window, recurrent |-> matrix, initialized |-> w.initialized]
    BY <1>1, <1>2, <1>3 DEF RunHolds, GdnFolds
  <2> HIDE DEF w, window, matrix
  <2>2. [w EXCEPT !.initialized = TRUE]
          = [conv |-> window, recurrent |-> matrix, initialized |-> TRUE]
    BY <2>1, MarkInitialized
  <2>3. Advanced(Working) = [w EXCEPT !.initialized = TRUE]
    BY <1>3 DEF Advanced, w
  <2> QED
    BY <1>3, <2>2, <2>3 DEF StateHolds, Holds, GdnFolds, window, matrix
<1>4. CASE family = "QSA"
  <2> DEFINE old == Working
             new == AppendRows(old)
  <2>1. /\ old.length = Len(committed)
        /\ \A kind \in Kinds :
             /\ DOMAIN old[kind] = 0..(Capacity - 1)
             /\ \A i \in 0..(Len(committed) - 1) :
                  old[kind][i] = RowOf(kind, committed, i)
    BY <1>1, <1>4 DEF StateHolds, Holds, QsaFolds
  <2>2. /\ Len(run.work) = Len(inputs)
        /\ \A n \in 1..Len(inputs), kind \in Kinds :
             run.work[n][kind] = RowOf(kind, Stream, Len(committed) + n - 1)
        /\ Len(committed) + Len(inputs) <= Capacity
    BY <1>1, <1>4 DEF RunHolds, MInv, Stages
  <2> HIDE DEF old
  <2> DEFINE Appended(kind) ==
               [i \in DOMAIN old[kind] |->
                  IF i \in Len(committed)..(Len(Stream) - 1)
                    THEN run.work[i - Len(committed) + 1][kind] ELSE old[kind][i]]
  <2>3. new = [length |-> Len(Stream), key |-> Appended("key"),
               value |-> Appended("value"), raw |-> Appended("raw")]
    BY <1>2, <2>1, <2>2 DEF AppendRows
  <2> HIDE DEF new, Appended
  <2>4. \A kind \in Kinds : new[kind] = Appended(kind)
    <3>1. /\ new["key"] = Appended("key") /\ new["value"] = Appended("value")
          /\ new["raw"] = Appended("raw")
      BY <2>3
    <3> QED
      BY <3>1 DEF Kinds
  <2> USE DEF Appended
  <2>5. new = [length |-> Len(Stream), key |-> new.key, value |-> new.value,
               raw |-> new.raw]
    BY <2>3
  <2>6. ASSUME NEW kind \in Kinds
        PROVE  /\ DOMAIN new[kind] = 0..(Capacity - 1)
               /\ \A i \in 0..(Len(Stream) - 1) : new[kind][i] = RowOf(kind, Stream, i)
    <3>1. DOMAIN new[kind] = 0..(Capacity - 1)
      BY <2>1, <2>4
    <3>2. ASSUME NEW i \in 0..(Len(Stream) - 1)
          PROVE  new[kind][i] = RowOf(kind, Stream, i)
      <4>1. i \in DOMAIN old[kind] /\ i \in Nat
        BY <1>2, <2>1, <2>2, MixerAssumption
      <4>2. CASE i < Len(committed)
        <5>1. /\ i \in 0..(Len(committed) - 1) /\ i + 1 \in 1..Len(committed)
              /\ i \notin Len(committed)..(Len(Stream) - 1)
          BY <1>2, <4>1, <4>2
        <5>2. Stream[i + 1] = committed[i + 1]
          BY <5>1, StreamRows
        <5>3. RowOf(kind, committed, i) = RowOf(kind, Stream, i)
          BY <5>2 DEF RowOf
        <5>4. new[kind][i] = old[kind][i]
          BY <2>4, <4>1, <5>1
        <5> QED
          BY <2>1, <5>1, <5>3, <5>4
      <4>3. CASE ~(i < Len(committed))
        <5> DEFINE n == i - Len(committed) + 1
        <5>1. /\ n \in 1..Len(inputs) /\ Len(committed) + n - 1 = i
              /\ i \in Len(committed)..(Len(Stream) - 1)
          BY <1>2, <4>1, <4>3
        <5>2. new[kind][i] = run.work[n][kind]
          BY <2>4, <4>1, <5>1
        <5> HIDE DEF n
        <5> QED
          BY <2>2, <5>1, <5>2
      <4> QED
        BY <4>2, <4>3
    <3> QED
      BY <3>1, <3>2
  <2>7. QsaFolds(new, Stream)
    BY <1>2, <2>2, <2>5, <2>6 DEF QsaFolds
  <2>8. Advanced(Working) = new
    BY <1>4 DEF Advanced, new, old
  <2> QED
    BY <1>4, <2>7, <2>8 DEF StateHolds, Holds
<1> QED
  BY <1>3, <1>4 DEF MInv, Shape
-----------------------------------------------------------------------------
(* The invariant. *)

\* The two slots are different, and there is no third.
LEMMA SlotRoles ==
    ASSUME Shape
    PROVE  /\ active_slot \in Slots /\ Staging \in Slots /\ active_slot # Staging
           /\ \A s \in Slots : s = active_slot \/ s = Staging
BY DEF Shape, Slots, Staging

LEMMA InitInv == Init => MInv
<1> SUFFICES ASSUME Init PROVE MInv
  OBVIOUS
<1>1. Shape /\ active_slot = 0 /\ Staging = 1
  BY DEF Init, Shape, Slots, Staging
<1>2. \A s \in Slots : StateHolds(mixer[s], << >>)
  BY FreshGdnHolds, FreshQsaHolds DEF Init, StateHolds
<1>3. << >> \in Seq(Input) /\ Len(<< >>) = 0
  BY EmptySeq
<1>4. History
  BY <1>3 DEF Init, History
<1>5. StateHolds(Live, committed) /\ StateHolds(Working, << >>) /\ ~undo
  BY <1>1, <1>2 DEF Init, Live, Working, Slots
<1>6. Held
  BY <1>3, <1>5 DEF Held
<1>7. Stages
  BY DEF Init, Stages
<1> QED
  BY <1>1, <1>4, <1>6, <1>7 DEF MInv

\* The slots and the history are left alone.
LEMMA Untouched ==
    ASSUME MInv, UNCHANGED <<layer, ghost>>
    PROVE  /\ Shape' /\ History' /\ Held'
           /\ \A h : StateHolds(Working, h) => StateHolds(Working, h)'
<1>1. UNCHANGED <<family, position, active_slot, mixer, committed, previous, undo>>
  BY DEF layer, ghost
<1>2. UNCHANGED Live /\ UNCHANGED Working
  BY <1>1 DEF Live, Working, Staging
<1>3. \A h : StateHolds(Working, h) => StateHolds(Working, h)'
  BY <1>1, <1>2 DEF StateHolds
<1>4. Held'
  BY <1>1, <1>2 DEF MInv, Held, StateHolds
<1>5. Shape' /\ History'
  BY <1>1 DEF MInv, Shape, History
<1> QED
  BY <1>3, <1>4, <1>5

LEMMA BeginInv == ASSUME MInv, NEW chunk \in Chunk, Begin(chunk) PROVE MInv'
<1>1. /\ stage' = "copy" /\ inputs' = chunk
      /\ UNCHANGED <<layer, ghost>> /\ UNCHANGED <<family, committed>>
      /\ family = "QSA" => Live.length + Len(chunk) <= Capacity
  BY DEF Begin, layer, ghost
<1>2. family = "QSA" => Live.length = Len(committed)
  BY DEF MInv, Held, StateHolds, Holds, QsaFolds
<1>3. Stages'
  BY <1>1, <1>2 DEF Stages
<1> QED
  BY <1>1, <1>3, Untouched DEF MInv

LEMMA CopyInv == ASSUME MInv, Copy PROVE MInv'
<1>1. StateHolds(Live, committed) /\ committed \in Seq(Input)
      /\ family \in {"GDN", "QSA"}
  BY DEF MInv, Held, History, Shape
<1>2. PICK g \in Seq(Input) : StateHolds(Working, g)
  BY DEF MInv, Held
<1>3. ImportAccepted(Live) /\ StateHolds(Import(Working, Live), committed)
  BY <1>1, <1>2, ImportHolds
<1>4. /\ stage = "copy" /\ stage' = "copied" /\ undo' = FALSE
      /\ mixer' = [mixer EXCEPT ![Staging] = Import(@, Live)]
      /\ UNCHANGED <<inputs, run, family, position, active_slot, committed, previous>>
  BY <1>3 DEF Copy
<1>5. mixer' = [mixer EXCEPT ![Staging] = Import(Working, Live)]
  BY <1>4 DEF Working
<1>6. /\ mixer'[Staging] = Import(Working, Live) /\ mixer'[active_slot] = Live
      /\ mixer' = [s \in Slots |-> mixer'[s]]
  BY <1>5, SlotRoles DEF MInv, Shape, Live
<1>7. Live' = Live /\ Working' = Import(Working, Live)
  BY <1>4, <1>6 DEF Live, Working, Staging
<1>8. Shape' /\ History'
  BY <1>4, <1>6 DEF MInv, Shape, History
<1>9. StateHolds(Live, committed)' /\ StateHolds(Working, committed)'
  BY <1>1, <1>3, <1>4, <1>7 DEF StateHolds
<1>10. Held'
  BY <1>1, <1>4, <1>9 DEF Held
<1>11. Stages'
  BY <1>4, <1>9 DEF MInv, Stages
<1> QED
  BY <1>8, <1>10, <1>11 DEF MInv

LEMMA BeginRunInv == ASSUME MInv, BeginRun PROVE MInv'
<1>1. /\ stage = "copied" /\ stage' = "run" /\ run'.out = << >>
      /\ run'.work = IF family = "GDN" THEN Working ELSE << >>
      /\ UNCHANGED <<layer, inputs, ghost>>
      /\ UNCHANGED <<family, committed, Stream>>
  BY DEF BeginRun, layer, ghost, Stream
<1>2. StateHolds(Working, committed)
  BY <1>1 DEF MInv, Stages
<1>3. IsSequence(<< >>) /\ Len(<< >>) = 0 /\ << >> \in Seq(PendingRow)
  BY EmptySeq DEF IsSequence
<1>4. Len(inputs) \in Nat /\ Len(committed) \in Nat
  BY <1>1, StreamRows
<1>5. family = "GDN" => GdnFolds(Working, Stream, Len(committed))
  BY <1>1, <1>2, GdnPrefix DEF StateHolds, Holds
<1>6. family = "GDN" => GdnFolds(run'.work, Stream, Len(committed) + Len(run'.out))
  BY <1>1, <1>3, <1>4, <1>5
<1>7. RunHolds'
  BY <1>1, <1>3, <1>4, <1>6 DEF RunHolds
<1>8. Stages'
  BY <1>1, <1>2, <1>7, Untouched DEF MInv, Stages, ghost
<1> QED
  BY <1>1, <1>8, Untouched DEF MInv

\* One token of a GDN run.
LEMMA GdnTokenInv == ASSUME MInv, GdnToken PROVE MInv'
<1> DEFINE n == Len(run.out)
           p == Len(committed) + n
           window == WindowAt(Stream, p + 1)
           matrix == [i \in 1..(p + 1) |-> WindowAt(Stream, i)]
           w == run.work
<1>1. /\ stage = "run" /\ family = "GDN" /\ n < Len(inputs) /\ RunHolds
      /\ UNCHANGED <<layer, stage, inputs, ghost>>
      /\ UNCHANGED <<family, committed, Stream>>
  BY DEF GdnToken, layer, ghost, Stream, MInv, Stages
<1>2. /\ GdnFolds(w, Stream, p) /\ IsSequence(run.out)
      /\ \A m \in 1..n :
           run.out[m] = [i \in 1..(Len(committed) + m) |-> WindowAt(Stream, i)]
  BY <1>1 DEF RunHolds
<1>3. /\ n \in Nat /\ Len(committed) \in Nat /\ p \in Nat /\ Len(inputs) \in Nat
      /\ Stream \in Seq(Input) /\ p < Len(Stream)
      /\ Stream[p + 1] = inputs[n + 1]
  <2>1. n \in Nat
    BY <1>2, SequenceGrows
  <2>2. n + 1 \in 1..Len(inputs) /\ Len(committed) + (n + 1) = p + 1
    BY <1>1, <2>1, StreamRows
  <2>3. Stream[Len(committed) + (n + 1)] = inputs[n + 1]
    BY <1>1, <2>2, StreamRows
  <2>4. /\ Len(committed) \in Nat /\ Len(inputs) \in Nat /\ Stream \in Seq(Input)
        /\ Len(Stream) = Len(committed) + Len(inputs)
    BY <1>1, StreamRows
  <2>5. p \in Nat /\ p < Len(Stream)
    BY <1>1, <2>1, <2>4
  <2> HIDE DEF n
  <2> QED
    BY <2>1, <2>2, <2>3, <2>4, <2>5
<1>4. /\ w.conv = WindowAt(Stream, p)
      /\ w.recurrent = [i \in 1..p |-> WindowAt(Stream, i)]
      /\ w = [conv |-> w.conv, recurrent |-> w.recurrent, initialized |-> w.initialized]
  BY <1>2 DEF GdnFolds
<1>5. Append(Tail(w.conv), NextInput) = window
  BY <1>3, <1>4, WindowShift DEF NextInput
<1>6. Append(w.recurrent, window) = matrix
  BY <1>3, <1>4, MatrixStep
<1>7. /\ run'.work = [w EXCEPT !.conv = window, !.recurrent = matrix]
      /\ run'.out = Append(run.out, matrix)
  BY <1>1, <1>5, <1>6 DEF GdnToken
<1>8. run'.work = [conv |-> window, recurrent |-> matrix, initialized |-> w.initialized]
  <2> HIDE DEF w, window, matrix
  <2> QED
    BY <1>4, <1>7
<1>9. /\ IsSequence(run'.out) /\ Len(run'.out) = n + 1
      /\ \A m \in 1..n : run'.out[m] = run.out[m]
      /\ run'.out[n + 1] = matrix
  <2> HIDE DEF matrix
  <2> QED
    BY <1>2, <1>7, SequenceGrows
<1>10. GdnFolds(run'.work, Stream, Len(committed) + Len(run'.out))
  <2>1. Len(committed) + Len(run'.out) = p + 1
    BY <1>3, <1>9
  <2>2. run'.work.initialized = w.initialized
    BY <1>8
  <2> QED
    BY <1>8, <2>1, <2>2 DEF GdnFolds
<1>11. ASSUME NEW m \in 1..Len(run'.out)
       PROVE  run'.out[m] = [i \in 1..(Len(committed) + m) |-> WindowAt(Stream, i)]
  <2>1. CASE m \in 1..n
    BY <1>2, <1>9, <2>1
  <2>2. CASE m = n + 1
    <3>1. Len(committed) + m = p + 1
      BY <1>3, <2>2
    <3> QED
      BY <1>9, <2>2, <3>1
  <2> QED
    BY <1>3, <1>9, <2>1, <2>2
<1>12. Len(run'.out) <= Len(inputs)
  BY <1>1, <1>3, <1>9
<1>13. RunHolds'
  BY <1>1, <1>9, <1>10, <1>11, <1>12 DEF RunHolds
<1>14. Stages'
  BY <1>1, <1>13, Untouched DEF MInv, Stages, ghost
<1> QED
  BY <1>14, <1>1, Untouched DEF MInv

\* What a token of a QSA run appends: its row, and what its position attends
\* to in the whole stream.
LEMMA QsaTokenIs ==
    ASSUME MInv, QsaToken
    PROVE  /\ run'.work = Append(run.work, [key   |-> <<Len(committed) + Len(run.out), NextInput>>,
                                            value |-> NextInput, raw |-> NextInput])
           /\ run'.out = Append(run.out, AttendedAt(Stream, Len(committed) + Len(run.out)))
<1> DEFINE n == Len(run.out)
           p == Len(committed) + n
           row == [key |-> <<p, NextInput>>, value |-> NextInput, raw |-> NextInput]
           pending == Append(run.work, row)
           C == Complete(p)
           Raw(b) == [o \in 1..BlockSize |-> ReadCombined("raw", pending, b * BlockSize + o - 1)]
           score == [b \in 0..(C - 1) |-> Score(NextInput, p, Raw(b), b)]
           at == Positions(SelectBlocks(score, C, Limit(p)), p)
           attended == [i \in DOMAIN at |-> <<ReadCombined("key", pending, at[i]),
                                              ReadCombined("value", pending, at[i])>>]
<1>1. stage = "run" /\ family = "QSA" /\ n < Len(inputs) /\ RunHolds
  BY DEF QsaToken, MInv, Stages
<1>2. /\ run.work \in Seq(PendingRow) /\ Len(run.work) = n /\ IsSequence(run.out)
      /\ \A m \in 1..n, kind \in Kinds :
           run.work[m][kind] = RowOf(kind, Stream, Len(committed) + m - 1)
      /\ Working.length = Len(committed)
  BY <1>1 DEF RunHolds, MInv, Stages, StateHolds, Holds, QsaFolds
<1>3. run'.work = pending /\ run'.out = Append(run.out, attended)
  BY <1>1, <1>2, Zenon DEF QsaToken, Complete, Limit
<1>4. /\ n \in Nat /\ Len(committed) \in Nat /\ p \in Nat /\ Len(inputs) \in Nat
      /\ Stream \in Seq(Input) /\ Len(Stream) = Len(committed) + Len(inputs)
      /\ p \in 0..(Len(Stream) - 1) /\ p < Capacity
      /\ Stream[p + 1] = NextInput /\ NextInput \in Input
  <2>1. n \in Nat
    BY <1>2, SequenceGrows
  <2>2. /\ Len(committed) \in Nat /\ Len(inputs) \in Nat /\ Stream \in Seq(Input)
        /\ Len(Stream) = Len(committed) + Len(inputs)
    BY <1>1, StreamRows
  <2>3. n + 1 \in 1..Len(inputs) /\ Len(committed) + (n + 1) = p + 1
    BY <1>1, <2>1, <2>2
  <2>4. Stream[Len(committed) + (n + 1)] = inputs[n + 1] /\ inputs[n + 1] \in Input
    BY <1>1, <2>3, StreamRows, ElementOfSeq
  <2>5. Capacity \in Nat /\ Len(committed) + Len(inputs) <= Capacity
    BY <1>1, MixerAssumption DEF MInv, Stages
  <2> HIDE DEF n
  <2>6. p \in Nat /\ p \in 0..(Len(Stream) - 1) /\ p < Capacity
    BY <1>1, <2>1, <2>2, <2>5
  <2>7. NextInput = inputs[n + 1]
    BY DEF NextInput, n
  <2> QED
    BY <2>1, <2>2, <2>3, <2>4, <2>6, <2>7
<1> HIDE DEF n
<1> DEFINE x == NextInput
<1> HIDE DEF x
<1>5. row \in PendingRow /\ \A kind \in Kinds : row[kind] = RowOf(kind, Stream, p)
  <2>1. row = [key |-> <<p, x>>, value |-> x, raw |-> x] /\ x \in Input /\ Stream[p + 1] = x
    BY <1>4 DEF x
  <2> HIDE DEF row
  <2> QED
    BY <1>4, <2>1 DEF PendingRow, Kinds, RowOf
<1> HIDE DEF row
<1>6. PendingHolds(pending) /\ Len(pending) = n + 1
  <2>1. /\ pending \in Seq(PendingRow) /\ Len(pending) = n + 1
        /\ \A m \in 1..n : pending[m] = run.work[m]
        /\ pending[n + 1] = row
    BY <1>2, <1>5, AppendProperties
  <2> HIDE DEF pending
  <2>2. ASSUME NEW m \in 1..Len(pending), NEW kind \in Kinds
        PROVE  pending[m][kind] = RowOf(kind, Stream, Len(committed) + m - 1)
    <3>1. CASE m \in 1..n
      BY <1>2, <2>1, <3>1
    <3>2. CASE m = n + 1
      <4>1. Len(committed) + m - 1 = p
        BY <1>4, <3>2
      <4> QED
        BY <1>5, <2>1, <3>2, <4>1
    <3> QED
      BY <1>4, <2>1, <3>1, <3>2
  <2> QED
    BY <2>1, <2>2 DEF PendingHolds
<1> HIDE DEF pending
<1>7. ASSUME NEW kind \in Kinds, NEW i \in 0..p
      PROVE  ReadCombined(kind, pending, i) = RowOf(kind, Stream, i)
  <2>1. i \in 0..(Len(committed) + Len(pending) - 1)
    BY <1>4, <1>6
  <2> QED
    BY <1>1, <1>6, <2>1, ReadCombinedIs
<1>8. /\ BlockSize \in Nat \ {0} /\ C \in Nat
      /\ (p + 1) % BlockSize \in 0..(BlockSize - 1)
      /\ p + 1 = C * BlockSize + ((p + 1) % BlockSize)
  BY <1>4, MixerAssumption, CompleteIs
<1> HIDE DEF p, C
<1>9. ASSUME NEW b \in 0..(C - 1)
      PROVE  Raw(b) = [o \in 1..BlockSize |-> Stream[b * BlockSize + o]]
  <2>1. ASSUME NEW o \in 1..BlockSize
        PROVE  ReadCombined("raw", pending, b * BlockSize + o - 1) = Stream[b * BlockSize + o]
    <3> DEFINE k == b * BlockSize + o - 1
    <3>1. o - 1 \in 0..(BlockSize - 1)
      BY <1>8
    <3>2. b * BlockSize + (o - 1) \in 0..(C * BlockSize - 1)
      BY <1>8, <3>1, DigitBound
    <3>3. C * BlockSize <= p + 1 /\ C * BlockSize \in Nat /\ b * BlockSize \in Nat
      BY <1>4, <1>8
    <3>4. k \in 0..p /\ k + 1 = b * BlockSize + o
      BY <1>4, <3>1, <3>2, <3>3
    <3> HIDE DEF k
    <3>5. ReadCombined("raw", pending, k) = RowOf("raw", Stream, k)
      BY <1>7, <3>4 DEF Kinds
    <3>6. RowOf("raw", Stream, k) = Stream[b * BlockSize + o]
      BY <3>4 DEF RowOf
    <3> QED
      BY <3>5, <3>6 DEF k
  <2> QED
    BY <2>1
<1> HIDE DEF Raw
<1>10. score = ScoresAt(Stream, p)
  <2>1. Stream[p + 1] = NextInput
    BY <1>4
  <2> QED
    BY <1>9, <2>1, Zenon DEF ScoresAt, C
<1> HIDE DEF score
<1>11. at = TokensAt(Stream, p)
  <2>1. ScoresAt(Stream, p) \in Scores(C) /\ C \in Nat
    BY <1>4, <1>8, ScoresAreNumbers DEF C
  <2>2. SelectBlocks(score, C, Limit(p)) = BestBlocks(score, C)
    <3>1. Limit(p) = IF C < TopK THEN C ELSE TopK
      BY DEF Limit, C
    <3> QED
      BY <1>10, <2>1, <3>1, BestIs
  <2> QED
    BY <1>10, <2>2 DEF TokensAt, C
<1> HIDE DEF at
<1>12. Visible(at, p)
  BY <1>4, <1>11, TokensAreVisible
<1>13. ASSUME NEW i \in DOMAIN at
       PROVE  /\ ReadCombined("key", pending, at[i]) = <<at[i], Stream[at[i] + 1]>>
              /\ ReadCombined("value", pending, at[i]) = Stream[at[i] + 1]
  <2>1. at[i] \in 0..p
    <3>1. at \in Seq(0..p)
      BY <1>12 DEF Visible
    <3>2. i \in 1..Len(at)
      BY <3>1
    <3> QED
      BY <3>1, <3>2, ElementOfSeq
  <2>2. /\ ReadCombined("key", pending, at[i]) = RowOf("key", Stream, at[i])
        /\ ReadCombined("value", pending, at[i]) = RowOf("value", Stream, at[i])
    BY <1>7, <2>1 DEF Kinds
  <2> QED
    BY <2>2 DEF RowOf
<1>14. attended = [i \in DOMAIN at |-> <<<<at[i], Stream[at[i] + 1]>>, Stream[at[i] + 1]>>]
  BY <1>13
<1>15. attended = AttendedAt(Stream, p)
  BY <1>4, <1>11, <1>14, AttendedIs, SMTT(30)
<1> QED
  BY <1>3, <1>15 DEF pending, row, p, n

\* One token of a QSA run.
LEMMA QsaTokenInv == ASSUME MInv, QsaToken PROVE MInv'
<1> DEFINE n == Len(run.out)
           p == Len(committed) + n
           row == [key |-> <<p, inputs[n + 1]>>, value |-> inputs[n + 1],
                   raw |-> inputs[n + 1]]
<1>1. /\ stage = "run" /\ family = "QSA" /\ n < Len(inputs) /\ RunHolds
      /\ UNCHANGED <<layer, stage, inputs, ghost>>
      /\ UNCHANGED <<family, committed, Stream>>
  BY DEF QsaToken, layer, ghost, Stream, MInv, Stages
<1>2. /\ run.work \in Seq(PendingRow) /\ Len(run.work) = n /\ IsSequence(run.out)
      /\ \A m \in 1..n, kind \in Kinds :
           run.work[m][kind] = RowOf(kind, Stream, Len(committed) + m - 1)
      /\ Working.length = Len(committed)
  BY <1>1 DEF RunHolds, MInv, Stages, StateHolds, Holds, QsaFolds
<1>3. /\ n \in Nat /\ Len(committed) \in Nat /\ p \in Nat /\ Len(inputs) \in Nat
      /\ Stream[p + 1] = inputs[n + 1] /\ inputs[n + 1] \in Input
  <2>1. n \in Nat
    BY <1>2, SequenceGrows
  <2>2. n + 1 \in 1..Len(inputs) /\ Len(committed) + (n + 1) = p + 1
    BY <1>1, <2>1, StreamRows
  <2>3. Stream[Len(committed) + (n + 1)] = inputs[n + 1]
    BY <1>1, <2>2, StreamRows
  <2>4. /\ Len(committed) \in Nat /\ Len(inputs) \in Nat /\ Stream \in Seq(Input)
        /\ Len(Stream) = Len(committed) + Len(inputs)
    BY <1>1, StreamRows
  <2>5. p \in Nat /\ inputs[n + 1] \in Input
    BY <1>1, <2>1, <2>2, <2>4, StreamRows, ElementOfSeq
  <2> HIDE DEF n
  <2> QED
    BY <2>1, <2>2, <2>3, <2>4, <2>5
<1>4. row \in PendingRow /\ \A kind \in Kinds : row[kind] = RowOf(kind, Stream, p)
  BY <1>3 DEF PendingRow, Kinds, RowOf
<1>5. /\ run'.work = Append(run.work, row)
      /\ run'.out = Append(run.out, AttendedAt(Stream, p))
  BY QsaTokenIs, Zenon DEF NextInput
<1> HIDE DEF row
<1>6. /\ run'.work \in Seq(PendingRow) /\ Len(run'.work) = n + 1
      /\ \A m \in 1..n : run'.work[m] = run.work[m]
      /\ run'.work[n + 1] = row
  BY <1>2, <1>4, <1>5, AppendProperties
<1>7. /\ IsSequence(run'.out) /\ Len(run'.out) = n + 1
      /\ \A m \in 1..n : run'.out[m] = run.out[m]
      /\ run'.out[n + 1] = AttendedAt(Stream, p)
  BY <1>2, <1>5, SequenceGrows
<1>8. ASSUME NEW m \in 1..Len(run'.work), NEW kind \in Kinds
      PROVE  run'.work[m][kind] = RowOf(kind, Stream, Len(committed) + m - 1)
  <2>1. CASE m \in 1..n
    BY <1>2, <1>6, <2>1
  <2>2. CASE m = n + 1
    <3>1. Len(committed) + m - 1 = p
      BY <1>3, <2>2
    <3> QED
      BY <1>4, <1>6, <2>2, <3>1
  <2> QED
    BY <1>3, <1>6, <2>1, <2>2
<1>9. ASSUME NEW m \in 1..Len(run'.out)
      PROVE  run'.out[m] = AttendedAt(Stream, Len(committed) + m - 1)
  <2>1. CASE m \in 1..n
    <3>1. run.out[m] = AttendedAt(Stream, Len(committed) + m - 1)
      BY <1>1, <2>1 DEF RunHolds
    <3> QED
      BY <1>7, <2>1, <3>1
  <2>2. CASE m = n + 1
    <3>1. Len(committed) + m - 1 = p
      BY <1>3, <2>2
    <3> QED
      BY <1>7, <2>2, <3>1
  <2> QED
    BY <1>3, <1>7, <2>1, <2>2
<1>10. Len(run'.out) <= Len(inputs)
  BY <1>1, <1>3, <1>7
<1>11. RunHolds'
  BY <1>1, <1>6, <1>7, <1>8, <1>9, <1>10 DEF RunHolds
<1>12. Stages'
  BY <1>1, <1>11, Untouched DEF MInv, Stages, ghost
<1> QED
  BY <1>1, <1>12, Untouched DEF MInv

LEMMA CommitRunInv == ASSUME MInv, CommitRun PROVE MInv'
<1>1. /\ stage = "run" /\ stage' = "mixed" /\ Len(run.out) = Len(inputs)
      /\ mixer' = [mixer EXCEPT ![Staging] = Advanced(@)]
      /\ UNCHANGED <<family, position, active_slot, inputs, committed, previous, undo>>
  BY DEF CommitRun, ghost
<1>2. mixer' = [mixer EXCEPT ![Staging] = Advanced(Working)]
  BY <1>1 DEF Working
<1>3. /\ mixer'[Staging] = Advanced(Working) /\ mixer'[active_slot] = Live
      /\ mixer' = [s \in Slots |-> mixer'[s]]
  BY <1>2, SlotRoles DEF MInv, Shape, Live
<1>4. Live' = Live /\ Working' = Advanced(Working) /\ Stream' = Stream
  BY <1>1, <1>3 DEF Live, Working, Staging, Stream
<1>5. StateHolds(Advanced(Working), Stream) /\ Stream \in Seq(Input)
  BY <1>1, AdvancedHolds, StreamRows
<1>6. StateHolds(Working, Stream)'
  BY <1>1, <1>4, <1>5 DEF StateHolds
<1>7. StateHolds(Live, committed)'
  BY <1>1, <1>4 DEF MInv, Held, StateHolds
<1>8. ~undo /\ inputs \in Chunk /\ (family = "QSA" => Len(committed) + Len(inputs) <= Capacity)
  BY <1>1 DEF MInv, Stages
<1>9. Stages'
  BY <1>1, <1>6, <1>8 DEF Stages
<1>10. Held'
  BY <1>1, <1>4, <1>5, <1>6, <1>7, <1>8 DEF Held
<1>11. Shape' /\ History'
  BY <1>1, <1>3 DEF MInv, Shape, History
<1> QED
  BY <1>9, <1>10, <1>11 DEF MInv

\* The slots swap roles in a commit and in a rollback.
LEMMA SwapSlots ==
    ASSUME Shape, active_slot' = Staging, UNCHANGED <<family, mixer>>
    PROVE  Shape' /\ Live' = Working /\ Working' = Live
BY SlotRoles DEF Shape, Live, Working, Staging, Slots

LEMMA CommitInv == ASSUME MInv, Commit PROVE MInv'
<1>1. /\ stage = "mixed" /\ stage' = "idle" /\ active_slot' = Staging
      /\ position' = position + Len(inputs)
      /\ committed' = Stream /\ previous' = committed /\ undo' = TRUE
      /\ UNCHANGED <<family, mixer>>
  BY DEF Commit, Return, Stream
<1>2. Shape' /\ Live' = Working /\ Working' = Live
  BY <1>1, SwapSlots DEF MInv
<1>3. /\ committed \in Seq(Input) /\ Stream \in Seq(Input) /\ inputs \in Chunk
      /\ Len(Stream) = Len(committed) + Len(inputs)
      /\ position = Len(committed)
  BY <1>1, StreamRows DEF MInv, Stages, History
<1>4. StateHolds(Live, committed) /\ StateHolds(Working, Stream)
  BY <1>1 DEF MInv, Held, Stages
<1>5. StateHolds(Live, committed)' /\ StateHolds(Working, previous)'
  BY <1>1, <1>2, <1>4 DEF StateHolds
<1>6. Held'
  BY <1>1, <1>3, <1>5 DEF Held
<1>7. History'
  BY <1>1, <1>3 DEF History, Stream
<1>8. Stages'
  BY <1>1 DEF Stages
<1> QED
  BY <1>2, <1>6, <1>7, <1>8 DEF MInv

\* What a rollback takes back.
LEMMA UndoneChunk ==
    ASSUME MInv, undo
    PROVE  \E c \in Chunk : /\ committed = previous \o c
                            /\ Len(committed) - Len(previous) = Len(c)
                            /\ Len(c) > 0 /\ position >= Len(c)
                            /\ position - Len(c) = Len(previous)
<1>1. PICK c \in Chunk : committed = previous \o c
  BY DEF MInv, History
<1>2. /\ previous \in Seq(Input) /\ c \in Seq(Input) /\ Len(c) \in Nat \ {0}
      /\ Len(previous) \in Nat
      /\ position = Len(committed)
  BY <1>1, ChunkFacts, LenProperties DEF MInv, History
<1>3. Len(committed) = Len(previous) + Len(c)
  BY <1>1, <1>2, ConcatProperties
<1> QED
  BY <1>1, <1>2, <1>3

LEMMA RollbackInv == ASSUME MInv, RollbackLast PROVE MInv'
<1>1. /\ stage = "idle" /\ undo /\ active_slot' = Staging
      /\ position' = position - (Len(committed) - Len(previous))
      /\ committed' = previous /\ undo' = FALSE
      /\ UNCHANGED <<family, mixer, stage, inputs, run, previous>>
  BY DEF RollbackLast
<1>2. Shape' /\ Live' = Working /\ Working' = Live
  BY <1>1, SwapSlots DEF MInv
<1>3. /\ committed \in Seq(Input) /\ previous \in Seq(Input)
      /\ StateHolds(Live, committed) /\ StateHolds(Working, previous)
  BY <1>1 DEF MInv, History, Held
<1>4. StateHolds(Live, committed)'
  BY <1>1, <1>2, <1>3 DEF StateHolds
<1>5. \E h \in Seq(Input) : StateHolds(Working, h)'
  BY <1>1, <1>2, <1>3 DEF StateHolds
<1>6. Held'
  BY <1>1, <1>4, <1>5 DEF Held, StateHolds
<1>7. position' = Len(previous)
  BY <1>1, UndoneChunk
<1>8. History'
  BY <1>1, <1>3, <1>7 DEF History
<1>9. Stages'
  BY <1>1 DEF Stages
<1> QED
  BY <1>2, <1>6, <1>8, <1>9 DEF MInv

LEMMA ResetInv == ASSUME MInv, Reset PROVE MInv' /\ \A s \in Slots : Holds(family, mixer'[s], << >>)
<1>1. /\ stage = "idle" /\ mixer' = [s \in Slots |-> ResetMixer(s)]
      /\ position' = 0 /\ active_slot' = 0
      /\ committed' = << >> /\ previous' = << >> /\ undo' = FALSE
      /\ UNCHANGED <<family, stage, inputs, run>>
  BY DEF Reset
<1>2. ASSUME NEW s \in Slots PROVE StateHolds(mixer'[s], << >>)
  <2>1. PICK h : StateHolds(mixer[s], h)
    BY SlotRoles DEF MInv, Held, Live, Working
  <2>2. StateHolds(ResetMixer(s), << >>)
    BY <2>1, ResetHolds DEF MInv, Shape
  <2> QED
    BY <1>1, <2>2
<1>3. << >> \in Seq(Input) /\ Len(<< >>) = 0
  BY EmptySeq
<1>4. Shape'
  BY <1>1 DEF MInv, Shape, Slots
<1>5. History'
  BY <1>1, <1>3 DEF History
<1>6. Live' = mixer'[0] /\ Working' = mixer'[1]
  BY <1>1 DEF Live, Working, Staging
<1>7. StateHolds(Live, committed)' /\ StateHolds(Working, << >>)'
  BY <1>1, <1>2, <1>6 DEF StateHolds, Slots
<1>8. Held'
  BY <1>1, <1>3, <1>7 DEF Held
<1>9. Stages'
  BY <1>1 DEF Stages
<1> QED
  BY <1>2, <1>4, <1>5, <1>8, <1>9 DEF MInv, StateHolds

LEMMA FailInv == ASSUME MInv, Fail \/ UNCHANGED vars PROVE MInv'
<1>1. CASE Fail
  <2>1. stage' = "idle" /\ UNCHANGED <<layer, ghost>>
    BY <1>1 DEF Fail, Return
  <2>2. Stages'
    BY <2>1 DEF Stages
  <2> QED
    BY <2>1, <2>2, Untouched DEF MInv
<1>2. CASE UNCHANGED vars
  <2>1. UNCHANGED <<layer, stage, inputs, run, ghost>> /\ UNCHANGED <<family, committed, undo>>
        /\ UNCHANGED Stream /\ UNCHANGED Working
    BY <1>2 DEF vars, layer, ghost, Stream, Working, Staging
  <2>2. Stages'
    BY <2>1 DEF MInv, Stages, StateHolds, RunHolds
  <2> QED
    BY <2>1, <2>2, Untouched DEF MInv
<1> QED
  BY <1>1, <1>2

LEMMA StepInv == MInv /\ [Next]_vars => MInv'
BY BeginInv, CopyInv, BeginRunInv, GdnTokenInv, QsaTokenInv, CommitRunInv,
   CommitInv, RollbackInv, ResetInv, FailInv DEF Next

LEMMA Invariance == Spec => []MInv
BY InitInv, StepInv, PTL DEF Spec
-----------------------------------------------------------------------------
(* The theorems. *)

\* The copy that begins a call is never refused, after any sequence of
\* successful, failed, undone and reset calls.
THEOREM CopyIsAccepted == Spec => []CopyAccepted
<1>1. MInv => CopyAccepted
  <2> SUFFICES ASSUME MInv PROVE ImportAccepted(Live)
    BY DEF CopyAccepted
  <2>1. /\ StateHolds(Live, committed) /\ committed \in Seq(Input)
        /\ family \in {"GDN", "QSA"}
    BY DEF MInv, Held, History, Shape
  <2> QED
    BY <2>1, ImportHolds
<1> QED
  BY <1>1, Invariance, PTL

\* Outputs are only there during a run.
AtRestNoOutput == stage # "run" => run.out = << >>

LEMMA RestInvariance == Spec => []AtRestNoOutput
<1>1. Init => AtRestNoOutput
  BY DEF Init, AtRestNoOutput, Idle
<1>2. AtRestNoOutput /\ [Next]_vars => AtRestNoOutput'
  <2> SUFFICES ASSUME AtRestNoOutput, [Next]_vars PROVE AtRestNoOutput'
    OBVIOUS
  <2>1. CASE BeginRun \/ GdnToken \/ QsaToken
    <3>1. stage' = "run"
      BY <2>1 DEF BeginRun, GdnToken, QsaToken
    <3> QED
      BY <3>1 DEF AtRestNoOutput
  <2>2. CASE CommitRun \/ Commit \/ Fail
    <3>1. run'.out = << >>
      BY <2>2 DEF CommitRun, Commit, Fail, Return, Idle
    <3> QED
      BY <3>1 DEF AtRestNoOutput
  <2>3. CASE Copy
    BY <2>3 DEF Copy, Return, Idle, AtRestNoOutput
  <2>4. CASE \/ \E chunk \in Chunk : Begin(chunk)
             \/ RollbackLast \/ Reset \/ UNCHANGED vars
    BY <2>4 DEF Begin, RollbackLast, Reset, vars, AtRestNoOutput
  <2> QED
    BY <2>1, <2>2, <2>3, <2>4 DEF Next
<1> QED
  BY <1>1, <1>2, PTL DEF Spec

\* An output belongs to a run in progress.
LEMMA RunOutputs ==
    ASSUME MInv, AtRestNoOutput, NEW n \in DOMAIN run.out
    PROVE  stage = "run" /\ RunHolds /\ n \in 1..Len(run.out)
<1>1. stage = "run"
  <2>1. DOMAIN << >> = {}
    OBVIOUS
  <2> QED
    BY <2>1 DEF AtRestNoOutput
<1>2. RunHolds
  BY <1>1 DEF MInv, Stages
<1>3. n \in 1..Len(run.out)
  BY <1>2, LenProperties DEF RunHolds, IsSequence
<1> QED
  BY <1>1, <1>2, <1>3

\* A layer computes over the whole stream: each output of a GDN layer is the
\* fold of the windows of all rows since the last reset, each output of a QSA
\* layer what its position attends to in all of them, for any kernel, block
\* size, number of blocks and score, any cutting of the stream into calls, and
\* any failures, rollbacks and resets on the way.
THEOREM OutputsAreOfStream == Spec => []OutputsOfStream
<1>1. MInv /\ AtRestNoOutput => OutputsOfStream
  <2> SUFFICES ASSUME MInv, AtRestNoOutput, NEW n \in DOMAIN run.out
               PROVE  run.out[n] = IF family = "GDN"
                                     THEN [i \in 1..(Len(committed) + n) |->
                                             WindowAt(committed \o inputs, i)]
                                     ELSE AttendedAt(committed \o inputs, (Len(committed) + n) - 1)
    BY Zenon DEF OutputsOfStream
  <2>1. stage = "run" /\ RunHolds /\ n \in 1..Len(run.out)
    BY RunOutputs
  <2>2. family \in {"GDN", "QSA"}
    BY DEF MInv, Shape
  <2> QED
    BY <2>1, <2>2 DEF RunHolds, Stream
<1> QED
  BY <1>1, Invariance, RestInvariance, PTL

\* Attention keeps within its bounds: in every run each position sees only
\* positions up to its own, none twice, no more than the budget and the tail,
\* and all of them while they are within the budget.
THEOREM AttentionKeepsWithinBudget == Spec => []AttentionWithinBudget
<1>1. MInv /\ AtRestNoOutput => AttentionWithinBudget
  <2> DEFINE p(n) == Len(committed) + n - 1
             at(n) == TokensAt(Stream, p(n))
             seen(n) == {run.out[n][i][1][1] : i \in DOMAIN run.out[n]}
  <2> SUFFICES ASSUME MInv, AtRestNoOutput, family = "QSA", NEW n \in DOMAIN run.out
               PROVE  /\ seen(n) \subseteq 0..p(n) /\ seen(n) # {}
                      /\ Cardinality(seen(n)) = Len(run.out[n])
                      /\ Len(run.out[n]) <= TopK * BlockSize + BlockSize - 1
                      /\ p(n) + 1 <= TopK * BlockSize => seen(n) = 0..p(n)
    BY DEF AttentionWithinBudget
  <2>1. stage = "run" /\ RunHolds /\ n \in 1..Len(run.out)
    BY RunOutputs
  <2>2. /\ Stream \in Seq(Input) /\ p(n) \in Nat /\ p(n) \in 0..(Len(Stream) - 1)
        /\ p(n) < Capacity
    <3>1. /\ Len(committed) \in Nat /\ Len(inputs) \in Nat /\ Stream \in Seq(Input)
          /\ Len(Stream) = Len(committed) + Len(inputs)
      BY <2>1, StreamRows
    <3>2. Capacity \in Nat /\ Len(committed) + Len(inputs) <= Capacity
      BY <2>1, MixerAssumption DEF MInv, Stages
    <3>3. Len(run.out) <= Len(inputs) /\ Len(run.out) \in Nat
      BY <2>1, LenProperties DEF RunHolds, IsSequence
    <3> QED
      BY <2>1, <3>1, <3>2, <3>3
  <2>3. Visible(at(n), p(n))
    BY <2>2, TokensAreVisible
  <2>4. run.out[n] = [i \in DOMAIN at(n) |->
                        <<<<at(n)[i], Stream[at(n)[i] + 1]>>, Stream[at(n)[i] + 1]>>]
    <3>1. run.out[n] = AttendedAt(Stream, p(n))
      BY <2>1 DEF RunHolds
    <3> QED
      BY <2>2, <3>1, AttendedIs
  <2> DEFINE t == at(n)
             S == seen(n)
             q == p(n)
             f == [i \in 1..Len(t) |-> t[i]]
  <2> HIDE DEF at, p
  <2>5. /\ t \in Seq(0..q) /\ Len(t) \in Nat \ {0} /\ DOMAIN t = 1..Len(t)
        /\ \A i \in 1..Len(t) : t[i] \in 0..q
    BY <2>3, LenProperties, ElementOfSeq DEF Visible
  <2>6. S = {t[i] : i \in 1..Len(t)} /\ Len(run.out[n]) = Len(t)
    <3>1. DOMAIN run.out[n] = 1..Len(t)
      BY <2>4, <2>5
    <3>2. \A i \in 1..Len(t) : run.out[n][i][1][1] = t[i]
      BY <2>4, <2>5
    <3>3. Len(run.out[n]) = Len(t)
      <4> DEFINE o == run.out[n]
      <4>1. o = [i \in 1..Len(t) |-> o[i]]
        BY <2>4, <3>1
      <4> HIDE DEF o
      <4>2. Len(o) = Len(t)
        BY <2>5, <4>1
      <4> QED
        BY <4>2 DEF o
    <3> QED
      BY <3>1, <3>2, <3>3
  <2> HIDE DEF t, S, q
  <2>7. f \in Bijection(1..Len(t), S)
    <3>1. f \in [1..Len(t) -> S]
      BY <2>6
    <3>2. \A i, j \in 1..Len(t) : f[i] = f[j] => i = j
      BY <2>3 DEF Visible, t
    <3>3. \A x \in S : \E i \in 1..Len(t) : f[i] = x
      BY <2>6
    <3> HIDE DEF f
    <3> QED
      BY <3>1, <3>2, <3>3 DEF Bijection, Injection, Surjection, IsInjective
  <2>8. IsFiniteSet(S) /\ Cardinality(S) = Len(t)
    <3>1. ExistsBijection(1..Len(t), S)
      BY <2>7 DEF ExistsBijection
    <3>2. IsFiniteSet(1..Len(t)) /\ Cardinality(1..Len(t)) = Len(t)
      BY <2>5, FS_Interval
    <3> QED
      BY <3>1, <3>2, FS_Bijection
  <2>9. S \in SUBSET (0..q) /\ S # {}
    BY <2>5, <2>6
  <2>10. q + 1 <= TopK * BlockSize => S = 0..q
    <3>1. IsFiniteSet(0..q) /\ Cardinality(0..q) = q + 1
      BY <2>2, FS_Interval DEF q
    <3> QED
      BY <2>3, <2>8, <2>9, <3>1, FS_Subset DEF Visible, t, q
  <2>11. Len(t) <= TopK * BlockSize + BlockSize - 1
    BY <2>3 DEF Visible, t
  <2> QED
    BY <2>6, <2>8, <2>9, <2>10, <2>11 DEF S, q
<1> QED
  BY <1>1, Invariance, RestInvariance, PTL

\* In a QSA run each row below the run's position is the one of the stream,
\* whether it comes from the caches or from the run's own pending rows.
QsaRowsOfStream ==
    stage = "run" /\ family = "QSA" =>
      \A kind \in Kinds : \A i \in 0..(Len(committed) + Len(run.out) - 1) :
        ReadCombined(kind, run.work, i) = RowOf(kind, Stream, i)

\* A QSA layer never reads a row that a failed, undone or reset call left in a
\* cache: what is beyond the length is never taken for a row of the stream.
THEOREM NoStaleQsaRow == Spec => []QsaRowsOfStream
<1>1. MInv => QsaRowsOfStream
  <2> SUFFICES ASSUME MInv, stage = "run", family = "QSA", NEW kind \in Kinds,
                      NEW i \in 0..(Len(committed) + Len(run.out) - 1)
               PROVE  ReadCombined(kind, run.work, i) = RowOf(kind, Stream, i)
    BY DEF QsaRowsOfStream
  <2>1. PendingHolds(run.work) /\ Len(run.work) = Len(run.out)
    BY DEF MInv, Stages, RunHolds, PendingHolds
  <2> QED
    BY <2>1, ReadCombinedIs
<1> QED
  BY <1>1, Invariance, PTL
-----------------------------------------------------------------------------
(* The mixers implement the atomic layer. *)

Mapped == [position    |-> position,
           active_slot |-> active_slot,
           slot        |-> [s \in Slots |-> Folded(mixer[s])]]

LEMMA MappedFacts ==
    /\ Mapped.position = position /\ Mapped.active_slot = active_slot
    /\ Mapped.slot = [s \in Slots |-> FoldedBy(family, mixer[s])]
    /\ Atomic!Staging(Mapped) = Staging
    /\ Atomic!Active(Mapped) = Mapped.slot[active_slot]
<1>1. \A x : Folded(x) = FoldedBy(family, x)
  BY DEF Folded, FoldedBy
<1> QED
  BY <1>1 DEF Mapped, Atomic!Staging, Atomic!Active, Staging

LEMMA MappedSlots ==
    ASSUME MInv
    PROVE  /\ Mapped.slot[active_slot] = committed
           /\ undo => Mapped.slot[Staging] = previous
           /\ stage \in {"copied", "run"} => Mapped.slot[Staging] = committed
           /\ stage = "mixed" => Mapped.slot[Staging] = Stream
<1>1. active_slot \in Slots /\ Staging \in Slots /\ family \in {"GDN", "QSA"}
  BY SlotRoles DEF MInv, Shape
<1>2. /\ Mapped.slot[active_slot] = FoldedBy(family, Live)
      /\ Mapped.slot[Staging] = FoldedBy(family, Working)
  BY <1>1, MappedFacts DEF Live, Working
<1>3. /\ committed \in Seq(Input) /\ previous \in Seq(Input)
      /\ stage = "mixed" => Stream \in Seq(Input)
  BY StreamRows DEF MInv, History
<1>4. /\ Holds(family, Live, committed)
      /\ undo => Holds(family, Working, previous)
      /\ stage \in {"copied", "run"} => Holds(family, Working, committed)
      /\ stage = "mixed" => Holds(family, Working, Stream)
  BY DEF MInv, Held, Stages, StateHolds
<1> QED
  BY <1>1, <1>2, <1>3, <1>4, FoldedIs

\* Writing the staging slot is what an abandoned call of the atomic layer does.
LEMMA RewriteIsAbandon ==
    ASSUME MInv, inputs \in Chunk, NEW h \in {committed, committed \o inputs},
           UNCHANGED <<family, position, active_slot>>,
           mixer' = [mixer EXCEPT ![Staging] = mixer'[Staging]],
           FoldedBy(family, mixer'[Staging]) = h
    PROVE  Atomic!Abandon
<1>1. Mapped' = [position |-> position, active_slot |-> active_slot,
                 slot |-> [s \in Slots |-> FoldedBy(family, mixer'[s])]]
  BY DEF Mapped, Folded, FoldedBy
<1>2. \A s \in Slots : mixer'[s] = IF s = Staging THEN mixer'[Staging] ELSE mixer[s]
  BY SlotRoles DEF MInv, Shape
<1>3. [s \in Slots |-> FoldedBy(family, mixer'[s])] = [Mapped.slot EXCEPT ![Staging] = h]
  BY <1>2, MappedFacts
<1>4. Mapped' = Atomic!AbandonLayer(Mapped, h)
  BY <1>1, <1>3, MappedFacts DEF Atomic!AbandonLayer
<1>5. h \in Atomic!Scribbles(Mapped, inputs)
  BY MappedFacts, MappedSlots DEF Atomic!Scribbles
<1> QED
  BY <1>4, <1>5 DEF Atomic!Abandon, Mapped

\* Copying, running and swapping real mixer states is, seen from the executor,
\* the atomic layer over histories of inputs: so that KqLayer and KqModelExec
\* may speak of a slot as of the history folded into it.
THEOREM MixersAreAtomic == Spec => ImplementsAtomic
<1>1. Init => Atomic!Init
  <2> SUFFICES ASSUME Init PROVE Atomic!Init
    OBVIOUS
  <2>1. \A s \in Slots : Holds(family, mixer[s], << >>)
    BY FreshGdnHolds, FreshQsaHolds DEF Init, StateHolds
  <2>2. \A s \in Slots : FoldedBy(family, mixer[s]) = << >>
    BY <2>1, FoldedIs, EmptySeq DEF Init
  <2>3. Mapped.slot = [s \in Slots |-> << >>]
    BY <2>2, MappedFacts
  <2> QED
    BY <2>3 DEF Init, Mapped, Atomic!Init, Atomic!FreshLayer, Atomic!Slots, Slots
<1>2. MInv /\ MInv' /\ [Next]_vars => [Atomic!Next]_Mapped
  <2> SUFFICES ASSUME MInv, MInv', [Next]_vars PROVE [Atomic!Next]_Mapped
    OBVIOUS
  <2>0. /\ committed \in Seq(Input) /\ family \in {"GDN", "QSA"}
        /\ StateHolds(Live, committed)
        /\ \E g : StateHolds(Working, g)
        /\ stage # "idle" => inputs \in Chunk
    BY DEF MInv, History, Shape, Held, Stages
  <2>1. ASSUME Copy PROVE Atomic!Next
    <3>1. ImportAccepted(Live) /\ Holds(family, Import(Working, Live), committed)
      BY <2>0, ImportHolds DEF StateHolds
    <3>2. /\ mixer' = [mixer EXCEPT ![Staging] = Import(Working, Live)]
          /\ UNCHANGED <<family, position, active_slot>> /\ stage = "copy"
      BY <2>1, <3>1 DEF Copy, Working
    <3>3. mixer'[Staging] = Import(Working, Live)
      BY <3>2, SlotRoles DEF MInv, Shape
    <3>4. FoldedBy(family, mixer'[Staging]) = committed
      BY <2>0, <3>1, <3>3, FoldedIs
    <3> QED
      BY <2>0, <3>2, <3>3, <3>4, RewriteIsAbandon DEF Atomic!Next
  <2>2. ASSUME CommitRun PROVE Atomic!Next
    <3>1. Holds(family, Advanced(Working), Stream) /\ Stream \in Seq(Input)
      BY <2>2, AdvancedHolds, StreamRows DEF CommitRun, StateHolds
    <3>2. /\ mixer' = [mixer EXCEPT ![Staging] = Advanced(Working)]
          /\ UNCHANGED <<family, position, active_slot>> /\ stage = "run"
      BY <2>2 DEF CommitRun, Working
    <3>3. mixer'[Staging] = Advanced(Working)
      BY <3>2, SlotRoles DEF MInv, Shape
    <3>4. FoldedBy(family, mixer'[Staging]) = committed \o inputs
      BY <2>0, <3>1, <3>3, FoldedIs DEF Stream
    <3> QED
      BY <2>0, <3>2, <3>3, <3>4, RewriteIsAbandon DEF Atomic!Next
  <2>3. ASSUME Commit PROVE Atomic!Next
    <3>1. /\ stage = "mixed" /\ inputs \in Chunk
          /\ position' = position + Len(inputs)
          /\ active_slot' = Staging /\ UNCHANGED <<family, mixer>>
      BY <2>0, <2>3 DEF Commit
    <3>2. Mapped' = [position |-> position + Len(inputs), active_slot |-> Staging,
                     slot |-> Mapped.slot]
      BY <3>1, MappedFacts DEF Mapped, Folded, FoldedBy
    <3>3. /\ Mapped.slot[active_slot] = committed
          /\ Mapped.slot[Staging] = committed \o inputs
      BY <3>1, MappedSlots DEF Stream
    <3>4. [Mapped.slot EXCEPT ![Staging] = committed \o inputs] = Mapped.slot
      BY <3>3, MappedFacts
    <3>5. Mapped' = Atomic!ExecuteLayer(Mapped, inputs)
      BY <3>2, <3>3, <3>4, MappedFacts DEF Atomic!ExecuteLayer
    <3> QED
      BY <3>1, <3>5 DEF Atomic!Next, Atomic!Execute, Mapped
  <2>4. ASSUME RollbackLast PROVE Atomic!Next
    <3>1. PICK c \in Chunk : /\ Len(committed) - Len(previous) = Len(c)
                             /\ Len(c) > 0 /\ position >= Len(c)
      BY <2>4, UndoneChunk DEF RollbackLast
    <3>2. /\ position' = position - Len(c) /\ active_slot' = Staging
          /\ UNCHANGED <<family, mixer>>
      BY <2>4, <3>1 DEF RollbackLast
    <3>3. Mapped' = [position |-> position - Len(c), active_slot |-> Staging,
                     slot |-> Mapped.slot]
      BY <3>2, MappedFacts DEF Mapped, Folded, FoldedBy
    <3>4. Mapped' = Atomic!RollbackLayer(Mapped, Len(c))
      BY <3>3, MappedFacts DEF Atomic!RollbackLayer
    <3>5. Atomic!CanRollback(Mapped, Len(c))
      BY <3>1, MappedFacts DEF Atomic!CanRollback
    <3> QED
      BY <3>4, <3>5 DEF Atomic!Next, Atomic!Rollback, Mapped
  <2>5. ASSUME Reset PROVE Atomic!Next
    <3>1. \A s \in Slots : Holds(family, mixer'[s], << >>)
      BY <2>5, ResetInv
    <3>2. \A s \in Slots : FoldedBy(family, mixer'[s]) = << >>
      BY <2>0, <3>1, FoldedIs, EmptySeq
    <3>3. Mapped' = [position |-> 0, active_slot |-> 0,
                     slot |-> [s \in Slots |-> FoldedBy(family, mixer'[s])]]
      BY <2>5 DEF Reset, Mapped, Folded, FoldedBy
    <3>4. Mapped' = Atomic!FreshLayer
      BY <3>2, <3>3 DEF Atomic!FreshLayer, Atomic!Slots, Slots
    <3> QED
      BY <3>4 DEF Atomic!Next, Atomic!Reset, Mapped
  <2>6. ASSUME \/ \E chunk \in Chunk : Begin(chunk)
               \/ BeginRun \/ GdnToken \/ QsaToken \/ Fail \/ UNCHANGED vars
        PROVE  UNCHANGED Mapped
    <3>1. UNCHANGED <<family, position, active_slot, mixer>>
      BY <2>6 DEF Begin, BeginRun, GdnToken, QsaToken, Fail, vars, layer
    <3> QED
      BY <3>1 DEF Mapped, Folded
  <2> QED
    BY <2>1, <2>2, <2>3, <2>4, <2>5, <2>6 DEF Next
<1> QED
  BY <1>1, <1>2, Invariance, PTL DEF Spec, ImplementsAtomic, Atomic!Spec, Mapped
=============================================================================
