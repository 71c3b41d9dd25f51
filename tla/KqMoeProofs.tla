---------------------------- MODULE KqMoeProofs ----------------------------
(***************************************************************************)
(* The weight provider, and the mixture of experts that reads through it,  *)
(* for any number of heads, experts and experts selected, any rows, any    *)
(* probabilities and any tensors.                                          *)
(*                                                                         *)
(* The rows.  The permutation of the GDN heads, for any number of key      *)
(* heads, repeats and features: reading a canonical row through it gives   *)
(* that row, and so every request delivers its rows in canonical order.    *)
(* After that, the capacities: counters, touched set and traces stay       *)
(* within their limits.  Last, what the provider tells: its counters are   *)
(* the sums over the requests served, and each trace follows the history,  *)
(* note by note, from where it was enabled to where it is full.            *)
(*                                                                         *)
(* The choice of experts.  What is kept after n ids is characterised by    *)
(* what may be left out: an id that is not kept is not above any that is,  *)
(* and among equals either the ids kept are later, or k ids had reached    *)
(* its value before it came.  At the end that is the documented set.       *)
(* Counting the better ones gives each member a place of its own.          *)
(*                                                                         *)
(* The call.  The sum of a token is over the experts selected that are     *)
(* below the loop variable; what the history tells of the token is what    *)
(* the sum is made of, block by block.                                     *)
(***************************************************************************)
EXTENDS KqMoe, FiniteSetTheorems, SequenceTheorems, WellFoundedInduction, TLAPS
-----------------------------------------------------------------------------
(* Division, and the permutation of the heads. *)

\* A multiple of a divisor that is not below it in one direction.
LEMMA ProductBound ==
    ASSUME NEW b \in Nat \ {0}, NEW k \in Int, k >= 1
    PROVE  b * k >= b
<1>1. b * k = b + b * (k - 1)
  OBVIOUS
<1>2. b * (k - 1) >= 0
  OBVIOUS
<1> QED
  BY <1>1, <1>2

\* Quotient and remainder are unique.
LEMMA DivMod ==
    ASSUME NEW q \in Nat, NEW b \in Nat \ {0}, NEW r \in 0..(b - 1)
    PROVE  (q * b + r) \div b = q /\ (q * b + r) % b = r
<1> DEFINE a == q * b + r
           d == a \div b
           m == a % b
<1>1. a \in Int /\ d \in Int /\ m \in 0..(b - 1) /\ a = b * d + m
  OBVIOUS
<1>2. b * (q - d) = m - r
  OBVIOUS
<1> HIDE DEF d, m
<1>3. ~(q - d >= 1)
  BY <1>1, <1>2, ProductBound
<1>4. ~(d - q >= 1)
  <2>1. b * (d - q) = r - m
    BY <1>1, <1>2
  <2> QED
    BY <1>1, <2>1, ProductBound
<1>5. q = d
  BY <1>1, <1>3, <1>4
<1>6. r = m
  BY <1>1, <1>2, <1>5
<1> QED
  BY <1>5, <1>6 DEF d, m

\* Division with remainder.
LEMMA Division ==
    ASSUME NEW a \in Nat, NEW b \in Nat \ {0}
    PROVE  /\ a \div b \in Nat /\ a % b \in 0..(b - 1)
           /\ a = (a \div b) * b + (a % b)
<1> DEFINE d == a \div b
           m == a % b
<1>1. d \in Int /\ m \in 0..(b - 1) /\ a = b * d + m
  OBVIOUS
<1> HIDE DEF d, m
<1>2. ~(-d >= 1)
  <2>1. b * (-d) = m - a
    BY <1>1
  <2> QED
    BY <1>1, <2>1, ProductBound
<1>3. d \in Nat /\ b * d = d * b
  BY <1>1, <1>2
<1> QED
  BY <1>1, <1>3 DEF d, m

\* A quotient is bounded by what the dividend is a part of.
LEMMA QuotientBound ==
    ASSUME NEW n \in Nat, NEW b \in Nat \ {0}, NEW a \in 0..(n * b - 1)
    PROVE  a \div b \in 0..(n - 1)
<1> DEFINE d == a \div b
           m == a % b
<1>1. a \in Nat /\ a < n * b
  OBVIOUS
<1>2. d \in Nat /\ m \in 0..(b - 1) /\ a = d * b + m
  BY <1>1, Division
<1> HIDE DEF d, m
<1>3. ~(d - n >= 0)
  <2> SUFFICES ASSUME d - n >= 0 PROVE FALSE
    OBVIOUS
  <2>1. d - n \in Nat /\ (d - n) * b \in Nat
    BY <1>2
  <2>2. (d - n) * b = d * b - n * b
    BY <1>2
  <2> QED
    BY <1>1, <1>2, <2>1, <2>2
<1>4. d < n
  BY <1>2, <1>3
<1> QED
  BY <1>2, <1>4 DEF d

\* A digit and a rest below its weight make a number below the next weight.
LEMMA DigitBound ==
    ASSUME NEW n \in Nat, NEW b \in Nat \ {0}, NEW d \in 0..(n - 1), NEW m \in 0..(b - 1)
    PROVE  d * b + m \in 0..(n * b - 1)
<1>1. n - 1 - d \in Nat /\ (n - 1 - d) * b \in Nat
  OBVIOUS
<1>2. n * b = (n - 1 - d) * b + d * b + b
  OBVIOUS
<1>3. d * b \in Nat
  OBVIOUS
<1> QED
  BY <1>1, <1>2, <1>3

\* The converter's permutation undone: a canonical row is stored at the
\* physical row it maps to, for heads of any width.
LEMMA TiledIsInverse ==
    ASSUME NEW w \in Nat \ {0}, NEW c \in 0..(Values(w) - 1)
    PROVE  /\ GroupedToTiled(c, w) \in Nat
           /\ TiledToGrouped(GroupedToTiled(c, w), w) = c
<1> DEFINE R == Repeat
           K == KeyHeads
           group == c \div (R * w)
           within == c % (R * w)
           repeat == within \div w
           feature == within % w
           rest == group * w + feature
           stored == (repeat * K + group) * w + feature
<1>1. /\ R \in Nat \ {0} /\ K \in Nat \ {0} /\ w \in Nat \ {0}
      /\ R * w \in Nat \ {0} /\ K * w \in Nat \ {0}
  BY RowOrderAssumption
<1>2. c \in Nat /\ c \in 0..(K * (R * w) - 1)
  <2>1. Values(w) = K * (R * w)
    BY <1>1 DEF Values
  <2> QED
    BY <2>1
<1>3. /\ group \in 0..(K - 1) /\ within \in 0..(R * w - 1)
      /\ c = group * (R * w) + within
  BY <1>1, <1>2, Division, QuotientBound
<1>4. /\ repeat \in 0..(R - 1) /\ feature \in 0..(w - 1)
      /\ within = repeat * w + feature
  <2> HIDE DEF within
  <2>1. within \in Nat
    BY <1>1, <1>3
  <2> QED
    BY <1>1, <1>3, <2>1, Division, QuotientBound
<1>5. GroupedToTiled(c, w) = stored
  BY DEF GroupedToTiled
<1> HIDE DEF group, within, repeat, feature, R, K
<1>6. rest \in 0..(K * w - 1)
  BY <1>1, <1>3, <1>4, DigitBound
<1>7. stored = repeat * (K * w) + rest /\ stored \in Nat
  <2>1. /\ group \in Nat /\ repeat \in Nat /\ feature \in Nat
        /\ w \in Nat /\ K \in Nat
    BY <1>1, <1>3, <1>4
  <2>2. (repeat * K + group) * w = repeat * (K * w) + group * w
    BY <2>1
  <2>3. repeat * (K * w) \in Nat /\ group * w \in Nat
    BY <2>1
  <2> QED
    BY <2>1, <2>2, <2>3
<1> HIDE DEF rest, stored
<1>8. stored \div (K * w) = repeat /\ stored % (K * w) = rest
  <2>1. repeat \in Nat
    BY <1>1, <1>4
  <2> QED
    BY <1>1, <1>6, <1>7, <2>1, DivMod
<1>9. rest \div w = group /\ rest % w = feature
  <2>1. group \in Nat /\ rest = group * w + feature
    BY <1>1, <1>3 DEF rest
  <2> QED
    BY <1>1, <1>4, <2>1, DivMod
<1>10. TiledToGrouped(stored, w) = (group * R + repeat) * w + feature
  BY <1>8, <1>9 DEF TiledToGrouped, K, R
<1>11. (group * R + repeat) * w + feature = c
  <2>1. /\ group \in Nat /\ repeat \in Nat /\ feature \in Nat
        /\ w \in Nat /\ R \in Nat
    BY <1>1, <1>3, <1>4
  <2>2. (group * R + repeat) * w = group * (R * w) + repeat * w
    BY <2>1
  <2> QED
    BY <1>3, <1>4, <2>1, <2>2
<1> QED
  BY <1>5, <1>7, <1>10, <1>11

\* Whatever the role of a tensor, each of its canonical rows is stored at the
\* physical row that physical_row_for maps it to.
THEOREM PhysicalRowIsStored ==
    ASSUME NEW role, NEW i \in 0..(Rows(role) - 1)
    PROVE  StoredRow(role, PhysicalRow(role, i)) = i
<1> DEFINE heads == role \in {"gdn_alpha", "gdn_beta", "gdn_a_log", "gdn_dt_bias"}
           wide == role \in {"gdn_gate", "gdn_out"}
           joint == role \in {"gdn_qkv", "gdn_conv"}
<1>1. /\ KeyHeads \in Nat \ {0} /\ Repeat \in Nat \ {0} /\ HeadWidth \in Nat \ {0}
      /\ 1 \in Nat \ {0}
  BY RowOrderAssumption
<1>2. CASE heads
  <2>1. i \in 0..(Values(1) - 1)
    BY <1>2 DEF Rows
  <2> QED
    BY <1>1, <1>2, <2>1, TiledIsInverse DEF StoredRow, PhysicalRow
<1>3. CASE wide
  <2>1. i \in 0..(Values(HeadWidth) - 1)
    BY <1>3 DEF Rows
  <2> QED
    BY <1>1, <1>3, <2>1, TiledIsInverse DEF StoredRow, PhysicalRow
<1>4. CASE joint
  <2>1. QueryKeys \in Nat /\ Values(HeadWidth) \in Nat
    BY <1>1 DEF QueryKeys, Values
  <2>2. i \in 0..(QueryKeys + Values(HeadWidth) - 1) /\ i \in Nat
    <3>1. Rows(role) = QueryKeys + Values(HeadWidth)
      BY <1>4 DEF Rows
    <3>2. i \in 0..((QueryKeys + Values(HeadWidth)) - 1)
      BY <3>1
    <3> QED
      BY <2>1, <3>2
  <2>3. CASE i < QueryKeys
    BY <1>4, <2>3 DEF StoredRow, PhysicalRow
  <2>4. CASE ~(i < QueryKeys)
    <3> DEFINE c == i - QueryKeys
               p == GroupedToTiled(c, HeadWidth)
    <3>1. c \in 0..(Values(HeadWidth) - 1)
      BY <2>1, <2>2, <2>4
    <3>2. p \in Nat /\ TiledToGrouped(p, HeadWidth) = c
      BY <1>1, <3>1, TiledIsInverse
    <3>3. PhysicalRow(role, i) = QueryKeys + p
      BY <1>4, <2>4 DEF PhysicalRow
    <3> HIDE DEF p
    <3>4. ~(QueryKeys + p < QueryKeys) /\ (QueryKeys + p) - QueryKeys = p
      BY <2>1, <3>2
    <3>5. StoredRow(role, QueryKeys + p) = QueryKeys + TiledToGrouped(p, HeadWidth)
      BY <1>4, <3>4 DEF StoredRow
    <3> QED
      BY <2>1, <2>2, <3>2, <3>3, <3>5
  <2> QED
    BY <2>3, <2>4
<1>5. CASE ~heads /\ ~wide /\ ~joint
  BY <1>5 DEF StoredRow, PhysicalRow
<1> QED
  BY <1>2, <1>3, <1>4, <1>5
-----------------------------------------------------------------------------
(* Sums. *)

\* Every set of naturals that is not empty has a least member.
LEMMA Least ==
    ASSUME NEW S \in SUBSET Nat, S # {}
    PROVE  \E x \in S : \A y \in S : x <= y
<1>1. IsWellFoundedOn(OpToRel(<, Nat), Nat)
  BY NatLessThanWellFounded
<1>2. PICK x \in S : \A y \in S : ~(<<y, x>> \in OpToRel(<, Nat))
  BY <1>1, WFMin
<1>3. \A y \in S : ~(y < x)
  BY <1>2 DEF OpToRel
<1> QED
  BY <1>3

\* The sums of the first 0, 1, ..., n of the costs.
Sums(costs, n, g) == g = [k \in 0..n |-> IF k = 0 THEN 0 ELSE g[k - 1] + costs[k]]

\* A function that adds up the costs ends in their sum.
LEMMA SumIs ==
    ASSUME NEW costs, Len(costs) \in Nat, NEW g, Sums(costs, Len(costs), g)
    PROVE  SumOf(costs) = g[Len(costs)]
<1> DEFINE N == Len(costs)
           f == CHOOSE h : h = [k \in 0..N |-> IF k = 0 THEN 0 ELSE h[k - 1] + costs[k]]
           apart == {k \in 0..N : f[k] # g[k]}
<1>1. SumOf(costs) = f[N]
  BY DEF SumOf
<1>2. Sums(costs, N, f)
  BY DEF Sums
<1> HIDE DEF f, N
<1>3. N \in Nat /\ Sums(costs, N, g)
  BY DEF N
<1>4. ASSUME NEW h, Sums(costs, N, h), NEW k \in 0..N
      PROVE  h[k] = IF k = 0 THEN 0 ELSE h[k - 1] + costs[k]
  BY <1>4 DEF Sums
<1>5. apart = {}
  <2> SUFFICES ASSUME apart # {} PROVE FALSE
    OBVIOUS
  <2>1. apart \in SUBSET Nat
    BY <1>3
  <2>2. PICK k \in apart : \A j \in apart : k <= j
    BY <2>1, Least
  <2>3. f[k] # g[k] /\ k \in 0..N
    BY <2>2
  <2>4. k # 0
    BY <1>2, <1>3, <1>4, <2>3
  <2>5. k - 1 \in 0..N /\ ~(k <= k - 1)
    BY <1>3, <2>3, <2>4
  <2>6. f[k - 1] = g[k - 1]
    BY <2>2, <2>5
  <2> QED
    BY <1>2, <1>3, <1>4, <2>3, <2>4, <2>6
<1>6. N \in 0..N
  BY <1>3
<1>7. f[N] = g[N]
  BY <1>5, <1>6
<1> QED
  BY <1>1, <1>7 DEF N

\* There is one, and so the sum of natural numbers is one.
LEMMA SumExists ==
    ASSUME NEW costs \in Seq(Nat)
    PROVE  \E g \in [0..Len(costs) -> Nat] : Sums(costs, Len(costs), g)
<1> DEFINE N == Len(costs)
           Summed(n) == \E g \in [0..n -> Nat] : Sums(costs, n, g)
           apart == {n \in 0..N : ~Summed(n)}
<1>1. N \in Nat
  OBVIOUS
<1> HIDE DEF N
<1>2. apart = {}
  <2> SUFFICES ASSUME apart # {} PROVE FALSE
    OBVIOUS
  <2>1. apart \in SUBSET Nat
    BY <1>1
  <2>2. PICK n \in apart : \A j \in apart : n <= j
    BY <2>1, Least
  <2>3. n \in 0..N /\ ~Summed(n)
    BY <2>2
  <2>4. CASE n = 0
    <3> DEFINE g == [k \in 0..0 |-> 0]
    <3>1. g \in [0..0 -> Nat] /\ Sums(costs, 0, g)
      BY DEF Sums
    <3> QED
      BY <2>3, <2>4, <3>1
  <2>5. CASE n # 0
    <3>1. n - 1 \in 0..N /\ ~(n <= n - 1) /\ n - 1 \in Nat /\ n \in Nat
      BY <1>1, <2>3, <2>5
    <3>2. Summed(n - 1)
      <4>1. n - 1 \notin apart
        BY <2>2, <3>1
      <4> QED
        BY <3>1, <4>1
    <3>3. PICK g \in [0..(n - 1) -> Nat] : Sums(costs, n - 1, g)
      BY <3>2
    <3>4. costs[n] \in Nat
      BY <1>1, <2>3, <2>5, ElementOfSeq DEF N
    <3> DEFINE longer == [k \in 0..n |-> IF k = n THEN g[n - 1] + costs[n] ELSE g[k]]
    <3>5. longer \in [0..n -> Nat]
      BY <3>1, <3>3, <3>4
    <3>6. ASSUME NEW k \in 0..n
          PROVE  longer[k] = IF k = 0 THEN 0 ELSE longer[k - 1] + costs[k]
      <4>1. CASE k = n
        <5>1. n - 1 \in 0..n /\ n - 1 # n
          BY <3>1
        <5>2. longer[n] = g[n - 1] + costs[n] /\ longer[n - 1] = g[n - 1]
          BY <3>6, <4>1, <5>1
        <5> QED
          BY <2>5, <4>1, <5>2
      <4>2. CASE k # n
        <5>1. k \in 0..(n - 1)
          BY <3>1, <3>6, <4>2
        <5>2. g[k] = IF k = 0 THEN 0 ELSE g[k - 1] + costs[k]
          BY <3>3, <5>1 DEF Sums
        <5>3. longer[k] = g[k]
          BY <3>6, <4>2
        <5>4. k # 0 => longer[k - 1] = g[k - 1]
          BY <3>1, <5>1
        <5> QED
          BY <5>2, <5>3, <5>4
      <4> QED
        BY <4>1, <4>2
    <3>7. longer = [k \in 0..n |-> longer[k]]
      OBVIOUS
    <3> HIDE DEF longer
    <3>8. Sums(costs, n, longer)
      BY <3>6, <3>7 DEF Sums
    <3> QED
      BY <2>3, <3>5, <3>8
  <2> QED
    BY <2>4, <2>5
<1>3. N \in 0..N
  BY <1>1
<1>4. Summed(N)
  BY <1>2, <1>3
<1> QED
  BY <1>4 DEF N

\* One more cost, and after it any number of things that cost nothing.
LEMMA SumExtends ==
    ASSUME NEW old \in Seq(Nat), NEW new \in Seq(Nat), NEW x \in Nat,
           Len(old) <= Len(new), Len(old) = Len(new) => x = 0,
           \A i \in 1..Len(old) : new[i] = old[i],
           \A i \in (Len(old) + 1)..Len(new) : new[i] = IF i = Len(old) + 1 THEN x ELSE 0
    PROVE  SumOf(old) \in Nat /\ SumOf(new) = SumOf(old) + x
<1> DEFINE L == Len(old)
           N == Len(new)
<1>1. L \in Nat /\ N \in Nat /\ L <= N
  OBVIOUS
<1>2. PICK g \in [0..L -> Nat] : Sums(old, L, g)
  BY SumExists
<1>3. SumOf(old) = g[L]
  BY <1>1, <1>2, SumIs
<1> DEFINE longer == [k \in 0..N |-> IF k <= L THEN g[k] ELSE g[L] + x]
<1> HIDE DEF L, N
<1>4. g[L] \in Nat
  BY <1>1, <1>2
<1>5. ASSUME NEW k \in 0..N
      PROVE  longer[k] = IF k = 0 THEN 0 ELSE longer[k - 1] + new[k]
  <2>1. CASE k <= L
    <3>1. k \in 0..L
      BY <1>1, <1>5, <2>1
    <3>2. g[k] = IF k = 0 THEN 0 ELSE g[k - 1] + old[k]
      BY <1>2, <3>1 DEF Sums
    <3>3. longer[k] = g[k]
      BY <1>5, <2>1
    <3>4. ASSUME k # 0 PROVE longer[k - 1] = g[k - 1] /\ new[k] = old[k]
      <4>1. k - 1 \in 0..N /\ k - 1 <= L /\ k \in 1..L
        BY <1>1, <3>1, <3>4
      <4> QED
        BY <4>1 DEF L
    <3> QED
      BY <3>2, <3>3, <3>4
  <2>2. CASE ~(k <= L)
    <3>1. k \in (L + 1)..N /\ k - 1 \in 0..N /\ k # 0
      BY <1>1, <1>5, <2>2
    <3>2. new[k] = IF k = L + 1 THEN x ELSE 0
      BY <3>1 DEF L, N
    <3>3. longer[k] = g[L] + x
      BY <1>5, <2>2
    <3>4. longer[k - 1] = IF k = L + 1 THEN g[L] ELSE g[L] + x
      <4>1. k - 1 <= L <=> k = L + 1
        BY <1>1, <3>1
      <4>2. k = L + 1 => k - 1 = L
        BY <1>1
      <4> QED
        BY <3>1, <4>1, <4>2
    <3> QED
      BY <1>4, <3>1, <3>2, <3>3, <3>4
  <2> QED
    BY <2>1, <2>2
<1>6. Sums(new, N, longer)
  <2>1. longer = [k \in 0..N |-> longer[k]]
    OBVIOUS
  <2> HIDE DEF longer
  <2> QED
    BY <1>5, <2>1 DEF Sums
<1>7. longer[N] = g[L] + x
  <2>1. N \in 0..N
    BY <1>1
  <2>2. CASE N <= L
    <3>1. N = L /\ x = 0
      BY <1>1, <2>2 DEF L, N
    <3> QED
      BY <1>4, <2>1, <3>1
  <2>3. CASE ~(N <= L)
    BY <2>1, <2>3
  <2> QED
    BY <2>2, <2>3
<1> HIDE DEF longer
<1>8. SumOf(new) = longer[N]
  BY <1>1, <1>6, SumIs DEF N
<1> QED
  BY <1>3, <1>4, <1>7, <1>8
-----------------------------------------------------------------------------
(* The provider. *)

TraceSets  == {"fixed", "extended"}
TraceKinds == {"route", "expert", "ple"}
Counters   == Kinds \cup {"expert"}
Names      == {s.name : s \in Semantic}

\* What traces are made of.
Entries == (Layer \X Routable) \cup (Names \X UNION {s.experts : s \in Semantic})
             \cup Names

TracesTyped == traces \in [TraceSets -> [TraceKinds -> Seq(Entries)]]

PInv == TypeOK /\ IsFiniteSet(touched) /\ TracesTyped

\* An entry is noted if there is room, and the capacity is kept either way.
LEMMA NotedBound ==
    ASSUME NEW trace \in Seq(Entries), NEW entry \in Entries, NEW capacity \in Nat,
           Len(trace) <= capacity
    PROVE  /\ Noted(trace, entry, capacity) \in Seq(Entries)
           /\ Len(Noted(trace, entry, capacity)) <= capacity
<1>1. Len(trace) \in Nat
  BY LenProperties
<1>2. Append(trace, entry) \in Seq(Entries) /\ Len(Append(trace, entry)) = Len(trace) + 1
  BY AppendProperties
<1>3. CASE Len(trace) < capacity
  BY <1>1, <1>2, <1>3 DEF Noted
<1>4. CASE ~(Len(trace) < capacity)
  BY <1>4 DEF Noted
<1> QED
  BY <1>3, <1>4

\* Replacing one trace of the active set by one that fits.
LEMMA TraceReplaced ==
    ASSUME PInv, NEW t \in TraceKinds, NEW new \in Seq(Entries),
           Len(new) <= TraceCapacity[tracing][t],
           traces' = [traces EXCEPT ![tracing][t] = new]
    PROVE  /\ TracesTyped'
           /\ \A x \in TraceSets, u \in TraceKinds : Len(traces'[x][u]) <= TraceCapacity[x][u]
<1>1. tracing \in TraceSets /\ traces \in [TraceSets -> [TraceKinds -> Seq(Entries)]]
  BY DEF PInv, TypeOK, TraceSets, TracesTyped
<1>2. TracesTyped'
  BY <1>1 DEF TracesTyped
<1>3. ASSUME NEW x \in TraceSets, NEW u \in TraceKinds
      PROVE  traces'[x][u] = IF x = tracing /\ u = t THEN new ELSE traces[x][u]
  BY <1>1
<1>4. \A x \in TraceSets, u \in TraceKinds : Len(traces[x][u]) <= TraceCapacity[x][u]
  BY DEF PInv, TypeOK, TraceSets, TraceKinds
<1> QED
  BY <1>2, <1>3, <1>4

\* The trace a served request or a recorded route is noted in has its bound.
LEMMA NoteInv ==
    ASSUME PInv, NEW t \in TraceKinds, NEW entry \in Entries, Note(t, entry)
    PROVE  /\ TracesTyped'
           /\ \A x \in TraceSets, u \in TraceKinds : Len(traces'[x][u]) <= TraceCapacity[x][u]
<1> DEFINE old == traces[tracing][t]
           capacity == TraceCapacity[tracing][t]
           new == Noted(old, entry, capacity)
<1>1. tracing \in TraceSets /\ traces \in [TraceSets -> [TraceKinds -> Seq(Entries)]]
  BY DEF PInv, TypeOK, TraceSets, TracesTyped
<1>2. old \in Seq(Entries) /\ capacity \in Nat /\ Len(old) <= capacity
  BY <1>1, ProviderAssumption DEF PInv, TypeOK, TraceSets, TraceKinds
<1>3. new \in Seq(Entries) /\ Len(new) <= capacity
  <2> HIDE DEF old, capacity
  <2> QED
    BY <1>2, NotedBound
<1>4. traces' = [traces EXCEPT ![tracing][t] = new]
  BY <1>1 DEF Note
<1> HIDE DEF new
<1> QED
  BY <1>3, <1>4, TraceReplaced

\* Charging keeps the counters and the number of touched tensors within bounds.
LEMMA ChargeInv ==
    ASSUME PInv, NEW kinds \in SUBSET Counters, NEW kind \in Kinds,
           NEW s \in Semantic, Charge(kinds, kind, s)
    PROVE  /\ metrics' \in [Kinds \cup {"bytes", "expert"} -> Nat]
           /\ \A k \in Counters : metrics'[k] <= MaxCount
           /\ touched' \subseteq Semantic /\ IsFiniteSet(touched')
           /\ Cardinality(touched') <= MaxSemantics
<1>1. /\ metrics \in [Kinds \cup {"bytes", "expert"} -> Nat]
      /\ \A k \in Counters : metrics[k] <= MaxCount
      /\ touched \subseteq Semantic /\ IsFiniteSet(touched)
      /\ Cardinality(touched) <= MaxSemantics
  BY DEF PInv, TypeOK, Counters
<1>2. Bytes(kind, s) \in Nat /\ MaxCount \in Nat /\ MaxSemantics \in Nat
  BY ProviderAssumption DEF Kinds
<1>3. /\ \A k \in kinds : metrics[k] < MaxCount
      /\ s \notin touched => Cardinality(touched) < MaxSemantics
      /\ touched' = touched \cup {s}
      /\ metrics' = [k \in Kinds \cup {"bytes", "expert"} |->
                       IF k = "bytes" THEN metrics[k] + Bytes(kind, s)
                       ELSE IF k \in kinds THEN metrics[k] + 1 ELSE metrics[k]]
  BY <1>1 DEF Charge
<1>4. metrics' \in [Kinds \cup {"bytes", "expert"} -> Nat]
  BY <1>1, <1>2, <1>3
<1>5. ASSUME NEW k \in Counters PROVE metrics'[k] <= MaxCount
  <2>1. k # "bytes" /\ k \in Kinds \cup {"bytes", "expert"}
    BY DEF Counters, Kinds
  <2>2. metrics'[k] = IF k \in kinds THEN metrics[k] + 1 ELSE metrics[k]
    BY <1>3, <2>1
  <2>3. metrics[k] \in Nat /\ metrics[k] <= MaxCount
    BY <1>1, <2>1
  <2> QED
    BY <1>2, <1>3, <2>2, <2>3
<1>6. /\ IsFiniteSet(touched')
      /\ Cardinality(touched') = IF s \in touched THEN Cardinality(touched)
                                                  ELSE Cardinality(touched) + 1
      /\ Cardinality(touched) \in Nat
  BY <1>1, <1>3, FS_AddElement, FS_CardinalityType
<1>7. Cardinality(touched') <= MaxSemantics
  BY <1>1, <1>2, <1>3, <1>6
<1> QED
  BY <1>1, <1>3, <1>4, <1>5, <1>6, <1>7

LEMMA InitInv == Init => PInv
<1> SUFFICES ASSUME Init PROVE PInv
  OBVIOUS
<1>1. Cardinality({}) = 0 /\ IsFiniteSet({}) /\ << >> \in Seq(Entries) /\ Len(<< >>) = 0
  BY FS_EmptySet, EmptySeq
<1>2. /\ tracing = "fixed" /\ ~armed /\ status = "ok" /\ armed \in BOOLEAN
      /\ touched = {} /\ traces = [x \in TraceSets |-> NoTrace]
      /\ metrics = [k \in Kinds \cup {"bytes", "expert"} |-> 0]
  BY DEF Init, TraceSets
<1>3. TracesTyped
  BY <1>1, <1>2 DEF TracesTyped, NoTrace, TraceKinds
<1>4. ASSUME NEW x \in {"fixed", "extended"}, NEW t \in {"route", "expert", "ple"}
      PROVE  Len(traces[x][t]) <= TraceCapacity[x][t]
  <2>1. traces[x][t] = << >>
    BY <1>2 DEF NoTrace, TraceSets
  <2>2. TraceCapacity[x][t] \in Nat
    BY ProviderAssumption
  <2> QED
    BY <1>1, <2>1, <2>2
<1>5. TypeOK
  BY <1>1, <1>2, <1>4, ProviderAssumption DEF TypeOK, Kinds
<1> QED
  BY <1>1, <1>2, <1>3, <1>5 DEF PInv

\* What a step has to establish.
LEMMA Reassemble ==
    ASSUME /\ metrics' \in [Kinds \cup {"bytes", "expert"} -> Nat]
           /\ \A k \in Counters : metrics'[k] <= MaxCount
           /\ touched' \subseteq Semantic /\ IsFiniteSet(touched')
           /\ Cardinality(touched') <= MaxSemantics,
           TracesTyped',
           \A x \in TraceSets, u \in TraceKinds : Len(traces'[x][u]) <= TraceCapacity[x][u],
           tracing' \in TraceSets, armed' \in BOOLEAN, status' \in {"ok", "failed"}
    PROVE  PInv'
BY DEF PInv, TypeOK, Counters, TraceSets, TraceKinds

\* A served request.
LEMMA RequestInv ==
    ASSUME PInv, NEW s \in Semantic,
           \/ \E part \in s.parts, e \in s.experts \cup {NoExpert} : Linear(s, part, e)
           \/ Row(s) \/ Vector(s) \/ PleRow(s)
    PROVE  PInv'
<1>1. \E kinds \in SUBSET Counters, kind \in Kinds : \E e, part :
        Serve(kinds, kind, s, e, part)
  <2>1. /\ {"linear"} \in SUBSET Counters /\ {"linear", "expert"} \in SUBSET Counters
        /\ {"row"} \in SUBSET Counters /\ {"vector"} \in SUBSET Counters
        /\ {"ple"} \in SUBSET Counters
        /\ "linear" \in Kinds /\ "row" \in Kinds /\ "vector" \in Kinds /\ "ple" \in Kinds
    BY DEF Counters, Kinds
  <2>2. CASE \E part \in s.parts, e \in s.experts \cup {NoExpert} : Linear(s, part, e)
    <3>1. PICK part \in s.parts, e \in s.experts \cup {NoExpert} : Linear(s, part, e)
      BY <2>2
    <3>2. Serve(IF e = NoExpert THEN {"linear"} ELSE {"linear", "expert"}, "linear", s, e, part)
      BY <3>1 DEF Linear
    <3>3. Serve({"linear"}, "linear", s, e, part) \/ Serve({"linear", "expert"}, "linear", s, e, part)
      BY <3>2
    <3> QED
      BY <2>1, <3>3
  <2>3. CASE Row(s) \/ Vector(s) \/ PleRow(s)
    <3>1. \/ Serve({"row"}, "row", s, NoExpert, "whole")
          \/ Serve({"vector"}, "vector", s, NoExpert, "whole")
          \/ Serve({"ple"}, "ple", s, NoExpert, "whole")
      BY <2>3 DEF Row, Vector, PleRow
    <3> QED
      BY <2>1, <3>1
  <2> QED
    BY <2>2, <2>3
<1>2. PICK kinds \in SUBSET Counters, kind \in Kinds :
        Charge(kinds, kind, s) /\ status' = "ok" /\ UNCHANGED <<tracing, armed>>
  BY <1>1 DEF Serve
<1>3. /\ TracesTyped'
      /\ \A x \in TraceSets, u \in TraceKinds : Len(traces'[x][u]) <= TraceCapacity[x][u]
  <2>1. CASE UNCHANGED traces
    BY <2>1 DEF PInv, TypeOK, TracesTyped, TraceSets, TraceKinds
  <2>2. CASE \E e \in s.experts : Note("expert", <<s.name, e>>)
    <3>1. PICK e \in s.experts : Note("expert", <<s.name, e>>)
      BY <2>2
    <3>2. <<s.name, e>> \in Entries
      BY <3>1 DEF Entries, Names
    <3> QED
      BY <3>1, <3>2, NoteInv DEF TraceKinds
  <2>3. CASE Note("ple", s.name)
    <3>1. s.name \in Entries
      BY DEF Entries, Names
    <3> QED
      BY <2>3, <3>1, NoteInv DEF TraceKinds
  <2>4. \/ UNCHANGED traces
        \/ \E e \in s.experts : Note("expert", <<s.name, e>>)
        \/ Note("ple", s.name)
    <3>1. CASE \E part \in s.parts, e \in s.experts \cup {NoExpert} : Linear(s, part, e)
      <4>1. PICK part \in s.parts, e \in s.experts \cup {NoExpert} : Linear(s, part, e)
        BY <3>1
      <4>2. IF e # NoExpert /\ part = "gate" THEN Note("expert", <<s.name, e>>)
                                             ELSE UNCHANGED traces
        BY <4>1 DEF Linear
      <4> QED
        BY <4>1, <4>2
    <3>2. CASE Row(s) \/ Vector(s) \/ PleRow(s)
      BY <3>2 DEF Row, Vector, PleRow
    <3> QED
      BY <3>1, <3>2
  <2> QED
    BY <2>1, <2>2, <2>3, <2>4
<1>4. tracing' \in TraceSets /\ armed' \in BOOLEAN
  BY <1>2 DEF PInv, TypeOK, TraceSets
<1>5. /\ metrics' \in [Kinds \cup {"bytes", "expert"} -> Nat]
      /\ \A k \in Counters : metrics'[k] <= MaxCount
      /\ touched' \subseteq Semantic /\ IsFiniteSet(touched')
      /\ Cardinality(touched') <= MaxSemantics
  BY <1>2, ChargeInv
<1> QED
  BY <1>2, <1>3, <1>4, <1>5, Reassemble

\* The calls that change no account and no trace.
LEMMA QuietInv ==
    ASSUME PInv,
           \/ \E s \in Semantic, kind \in Kinds : DecodeFail(kind, s)
           \/ Refuse \/ EnableExtendedTrace \/ FailNextRequest \/ UNCHANGED vars
    PROVE  PInv'
<1>1. /\ UNCHANGED <<metrics, touched, traces>>
      /\ tracing' \in TraceSets /\ armed' \in BOOLEAN /\ status' \in {"ok", "failed"}
  BY DEF DecodeFail, Refuse, EnableExtendedTrace, FailNextRequest, vars, PInv, TypeOK, TraceSets
<1> QED
  BY <1>1, Reassemble DEF PInv, TypeOK, TracesTyped, Counters, TraceSets, TraceKinds

\* A function on an initial segment is a sequence of that length.
LEMMA SegmentSeq ==
    ASSUME NEW S, NEW n \in Nat, NEW f \in [1..n -> S]
    PROVE  f \in Seq(S) /\ Len(f) = n
OBVIOUS

\* What a recorded route adds to the history, and what of it to the trace.
RouteEvent(layer, e) ==
    [kind |-> "route", tensor |-> layer, expert |-> e, part |-> "route"]

RouteAdds(layer, good, more) ==
    LET old  == traces[tracing]["route"]
        room == TraceCapacity[tracing]["route"] - Len(old)
    IN  /\ Len(more) = IF Len(good) <= room THEN Len(good) ELSE room
        /\ \A m \in 1..Len(more) : more[m] = <<layer, good[m]>>
        /\ Len(old \o more) <= TraceCapacity[tracing]["route"]
        /\ traces' = [traces EXCEPT ![tracing]["route"] = old \o more]
        /\ history' = history \o [i \in 1..Len(good) |-> RouteEvent(layer, good[i])]

\* A recorded route: what is kept of it fits into the rest of the trace.
LEMMA RouteFacts ==
    ASSUME PInv, NEW layer \in Layer, NEW ids \in [1..2 -> Routable \cup {NoExpert}],
           RecordRoute(layer, ids)
    PROVE  \E good \in Seq(Routable), more \in Seq(Entries) : RouteAdds(layer, good, more)
<1> DEFINE bad  == {i \in 1..Len(ids) : ids[i] \notin Routable}
           good == IF bad = {} THEN ids
                   ELSE SubSeq(ids, 1, (CHOOSE i \in bad : \A j \in bad : i <= j) - 1)
           old  == traces[tracing].route
           room == TraceCapacity[tracing].route - Len(old)
           kept == IF Len(good) <= room THEN good ELSE SubSeq(good, 1, room)
           more == [i \in 1..Len(kept) |-> <<layer, kept[i]>>]
<1>1. traces' = [traces EXCEPT ![tracing].route = old \o more]
  <2>1. tracing \in TraceSets /\ traces \in [TraceSets -> [TraceKinds -> Seq(Entries)]]
    BY DEF PInv, TypeOK, TraceSets, TracesTyped
  <2>2. traces' = [traces EXCEPT ![tracing].route = @ \o more]
    BY DEF RecordRoute
  <2> HIDE DEF more
  <2> QED
    BY <2>1, <2>2
<1>2. /\ tracing \in TraceSets /\ old \in Seq(Entries) /\ Len(old) \in Nat
      /\ TraceCapacity[tracing].route \in Nat
      /\ Len(old) <= TraceCapacity[tracing].route
  <2>1. tracing \in TraceSets /\ old \in Seq(Entries)
    BY DEF PInv, TypeOK, TracesTyped, TraceSets, TraceKinds
  <2>2. Len(old) <= TraceCapacity[tracing].route
    BY <2>1 DEF PInv, TypeOK, TraceSets
  <2> QED
    BY <2>1, <2>2, LenProperties, ProviderAssumption DEF TraceSets
<1>3. room \in Nat
  BY <1>2
<1>4. ids \in Seq(Routable \cup {NoExpert}) /\ Len(ids) = 2
  BY SegmentSeq
<1>5. good \in Seq(Routable)
  <2>1. CASE bad = {}
    <3>1. \A i \in 1..2 : ids[i] \in Routable
      BY <1>4, <2>1
    <3>2. ids \in [1..2 -> Routable]
      BY <3>1
    <3>3. ids \in Seq(Routable)
      BY <3>2, SegmentSeq
    <3> QED
      BY <2>1, <3>3
  <2>2. CASE bad # {}
    <3> DEFINE first == CHOOSE i \in bad : \A j \in bad : i <= j
    <3>1. \E i \in bad : \A j \in bad : i <= j
      <4>1. bad \subseteq {1, 2}
        BY <1>4
      <4> HIDE DEF bad
      <4>2. CASE 1 \in bad
        BY <4>1, <4>2
      <4>3. CASE 1 \notin bad
        <5>1. PICK x \in bad : TRUE
          BY <2>2 DEF bad
        <5>2. 2 \in bad /\ \A j \in bad : j = 2
          BY <4>1, <4>3, <5>1
        <5> QED
          BY <5>2
      <4> QED
        BY <4>2, <4>3
    <3> HIDE DEF bad
    <3>2. first \in bad /\ \A j \in bad : first <= j
      BY <3>1
    <3> HIDE DEF first
    <3> USE DEF bad
    <3>3. first \in 1..2
      BY <1>4, <3>2
    <3>4. \A i \in 1..(first - 1) : ids[i] \in Routable
      <4>1. ASSUME NEW i \in 1..(first - 1) PROVE ids[i] \in Routable
        <5>1. i \in 1..Len(ids) /\ ~(first <= i)
          BY <1>4, <3>3
        <5> QED
          BY <3>2, <5>1
      <4> QED
        BY <4>1
    <3>5. SubSeq(ids, 1, first - 1) \in Seq(Routable)
      BY <3>3, <3>4, SubSeqProperties
    <3> QED
      BY <2>2, <3>5 DEF first
  <2> QED
    BY <2>1, <2>2
<1> HIDE DEF good, room, old
<1>6. /\ kept \in Seq(Routable) /\ Len(kept) \in Nat /\ Len(kept) <= room
      /\ Len(kept) = IF Len(good) <= room THEN Len(good) ELSE room
      /\ \A m \in 1..Len(kept) : kept[m] = good[m]
  <2>1. Len(good) \in Nat
    BY <1>5, LenProperties
  <2>2. CASE Len(good) <= room
    BY <1>5, <2>1, <2>2
  <2>3. CASE ~(Len(good) <= room)
    <3>1. \A i \in 1..room : good[i] \in Routable
      <4>1. ASSUME NEW i \in 1..room PROVE good[i] \in Routable
        <5>1. i \in 1..Len(good)
          BY <1>3, <2>1, <2>3
        <5> QED
          BY <1>5, <5>1, ElementOfSeq
      <4> QED
        BY <4>1
    <3> DEFINE cut == SubSeq(good, 1, room)
    <3>2. /\ cut \in Seq(Routable)
          /\ Len(cut) = IF 1 <= room THEN room - 1 + 1 ELSE 0
      BY <1>3, <3>1, SubSeqProperties
    <3> HIDE DEF cut
    <3>3. Len(cut) = room
      BY <1>3, <3>2
    <3>4. kept = cut
      BY <2>3 DEF cut
    <3>5. \A m \in 1..room : cut[m] = good[m]
      BY <1>3, <3>1, SubSeqProperties DEF cut
    <3> QED
      BY <1>3, <2>3, <3>2, <3>3, <3>4, <3>5
  <2> QED
    BY <2>2, <2>3
<1> HIDE DEF kept
<1>7. /\ more \in Seq(Entries) /\ Len(more) = Len(kept)
      /\ \A m \in 1..Len(kept) : more[m] = <<layer, kept[m]>>
  <2>1. \A i \in 1..Len(kept) : <<layer, kept[i]>> \in Entries
    BY <1>6, ElementOfSeq DEF Entries
  <2>2. more \in [1..Len(kept) -> Entries]
    BY <2>1
  <2>3. \A m \in 1..Len(kept) : more[m] = <<layer, kept[m]>>
    OBVIOUS
  <2> HIDE DEF more
  <2>4. Len(kept) \in Nat
    BY <1>6
  <2>5. more \in Seq(Entries) /\ Len(more) = Len(kept)
    BY <2>2, <2>4, SegmentSeq
  <2> QED
    BY <2>3, <2>5
<1> HIDE DEF more
<1>8. /\ old \o more \in Seq(Entries)
      /\ Len(old \o more) = Len(old) + Len(more)
  BY <1>2, <1>7, ConcatProperties
<1>9. Len(old \o more) <= TraceCapacity[tracing].route
  BY <1>2, <1>6, <1>7, <1>8 DEF room
<1>10. /\ Len(more) = IF Len(good) <= room THEN Len(good) ELSE room
       /\ \A m \in 1..Len(more) : more[m] = <<layer, good[m]>>
  BY <1>6, <1>7
<1>11. history' = history \o [i \in 1..Len(good) |-> RouteEvent(layer, good[i])]
  BY DEF RecordRoute, RouteEvent, good
<1>12. RouteAdds(layer, good, more)
  BY <1>1, <1>9, <1>10, <1>11 DEF RouteAdds, room, old
<1> QED
  BY <1>5, <1>7, <1>12

LEMMA RouteInv ==
    ASSUME PInv, NEW layer \in Layer, NEW ids \in [1..2 -> Routable \cup {NoExpert}],
           RecordRoute(layer, ids)
    PROVE  PInv'
<1>1. PICK good \in Seq(Routable), more \in Seq(Entries) : RouteAdds(layer, good, more)
  BY RouteFacts
<1> DEFINE new == traces[tracing]["route"] \o more
<1>2. /\ traces' = [traces EXCEPT ![tracing]["route"] = new]
      /\ Len(new) <= TraceCapacity[tracing]["route"]
  BY <1>1 DEF RouteAdds
<1>3. new \in Seq(Entries)
  BY ConcatProperties DEF PInv, TypeOK, TracesTyped, TraceSets, TraceKinds
<1>4. /\ status' \in {"ok", "failed"}
      /\ UNCHANGED <<metrics, touched, tracing, armed>>
  BY DEF RecordRoute
<1> HIDE DEF new
<1>5. /\ TracesTyped'
      /\ \A x \in TraceSets, u \in TraceKinds : Len(traces'[x][u]) <= TraceCapacity[x][u]
  BY <1>2, <1>3, TraceReplaced DEF TraceKinds
<1>6. /\ tracing' \in TraceSets /\ armed' \in BOOLEAN
      /\ metrics' \in [Kinds \cup {"bytes", "expert"} -> Nat]
      /\ \A k \in Counters : metrics'[k] <= MaxCount
      /\ touched' \subseteq Semantic /\ IsFiniteSet(touched')
      /\ Cardinality(touched') <= MaxSemantics
  BY <1>4 DEF PInv, TypeOK, TraceSets, Counters
<1> QED
  BY <1>4, <1>5, <1>6, Reassemble

\* The request counters, the set of touched tensors and the traces stay within
\* their fixed sizes, whatever is requested, traced, refused or made to fail.
THEOREM BoundsKept == Spec => []TypeOK
<1>1. PInv /\ [Next]_vars => PInv'
  BY RequestInv, QuietInv, RouteInv DEF Next
<1>2. PInv => TypeOK
  BY DEF PInv
<1> QED
  BY InitInv, <1>1, <1>2, PTL DEF Spec

\* Every request that materialises rows delivers them in canonical order: the
\* permutation of the converter is undone for every semantic role and any
\* number of heads, repeats and features.
THEOREM RowsAreCanonical == Spec => []CanonicalOrder
<1>1. Init => CanonicalOrder
  <2>1. DOMAIN << >> = {}
    OBVIOUS
  <2> QED
    BY <2>1 DEF Init, CanonicalOrder
<1>2. CanonicalOrder /\ [Next]_vars => CanonicalOrder'
  <2> SUFFICES ASSUME CanonicalOrder, [Next]_vars PROVE CanonicalOrder'
    OBVIOUS
  <2>1. ASSUME NEW role, out' = Delivered(role) PROVE CanonicalOrder'
    BY <2>1, PhysicalRowIsStored DEF Delivered, CanonicalOrder
  <2>2. ASSUME out' = << >> PROVE CanonicalOrder'
    <3>1. DOMAIN << >> = {}
      OBVIOUS
    <3> QED
      BY <2>2, <3>1 DEF CanonicalOrder
  <2>3. ASSUME out' = out PROVE CanonicalOrder'
    BY <2>3 DEF CanonicalOrder
  <2>4. \/ out' \in {<< >>, out}
        \/ \E s \in Semantic : out' = Delivered(s.role)
    BY DEF Next, Linear, Row, Vector, PleRow, DecodeFail, RecordRoute, Refuse,
       EnableExtendedTrace, FailNextRequest, vars
  <2> QED
    BY <2>1, <2>2, <2>3, <2>4
<1> QED
  BY <1>1, <1>2, PTL DEF Spec
-----------------------------------------------------------------------------
(* What the accounts and the traces say of the history. *)

\* What the history is made of.
Recorded ==
    [kind : Kinds, tensor : Semantic,
     expert : (UNION {s.experts : s \in Semantic}) \cup {NoExpert},
     part : (UNION {s.parts : s \in Semantic}) \cup {"whole"}]
    \cup [kind : {"route"}, tensor : Layer, expert : Routable, part : {"route"}]

\* An event or more at the end of a history leave the others where they are.
LEMMA Lengthened ==
    ASSUME NEW R, NEW events \in Seq(R), NEW more \in Seq(R)
    PROVE  /\ Len(events) \in Nat /\ Len(more) \in Nat
           /\ events \o more \in Seq(R)
           /\ Len(events \o more) = Len(events) + Len(more)
           /\ \A i \in 1..Len(events) : (events \o more)[i] = events[i]
           /\ \A m \in 1..Len(more) : (events \o more)[Len(events) + m] = more[m]
           /\ \A i \in (Len(events) + 1)..(Len(events) + Len(more)) :
                (events \o more)[i] = more[i - Len(events)]
BY ConcatProperties, LenProperties

\* The places of a finite set of naturals count it through.
LEMMA PlaceBounds ==
    ASSUME NEW n \in Nat, NEW at \in SUBSET (1..n)
    PROVE  /\ IsFiniteSet(at) /\ Cardinality(at) \in Nat
           /\ \A i \in at : Place(at, i) \in 1..Cardinality(at)
<1>1. IsFiniteSet(1..n)
  BY FS_Interval
<1>2. IsFiniteSet(at) /\ Cardinality(at) \in Nat
  BY <1>1, FS_Subset, FS_CardinalityType
<1>3. ASSUME NEW i \in at PROVE Place(at, i) \in 1..Cardinality(at)
  <2> DEFINE low == {j \in at : j <= i}
  <2>1. low \in SUBSET at /\ i \in low
    BY <1>3
  <2>2. IsFiniteSet(low) /\ Cardinality(low) <= Cardinality(at) /\ Cardinality(low) \in Nat
    BY <1>2, <2>1, FS_Subset, FS_CardinalityType
  <2>3. Cardinality(low) # 0
    BY <2>1, <2>2, FS_EmptySet
  <2>4. Cardinality(low) \in 1..Cardinality(at)
    BY <1>2, <2>2, <2>3
  <2> QED
    BY <2>4 DEF Place
<1> QED
  BY <1>2, <1>3

\* Places at the end of a set: those before keep theirs, the new ones follow.
LEMMA PlacesFollow ==
    ASSUME NEW n \in Nat, NEW m \in Nat, NEW at \in SUBSET (1..n)
    PROVE  LET all == at \cup (n + 1)..(n + m)
           IN  /\ IsFiniteSet(all) /\ Cardinality(all) = Cardinality(at) + m
               /\ \A i \in at : Place(all, i) = Place(at, i)
               /\ \A k \in 1..m : Place(all, n + k) = Cardinality(at) + k
<1> DEFINE all == at \cup (n + 1)..(n + m)
<1>1. IsFiniteSet(at) /\ Cardinality(at) \in Nat
  BY PlaceBounds
<1>2. ASSUME NEW k \in 0..m
      PROVE  /\ IsFiniteSet(at \cup (n + 1)..(n + k))
             /\ Cardinality(at \cup (n + 1)..(n + k)) = Cardinality(at) + k
  <2> DEFINE top == (n + 1)..(n + k)
  <2>1. /\ IsFiniteSet(top)
        /\ Cardinality(top) = k
    <3>1. n + 1 \in Int /\ n + k \in Int /\ k \in Nat
      BY <1>2
    <3>2. Cardinality(top) = IF n + 1 > n + k THEN 0 ELSE n + k - (n + 1) + 1
      BY <3>1, FS_Interval
    <3> QED
      BY <3>1, <3>2, FS_Interval
  <2>2. at \cap top = {}
    OBVIOUS
  <2> HIDE DEF top
  <2>3. Cardinality(at \cap top) = 0
    BY <2>2, FS_EmptySet
  <2>4. /\ IsFiniteSet(at \cup top)
        /\ Cardinality(at \cup top) =
             Cardinality(at) + Cardinality(top) - Cardinality(at \cap top)
    BY <1>1, <2>1, FS_Union
  <2>5. Cardinality(at \cup top) = Cardinality(at) + k
    <3>1. Cardinality(top) - Cardinality(at \cap top) = k
      BY <1>2, <2>1, <2>3
    <3> QED
      BY <1>1, <1>2, <2>1, <2>3, <2>4, <3>1
  <2> QED
    BY <2>4, <2>5 DEF top
<1>3. \A i \in at : {j \in all : j <= i} = {j \in at : j <= i}
  OBVIOUS
<1>4. ASSUME NEW k \in 1..m PROVE Place(all, n + k) = Cardinality(at) + k
  <2>1. {j \in all : j <= n + k} = at \cup (n + 1)..(n + k)
    <3>1. ASSUME NEW j \in at PROVE j <= n + k
      BY <1>4
    <3>2. {j \in (n + 1)..(n + m) : j <= n + k} = (n + 1)..(n + k)
      BY <1>4
    <3> QED
      BY <3>1, <3>2
  <2>2. k \in 0..m
    BY <1>4
  <2> QED
    BY <1>2, <2>1, <2>2 DEF Place
<1>5. IsFiniteSet(all) /\ Cardinality(all) = Cardinality(at) + m
  <2>1. m \in 0..m
    OBVIOUS
  <2> QED
    BY <1>2, <2>1
<1>6. \A i \in at : Place(all, i) = Place(at, i)
  BY <1>3 DEF Place
<1> QED
  BY <1>4, <1>5, <1>6

\* Events the trace has no entry for leave it true.
LEMMA HoldsStill ==
    ASSUME NEW R, NEW events \in Seq(R), NEW more \in Seq(R),
           NEW t, NEW capacity \in Nat, NEW from \in Nat \ {0}, NEW trace,
           Holds(trace, capacity, t, events, from),
           \A m \in 1..Len(more) : ~Notes(t, more[m])
    PROVE  Holds(trace, capacity, t, events \o more, from)
<1> DEFINE longer == events \o more
           at == Events(t, events, from)
<1>1. /\ Len(events) \in Nat /\ Len(more) \in Nat
      /\ Len(longer) = Len(events) + Len(more)
      /\ \A i \in 1..Len(events) : longer[i] = events[i]
      /\ \A i \in (Len(events) + 1)..(Len(events) + Len(more)) : longer[i] = more[i - Len(events)]
  BY Lengthened
<1> HIDE DEF longer
<1>2. ASSUME NEW i \in from..Len(longer)
      PROVE  Notes(t, longer[i]) <=> i \in at
  <2>1. CASE i <= Len(events)
    <3>1. i \in from..Len(events) /\ i \in 1..Len(events)
      BY <1>1, <1>2, <2>1
    <3> QED
      BY <1>1, <3>1 DEF Events
  <2>2. CASE ~(i <= Len(events))
    <3>1. i \in (Len(events) + 1)..(Len(events) + Len(more)) /\ i - Len(events) \in 1..Len(more)
      BY <1>1, <1>2, <2>2
    <3>2. i \notin at
      BY <1>1, <1>2, <2>2 DEF Events
    <3> QED
      BY <1>1, <3>1, <3>2
  <2> QED
    BY <2>1, <2>2
<1>3. at \subseteq from..Len(longer)
  BY <1>1 DEF Events
<1>4. Events(t, longer, from) = at
  BY <1>2, <1>3 DEF Events
<1>5. \A i \in at : longer[i] = events[i]
  BY <1>1 DEF Events
<1> QED
  BY <1>4, <1>5 DEF Holds, longer

\* Events it has an entry for are added as long as there is room.
LEMMA HoldsMore ==
    ASSUME NEW R, NEW events \in Seq(R), NEW more \in Seq(R),
           NEW t, NEW capacity \in Nat, NEW from \in Nat \ {0}, from <= Len(events) + 1,
           NEW E, NEW trace \in Seq(E), NEW extra \in Seq(E),
           Holds(trace, capacity, t, events, from),
           \A m \in 1..Len(more) : Notes(t, more[m]),
           Len(extra) = IF Len(more) <= capacity - Len(trace) THEN Len(more)
                        ELSE capacity - Len(trace),
           \A m \in 1..Len(extra) : extra[m] = Entry(t, more[m])
    PROVE  Holds(trace \o extra, capacity, t, events \o more, from)
<1> DEFINE longer == events \o more
           at == Events(t, events, from)
           L == Len(events)
           M == Len(more)
           all == at \cup (L + 1)..(L + M)
           card == Cardinality(at)
           full == trace \o extra
<1>9. Len(trace) = IF card <= capacity THEN card ELSE capacity
  BY Zenon DEF Holds
<1>1. /\ L \in Nat /\ M \in Nat
      /\ Len(longer) = L + M
      /\ \A i \in 1..L : longer[i] = events[i]
      /\ \A m \in 1..M : longer[L + m] = more[m]
      /\ \A i \in (L + 1)..(L + M) : longer[i] = more[i - L]
  BY Lengthened
<1>2. /\ Len(trace) \in Nat /\ Len(extra) \in Nat
      /\ Len(full) = Len(trace) + Len(extra)
      /\ \A i \in 1..Len(trace) : full[i] = trace[i]
      /\ \A m \in 1..Len(extra) : full[Len(trace) + m] = extra[m]
  <2>1. trace \in Seq(E) /\ extra \in Seq(E)
    OBVIOUS
  <2> QED
    BY ONLY <2>1, Lengthened
<1>3. Len(extra) = IF M <= capacity - Len(trace) THEN M ELSE capacity - Len(trace)
  OBVIOUS
<1>4. from <= L + 1
  OBVIOUS
<1> HIDE DEF longer, full, L
<1>5. at \in SUBSET (1..L)
  BY <1>1 DEF Events, L
<1>6. /\ card \in Nat
      /\ \A i \in at : Place(at, i) \in 1..card
  BY <1>1, <1>5, PlaceBounds
<1>7. /\ Cardinality(all) = card + M
      /\ \A i \in at : Place(all, i) = Place(at, i)
      /\ \A k \in 1..M : Place(all, L + k) = card + k
  BY <1>1, <1>5, PlacesFollow, ZenonT(30)
<1>8. Events(t, longer, from) = all
  <2>1. ASSUME NEW i \in from..(L + M) PROVE Notes(t, longer[i]) <=> i \in all
    <3>1. CASE i <= L
      <4>1. i \in 1..L /\ i \in from..Len(events)
        BY <1>1, <2>1, <3>1 DEF L
      <4>2. i \in at <=> Notes(t, events[i])
        BY <4>1 DEF Events
      <4>3. i \in all <=> i \in at
        BY <1>1, <4>1
      <4> QED
        BY <1>1, <4>1, <4>2, <4>3
    <3>2. CASE ~(i <= L)
      <4>1. i \in (L + 1)..(L + M) /\ i - L \in 1..M
        BY <1>1, <2>1, <3>2
      <4> QED
        BY <1>1, <4>1
    <3> QED
      BY <3>1, <3>2
  <2>2. all \subseteq from..(L + M)
    <3>1. at \subseteq from..(L + M)
      BY <1>1 DEF Events, L
    <3> QED
      BY <1>1, <1>4, <3>1
  <2> HIDE DEF all
  <2> QED
    BY <1>1, <2>1, <2>2 DEF Events
<1> HIDE DEF M, card
<1>10. Len(full) = IF card + M <= capacity THEN card + M ELSE capacity
  <2>1. /\ M \in Nat /\ card \in Nat /\ Len(trace) \in Nat /\ Len(extra) \in Nat /\ capacity \in Nat
        /\ Len(full) = Len(trace) + Len(extra)
    BY <1>1, <1>2, <1>6
  <2>2. CASE card <= capacity /\ M <= capacity - card
    <3>1. Len(trace) = card /\ card + M <= capacity
      BY <1>9, <2>1, <2>2
    <3>2. Len(extra) = M
      BY <1>3, <2>2, <3>1
    <3> QED
      BY ONLY <2>1, <3>1, <3>2
  <2>3. CASE card <= capacity /\ ~(M <= capacity - card)
    <3>1. Len(trace) = card /\ ~(card + M <= capacity)
      BY <1>9, <2>1, <2>3
    <3>2. Len(extra) = capacity - card
      BY <1>3, <2>3, <3>1
    <3> QED
      BY ONLY <2>1, <3>1, <3>2
  <2>4. CASE ~(card <= capacity)
    <3>1. Len(trace) = capacity /\ ~(card + M <= capacity)
      BY <1>9, <2>1, <2>4
    <3>2. M <= capacity - Len(trace) => M = 0
      BY ONLY <2>1, <3>1
    <3>3. capacity - Len(trace) = 0
      BY ONLY <2>1, <3>1
    <3>4. Len(extra) = 0
      BY <1>3, <3>2, <3>3
    <3> QED
      BY ONLY <2>1, <3>1, <3>4
  <2> QED
    BY <2>2, <2>3, <2>4
<1>11. ASSUME NEW i \in all, Place(all, i) <= capacity
       PROVE  full[Place(all, i)] = Entry(t, longer[i])
  <2>1. CASE i \in at
    <3>1. Place(all, i) = Place(at, i) /\ Place(at, i) \in 1..card
      BY <1>6, <1>7, <2>1
    <3>2. trace[Place(at, i)] = Entry(t, events[i])
      BY <1>11, <2>1, <3>1 DEF Holds
    <3>3. Place(at, i) \in 1..Len(trace)
      BY <1>6, <1>9, <1>11, <3>1
    <3>4. longer[i] = events[i]
      BY <1>1, <1>5, <2>1
    <3> QED
      BY <1>2, <3>1, <3>2, <3>3, <3>4
  <2>2. CASE i \notin at
    <3> DEFINE k == i - L
    <3>1. k \in 1..M /\ i = L + k
      BY <1>1, <1>11, <2>2
    <3>2. Place(all, i) = card + k
      BY <1>7, <3>1
    <3>3. longer[i] = more[k]
      BY <1>1, <3>1
    <3> HIDE DEF k
    <3>4. Len(trace) = card /\ k \in 1..Len(extra)
      BY <1>1, <1>2, <1>3, <1>6, <1>9, <1>11, <3>1, <3>2
    <3>5. full[card + k] = extra[k]
      BY <1>2, <3>4
    <3> QED
      BY <3>2, <3>3, <3>4, <3>5
  <2> QED
    BY <2>1, <2>2
<1> QED
  <2>1. Len(full) = IF Cardinality(all) <= capacity THEN Cardinality(all) ELSE capacity
    BY <1>7, <1>10
  <2> HIDE DEF all
  <2>2. Holds(full, capacity, t, longer, from)
    BY <1>8, <1>11, <2>1 DEF Holds
  <2> QED
    BY <2>2 DEF longer, full
-----------------------------------------------------------------------------
(* The invariant of the service. *)

\* The accounts and the traces are a function of the history; before extended
\* tracing is enabled its traces are empty, and after that the fixed traces are
\* those of the history up to then.
ServiceInv == /\ PInv
              /\ history \in Seq(Recorded) /\ start \in 0..Len(history)
              /\ tracing = "fixed" => traces["extended"] = NoTrace
              /\ AccountsServed
              /\ TracesTruthful

Costs(events) == [i \in DOMAIN events |-> Cost(events[i])]

\* What was recorded costs a natural number.
LEMMA CostsType ==
    ASSUME NEW events \in Seq(Recorded)
    PROVE  Costs(events) \in Seq(Nat) /\ Len(Costs(events)) = Len(events)
<1>1. Len(events) \in Nat /\ DOMAIN events = 1..Len(events)
  BY LenProperties
<1>2. ASSUME NEW i \in 1..Len(events) PROVE Cost(events[i]) \in Nat
  <2>1. events[i] \in Recorded
    BY <1>2, ElementOfSeq
  <2>2. \/ events[i].kind = "route"
        \/ events[i].kind \in Kinds /\ events[i].tensor \in Semantic
    BY <2>1 DEF Recorded
  <2> QED
    BY <2>2, ProviderAssumption DEF Cost, Kinds
<1>3. Costs(events) \in [1..Len(events) -> Nat]
  BY <1>1, <1>2 DEF Costs
<1> QED
  BY <1>1, <1>3, SegmentSeq

\* Any part of a history is a finite set.
LEMMA PartFinite ==
    ASSUME NEW events \in Seq(Recorded), NEW part \in SUBSET (1..Len(events))
    PROVE  IsFiniteSet(part) /\ Cardinality(part) \in Nat
BY LenProperties, PlaceBounds

\* A served request enters the accounts.
LEMMA RequestAccounts ==
    ASSUME ServiceInv, NEW e \in Recorded, e.kind \in Kinds, e.tensor \in Semantic,
           NEW kinds,
           kinds = IF e.expert = NoExpert THEN {e.kind} ELSE {"linear", "expert"},
           e.expert # NoExpert => e.kind = "linear",
           Charge(kinds, e.kind, e.tensor),
           history' = history \o <<e>>
    PROVE  AccountsServed'
<1> DEFINE L == Len(history)
           Experts == {i \in Of("linear") : history[i].expert # NoExpert}
<1>1. /\ metrics \in [Kinds \cup {"bytes", "expert"} -> Nat]
      /\ history \in Seq(Recorded) /\ <<e>> \in Seq(Recorded)
      /\ metrics.bytes = TotalBytes
      /\ \A k \in Kinds : metrics[k] = Cardinality(Of(k))
      /\ metrics.expert = Cardinality(Experts)
      /\ touched = {history[i].tensor : i \in Served}
  BY DEF ServiceInv, PInv, TypeOK, AccountsServed
<1>2. /\ L \in Nat /\ history' \in Seq(Recorded) /\ Len(history') = L + 1
      /\ \A i \in 1..L : history'[i] = history[i]
      /\ history'[L + 1] = e
      /\ DOMAIN history = 1..L /\ DOMAIN history' = 1..(L + 1)
  <2>1. Len(<<e>>) = 1 /\ <<e>>[1] = e
    OBVIOUS
  <2>2. /\ L \in Nat /\ history \o <<e>> \in Seq(Recorded)
        /\ Len(history \o <<e>>) = L + Len(<<e>>)
        /\ \A i \in 1..L : (history \o <<e>>)[i] = history[i]
        /\ \A m \in 1..Len(<<e>>) : (history \o <<e>>)[L + m] = <<e>>[m]
    BY <1>1, Lengthened
  <2>3. history' \in Seq(Recorded) /\ Len(history') = L + 1
    BY <2>1, <2>2
  <2>4. DOMAIN history = 1..L /\ DOMAIN history' = 1..(L + 1)
    BY <1>1, <2>3, LenProperties
  <2>5. 1 \in 1..Len(<<e>>)
    BY <2>1
  <2> QED
    BY <2>1, <2>2, <2>3, <2>4, <2>5
<1>3. /\ metrics' = [k \in Kinds \cup {"bytes", "expert"} |->
                       IF k = "bytes" THEN metrics[k] + Bytes(e.kind, e.tensor)
                       ELSE IF k \in kinds THEN metrics[k] + 1 ELSE metrics[k]]
      /\ metrics.bytes + Bytes(e.kind, e.tensor) <= Budget
      /\ touched' = touched \cup {e.tensor}
      /\ e.kind # "route"
  BY <1>1 DEF Charge, Kinds
<1> HIDE DEF L
<1>4. ASSUME NEW k \in Kinds
      PROVE  Of(k)' = IF k = e.kind THEN Of(k) \cup {L + 1} ELSE Of(k)
  BY <1>2 DEF Of
<1>5. Served' = Served \cup {L + 1}
  BY <1>2, <1>3 DEF Served
<1>6. Experts' = IF e.expert # NoExpert THEN Experts \cup {L + 1} ELSE Experts
  <2>1. "linear" \in Kinds
    BY DEF Kinds
  <2>2. Of("linear")' = IF "linear" = e.kind THEN Of("linear") \cup {L + 1} ELSE Of("linear")
    BY <1>4, <2>1
  <2>3. Of("linear") \subseteq 1..L
    BY <1>2 DEF Of
  <2> QED
    BY <1>2, <2>2, <2>3
<1>7. ASSUME NEW part \in SUBSET (1..L)
      PROVE  /\ Cardinality(part) \in Nat
             /\ Cardinality(part \cup {L + 1}) = Cardinality(part) + 1
  <2>1. IsFiniteSet(part) /\ Cardinality(part) \in Nat
    BY <1>1, PartFinite DEF L
  <2>2. L + 1 \notin part
    BY <1>2
  <2> QED
    BY <2>1, <2>2, FS_AddElement
<1>8. TotalBytes' = TotalBytes + Bytes(e.kind, e.tensor)
  <2> DEFINE old == Costs(history)
             new == Costs(history')
             x == Bytes(e.kind, e.tensor)
  <2>1. old \in Seq(Nat) /\ Len(old) = L /\ new \in Seq(Nat) /\ Len(new) = L + 1
    BY <1>1, <1>2, CostsType DEF L
  <2>2. x \in Nat
    BY ProviderAssumption DEF Kinds
  <2>3. \A i \in 1..L : new[i] = old[i]
    BY <1>2 DEF Costs
  <2>4. new[L + 1] = x
    BY <1>2, <1>3 DEF Costs, Cost
  <2>5. \A i \in (L + 1)..(L + 1) : new[i] = IF i = L + 1 THEN x ELSE 0
    BY <1>2, <2>4
  <2>6. TotalBytes = SumOf(old) /\ TotalBytes' = SumOf(new)
    BY DEF TotalBytes, Costs
  <2> HIDE DEF old, new, x
  <2>7. SumOf(new) = SumOf(old) + x
    <3>1. /\ Len(old) <= Len(new) /\ Len(old) # Len(new)
          /\ \A i \in 1..Len(old) : new[i] = old[i]
          /\ \A i \in (Len(old) + 1)..Len(new) : new[i] = IF i = Len(old) + 1 THEN x ELSE 0
      BY <1>2, <2>1, <2>3, <2>5
    <3>2. old \in Seq(Nat) /\ new \in Seq(Nat)
      BY <2>1
    <3> QED
      BY ONLY <2>2, <3>1, <3>2, SumExtends
  <2> QED
    BY <2>6, <2>7 DEF x
<1>9. metrics'.bytes = TotalBytes' /\ metrics'.bytes <= Budget
  BY <1>1, <1>3, <1>8
<1>10. ASSUME NEW k \in Kinds PROVE metrics'[k] = Cardinality(Of(k)')
  <2>1. k # "bytes" /\ k # "expert"
    BY DEF Kinds
  <2>2. k \in kinds <=> k = e.kind
    BY <2>1
  <2>3. metrics'[k] = IF k = e.kind THEN metrics[k] + 1 ELSE metrics[k]
    BY <1>3, <2>1, <2>2
  <2>4. Of(k) \in SUBSET (1..L)
    BY <1>2 DEF Of
  <2> QED
    BY <1>1, <1>4, <1>7, <2>3, <2>4
<1>11. metrics'.expert = Cardinality(Experts')
  <2>1. "expert" \in kinds <=> e.expert # NoExpert
    BY DEF Kinds
  <2>2. metrics'.expert = IF e.expert # NoExpert THEN metrics.expert + 1 ELSE metrics.expert
    BY <1>3, <2>1
  <2>3. Experts \in SUBSET (1..L)
    BY <1>2 DEF Of
  <2> HIDE DEF Experts
  <2> QED
    BY <1>1, <1>6, <1>7, <2>2, <2>3
<1>12. touched' = {history'[i].tensor : i \in Served'}
  <2>1. Served \subseteq 1..L
    BY <1>2 DEF Served
  <2>2. {history'[i].tensor : i \in Served'} = {history'[i].tensor : i \in Served} \cup {e.tensor}
    BY <1>2, <1>5
  <2>3. {history'[i].tensor : i \in Served} = touched
    BY <1>1, <1>2, <2>1
  <2> QED
    BY <1>3, <2>2, <2>3
<1> QED
  BY <1>9, <1>10, <1>11, <1>12 DEF AccountsServed

\* A recorded route does not.
LEMMA RouteAccounts ==
    ASSUME ServiceInv, NEW more \in Seq(Recorded),
           \A m \in 1..Len(more) : more[m].kind = "route",
           history' = history \o more, UNCHANGED <<metrics, touched>>
    PROVE  AccountsServed'
<1> DEFINE L == Len(history)
           N == L + Len(more)
           Experts == {i \in Of("linear") : history[i].expert # NoExpert}
<1>1. history \in Seq(Recorded) /\ AccountsServed
  BY DEF ServiceInv
<1>2. /\ L \in Nat /\ Len(more) \in Nat /\ history' \in Seq(Recorded) /\ Len(history') = N
      /\ \A i \in 1..L : history'[i] = history[i]
      /\ \A i \in (L + 1)..N : history'[i] = more[i - L]
  BY <1>1, Lengthened
<1>3. DOMAIN history = 1..L /\ DOMAIN history' = 1..N
  BY <1>1, <1>2, LenProperties
<1>4. L \in Nat /\ N \in Nat /\ L <= N
  BY <1>2
<1>5. \A i \in (L + 1)..N : history'[i].kind = "route"
  <2> SUFFICES ASSUME NEW i \in (L + 1)..N PROVE history'[i].kind = "route"
    OBVIOUS
  <2>1. i - L \in 1..Len(more)
    BY <1>2
  <2> QED
    BY <1>2, <2>1
<1> HIDE DEF L, N
<1>6. \A i \in 1..N : i \in 1..L \/ i \in (L + 1)..N
  BY <1>4
<1>7. 1..L \subseteq 1..N
  BY <1>4
<1>8. \A k \in Kinds : Of(k)' = Of(k)
  BY <1>2, <1>3, <1>5, <1>6, <1>7 DEF Of, Kinds
<1>9. Served' = Served
  BY <1>2, <1>3, <1>5, <1>6, <1>7 DEF Served
<1>10. Experts' = Experts
  <2>1. Of("linear")' = Of("linear") /\ Of("linear") \subseteq 1..L
    BY <1>3, <1>8 DEF Kinds, Of
  <2> QED
    BY <1>2, <2>1
<1>11. TotalBytes' = TotalBytes
  <2> DEFINE old == Costs(history)
             new == Costs(history')
  <2>1. old \in Seq(Nat) /\ Len(old) = L /\ new \in Seq(Nat) /\ Len(new) = N
    BY <1>1, <1>2, CostsType DEF L
  <2>2. \A i \in 1..L : new[i] = old[i]
    BY <1>2, <1>3, <1>7 DEF Costs
  <2>3. \A i \in (L + 1)..N : new[i] = 0
    BY <1>3, <1>4, <1>5 DEF Costs, Cost
  <2>4. TotalBytes = SumOf(old) /\ TotalBytes' = SumOf(new)
    BY DEF TotalBytes, Costs
  <2> HIDE DEF old, new
  <2>5. /\ SumOf(old) \in Nat
        /\ SumOf(new) = SumOf(old) + 0
    <3>1. \A i \in (L + 1)..N : new[i] = IF i = L + 1 THEN 0 ELSE 0
      BY <2>3
    <3> QED
      BY <1>4, <2>1, <2>2, <3>1, SumExtends
  <2> QED
    BY <2>4, <2>5
<1>12. touched' = {history'[i].tensor : i \in Served'}
  <2>1. Served \subseteq 1..L
    BY <1>3 DEF Served
  <2> QED
    BY <1>1, <1>2, <1>9, <2>1, ZenonT(30) DEF AccountsServed
<1> QED
  BY <1>1, <1>8, <1>10, <1>11, <1>12 DEF AccountsServed

\* How the active trace t follows what is added to the history: it has entries
\* for none of it, or for all of it as long as there is room.
Follows(t, more) ==
    LET old  == traces[tracing][t]
        room == TraceCapacity[tracing][t] - Len(old)
    IN  \/ /\ \A m \in 1..Len(more) : ~Notes(t, more[m])
           /\ traces'[tracing][t] = old
        \/ /\ \A m \in 1..Len(more) : Notes(t, more[m])
           /\ \E extra \in Seq(Entries) :
                /\ Len(extra) = IF Len(more) <= room THEN Len(more) ELSE room
                /\ \A m \in 1..Len(extra) : extra[m] = Entry(t, more[m])
                /\ traces'[tracing][t] = old \o extra

\* A trace that follows the history stays true to it.
LEMMA ActiveHolds ==
    ASSUME ServiceInv, NEW more \in Seq(Recorded), history' = history \o more,
           NEW t \in TraceKinds, Follows(t, more),
           NEW from \in Nat \ {0}, from <= Len(history) + 1,
           Holds(traces[tracing][t], TraceCapacity[tracing][t], t, history, from)
    PROVE  Holds(traces'[tracing][t], TraceCapacity[tracing][t], t, history', from)
<1> DEFINE old == traces[tracing][t]
           capacity == TraceCapacity[tracing][t]
<1>1. /\ history \in Seq(Recorded) /\ old \in Seq(Entries)
      /\ capacity \in Nat
  BY ProviderAssumption DEF ServiceInv, PInv, TypeOK, TracesTyped, TraceSets, TraceKinds
<1>2. Holds(old, capacity, t, history, from)
  OBVIOUS
<1>3. \/ /\ \A m \in 1..Len(more) : ~Notes(t, more[m])
         /\ traces'[tracing][t] = old
      \/ /\ \A m \in 1..Len(more) : Notes(t, more[m])
         /\ \E extra \in Seq(Entries) :
              /\ Len(extra) = IF Len(more) <= capacity - Len(old) THEN Len(more)
                              ELSE capacity - Len(old)
              /\ \A m \in 1..Len(extra) : extra[m] = Entry(t, more[m])
              /\ traces'[tracing][t] = old \o extra
  BY Zenon DEF Follows
<1> HIDE DEF old, capacity
<1>4. CASE /\ \A m \in 1..Len(more) : ~Notes(t, more[m])
           /\ traces'[tracing][t] = old
  <2>1. Holds(old, capacity, t, history \o more, from)
    BY <1>1, <1>2, <1>4, HoldsStill
  <2> QED
    BY <1>4, <2>1 DEF capacity
<1>5. CASE /\ \A m \in 1..Len(more) : Notes(t, more[m])
           /\ \E extra \in Seq(Entries) :
                /\ Len(extra) = IF Len(more) <= capacity - Len(old) THEN Len(more)
                                ELSE capacity - Len(old)
                /\ \A m \in 1..Len(extra) : extra[m] = Entry(t, more[m])
                /\ traces'[tracing][t] = old \o extra
  <2>1. PICK extra \in Seq(Entries) :
              /\ Len(extra) = IF Len(more) <= capacity - Len(old) THEN Len(more)
                              ELSE capacity - Len(old)
              /\ \A m \in 1..Len(extra) : extra[m] = Entry(t, more[m])
              /\ traces'[tracing][t] = old \o extra
    BY <1>5
  <2>2. Holds(old \o extra, capacity, t, history \o more, from)
    BY <1>1, <1>2, <1>5, <2>1, HoldsMore
  <2> QED
    BY <2>1, <2>2 DEF capacity
<1> QED
  BY <1>3, <1>4, <1>5

\* A step that adds to the history, and lets the active traces follow it.
LEMMA TracesFollow ==
    ASSUME ServiceInv, NEW more \in Seq(Recorded), history' = history \o more,
           UNCHANGED <<tracing, start>>,
           \A x \in TraceSets : x # tracing => traces'[x] = traces[x],
           \A t \in TraceKinds : Follows(t, more)
    PROVE  /\ history' \in Seq(Recorded) /\ start' \in 0..Len(history')
           /\ tracing' = "fixed" => traces'["extended"] = NoTrace
           /\ TracesTruthful'
<1>1. /\ history \in Seq(Recorded) /\ start \in 0..Len(history)
      /\ tracing \in TraceSets
      /\ tracing = "fixed" => traces["extended"] = NoTrace
      /\ TracesTruthful
  BY DEF ServiceInv, PInv, TypeOK, TraceSets
<1>2. /\ Len(history) \in Nat /\ Len(more) \in Nat /\ history' \in Seq(Recorded)
      /\ Len(history') = Len(history) + Len(more)
      /\ \A i \in 1..Len(history) : history'[i] = history[i]
  BY <1>1, Lengthened
<1>3. start' \in 0..Len(history')
  BY <1>1, <1>2
<1>4. tracing' = "fixed" => traces'["extended"] = NoTrace
  BY <1>1 DEF TraceSets
<1>5. ASSUME NEW t \in TraceKinds, tracing = "fixed"
      PROVE  Holds(traces'["fixed"][t], TraceCapacity["fixed"][t], t, history', 1)
  <2>1. Holds(traces[tracing][t], TraceCapacity[tracing][t], t, history, 1)
    BY <1>1, <1>5 DEF TracesTruthful, TraceKinds
  <2>2. 1 \in Nat \ {0} /\ 1 <= Len(history) + 1
    BY <1>2
  <2>3. Holds(traces'[tracing][t], TraceCapacity[tracing][t], t, history', 1)
    BY <2>1, <2>2, ActiveHolds
  <2> QED
    BY <1>5, <2>3
<1>6. ASSUME NEW t \in TraceKinds, tracing = "extended"
      PROVE  /\ Holds(traces'["fixed"][t], TraceCapacity["fixed"][t], t,
                      SubSeq(history', 1, start'), 1)
             /\ Holds(traces'["extended"][t], TraceCapacity["extended"][t], t,
                      history', start' + 1)
  <2>1. /\ Holds(traces["fixed"][t], TraceCapacity["fixed"][t], t,
                 SubSeq(history, 1, start), 1)
        /\ Holds(traces["extended"][t], TraceCapacity["extended"][t], t, history, start + 1)
    BY <1>1, <1>6 DEF TracesTruthful, TraceKinds
  <2>2. SubSeq(history', 1, start') = SubSeq(history, 1, start)
    <3>1. \A i \in 1..start : history'[i] = history[i]
      BY <1>1, <1>2
    <3>2. SubSeq(history', 1, start) = [i \in 1..start |-> history'[i]]
      BY <1>1, <1>2
    <3>3. SubSeq(history, 1, start) = [i \in 1..start |-> history[i]]
      BY <1>1, <1>2
    <3> QED
      BY <3>1, <3>2, <3>3
  <2>3. traces'["fixed"] = traces["fixed"]
    BY <1>6 DEF TraceSets
  <2>4. start + 1 \in Nat \ {0} /\ start + 1 <= Len(history) + 1
    BY <1>1, <1>2
  <2>5. Holds(traces[tracing][t], TraceCapacity[tracing][t], t, history, start + 1)
    BY <1>6, <2>1
  <2>6. Holds(traces'[tracing][t], TraceCapacity[tracing][t], t, history', start + 1)
    BY <2>4, <2>5, ActiveHolds
  <2> QED
    BY <1>6, <2>1, <2>2, <2>3, <2>6
<1>7. TracesTruthful'
  BY <1>1, <1>5, <1>6 DEF TracesTruthful, TraceKinds, TraceSets
<1> QED
  BY <1>2, <1>3, <1>4, <1>7

\* Noting one entry is how a trace follows one event.
LEMMA NoteFollows ==
    ASSUME ServiceInv, NEW t \in TraceKinds, NEW e \in Recorded,
           Entry(t, e) \in Entries, Note(t, Entry(t, e)), Notes(t, e),
           \A u \in TraceKinds \ {t} : ~Notes(u, e)
    PROVE  /\ \A x \in TraceSets : x # tracing => traces'[x] = traces[x]
           /\ \A u \in TraceKinds : Follows(u, <<e>>)
<1> DEFINE old == traces[tracing][t]
           capacity == TraceCapacity[tracing][t]
           new == Noted(old, Entry(t, e), capacity)
<1>1. /\ tracing \in TraceSets /\ traces \in [TraceSets -> [TraceKinds -> Seq(Entries)]]
      /\ \A u \in TraceKinds : Len(traces[tracing][u]) <= TraceCapacity[tracing][u]
  BY DEF ServiceInv, PInv, TypeOK, TraceSets, TraceKinds, TracesTyped
<1>2. /\ old \in Seq(Entries) /\ Len(old) \in Nat /\ capacity \in Nat
      /\ Len(old) <= capacity
  <2>1. tracing \in TraceSets /\ t \in TraceKinds
    BY <1>1
  <2>2. capacity \in Nat
    BY <2>1, ProviderAssumption DEF TraceSets, TraceKinds
  <2>3. traces[tracing] \in [TraceKinds -> Seq(Entries)]
    BY <1>1
  <2>4. old \in Seq(Entries)
    BY <2>3
  <2>5. Len(old) <= capacity
    BY <1>1
  <2> QED
    BY <2>2, <2>4, <2>5, LenProperties
<1>3. traces' = [traces EXCEPT ![tracing][t] = new]
  BY <1>1 DEF Note
<1>4. Len(<<e>>) = 1 /\ <<e>>[1] = e /\ \A m \in 1..Len(<<e>>) : <<e>>[m] = e
  OBVIOUS
<1> HIDE DEF new
<1>5. /\ \A x \in TraceSets : x # tracing => traces'[x] = traces[x]
      /\ traces'[tracing][t] = new
      /\ \A u \in TraceKinds : u # t => traces'[tracing][u] = traces[tracing][u]
  BY <1>1, <1>3
<1>6. ASSUME NEW u \in TraceKinds, u # t PROVE Follows(u, <<e>>)
  <2>1. \A m \in 1..Len(<<e>>) : ~Notes(u, <<e>>[m])
    BY <1>4, <1>6
  <2> QED
    BY <1>5, <1>6, <2>1 DEF Follows
<1>7. Follows(t, <<e>>)
  <2>1. \A m \in 1..Len(<<e>>) : Notes(t, <<e>>[m])
    BY <1>4
  <2>2. \E extra \in Seq(Entries) :
          /\ Len(extra) = IF 1 <= capacity - Len(old) THEN 1 ELSE capacity - Len(old)
          /\ \A m \in 1..Len(extra) : extra[m] = Entry(t, e)
          /\ new = old \o extra
    <3>1. CASE Len(old) < capacity
      <4> DEFINE extra == <<Entry(t, e)>>
      <4>1. extra \in Seq(Entries) /\ Len(extra) = 1 /\ \A m \in 1..1 : extra[m] = Entry(t, e)
        OBVIOUS
      <4>2. new = Append(old, Entry(t, e))
        BY <3>1 DEF new, Noted
      <4>3. Append(old, Entry(t, e)) = old \o extra
        BY <1>2, SMTT(30)
      <4>4. 1 <= capacity - Len(old)
        BY <1>2, <3>1
      <4> HIDE DEF extra
      <4> QED
        BY <4>1, <4>2, <4>3, <4>4
    <3>2. CASE ~(Len(old) < capacity)
      <4>1. << >> \in Seq(Entries) /\ Len(<< >>) = 0 /\ old \o << >> = old
        BY <1>2, ConcatEmptySeq, EmptySeq
      <4>2. new = old
        BY <3>2 DEF new, Noted
      <4>3. capacity - Len(old) = 0
        BY <1>2, <3>2
      <4> DEFINE none == << >>
      <4> HIDE DEF old, capacity
      <4>4. /\ none \in Seq(Entries)
            /\ Len(none) = IF 1 <= capacity - Len(old) THEN 1 ELSE capacity - Len(old)
            /\ \A m \in 1..Len(none) : none[m] = Entry(t, e)
            /\ new = old \o none
        BY <4>1, <4>2, <4>3
      <4> HIDE DEF none
      <4> QED
        BY <4>4
    <3> QED
      BY <3>1, <3>2
  <2>3. \E extra \in Seq(Entries) :
          /\ Len(extra) = IF Len(<<e>>) <= capacity - Len(old) THEN Len(<<e>>)
                          ELSE capacity - Len(old)
          /\ \A m \in 1..Len(extra) : extra[m] = Entry(t, <<e>>[m])
          /\ traces'[tracing][t] = old \o extra
    <3>1. PICK extra \in Seq(Entries) :
            /\ Len(extra) = IF 1 <= capacity - Len(old) THEN 1 ELSE capacity - Len(old)
            /\ \A m \in 1..Len(extra) : extra[m] = Entry(t, e)
            /\ new = old \o extra
      BY <2>2
    <3>2. \A m \in 1..Len(extra) : m \in 1..Len(<<e>>)
      BY <1>2, <1>4, <3>1
    <3>3. \A m \in 1..Len(extra) : extra[m] = Entry(t, <<e>>[m])
      BY <1>4, <3>1, <3>2
    <3> QED
      BY <1>4, <1>5, <3>1, <3>3
  <2> QED
    BY <2>1, <2>3, Zenon DEF Follows
<1> QED
  BY <1>5, <1>6, <1>7

\* A served request leaves the service as the invariant says.
LEMMA ServedStep ==
    ASSUME ServiceInv, PInv', NEW kinds, NEW e \in Recorded,
           e.kind \in Kinds, e.tensor \in Semantic,
           kinds = IF e.expert = NoExpert THEN {e.kind} ELSE {"linear", "expert"},
           e.expert # NoExpert => e.kind = "linear",
           Charge(kinds, e.kind, e.tensor),
           history' = Append(history, e), UNCHANGED <<tracing, start>>,
           \/ UNCHANGED traces /\ \A t \in TraceKinds : ~Notes(t, e)
           \/ \E t \in TraceKinds :
                /\ Entry(t, e) \in Entries /\ Note(t, Entry(t, e)) /\ Notes(t, e)
                /\ \A u \in TraceKinds \ {t} : ~Notes(u, e)
    PROVE  ServiceInv'
<1>1. history' = history \o <<e>> /\ <<e>> \in Seq(Recorded)
  BY AppendIsConcat DEF ServiceInv
<1>2. AccountsServed'
  BY <1>1, RequestAccounts
<1>3. /\ \A x \in TraceSets : x # tracing => traces'[x] = traces[x]
      /\ \A t \in TraceKinds : Follows(t, <<e>>)
  <2>1. CASE UNCHANGED traces /\ \A t \in TraceKinds : ~Notes(t, e)
    <3>1. \A m \in 1..Len(<<e>>) : <<e>>[m] = e
      OBVIOUS
    <3> QED
      BY <2>1, <3>1 DEF Follows
  <2>2. CASE \E t \in TraceKinds :
               /\ Entry(t, e) \in Entries /\ Note(t, Entry(t, e)) /\ Notes(t, e)
               /\ \A u \in TraceKinds \ {t} : ~Notes(u, e)
    BY <2>2, NoteFollows
  <2> QED
    BY <2>1, <2>2
<1>4. /\ history' \in Seq(Recorded) /\ start' \in 0..Len(history')
      /\ tracing' = "fixed" => traces'["extended"] = NoTrace
      /\ TracesTruthful'
  BY <1>1, <1>3, TracesFollow
<1> QED
  BY <1>2, <1>4 DEF ServiceInv

LEMMA RequestService ==
    ASSUME ServiceInv, PInv', NEW s \in Semantic,
           \/ \E part \in s.parts, e \in s.experts \cup {NoExpert} : Linear(s, part, e)
           \/ Row(s) \/ Vector(s) \/ PleRow(s)
    PROVE  ServiceInv'
<1> DEFINE Rec(kind, e, part) == [kind |-> kind, tensor |-> s, expert |-> e, part |-> part]
<1>1. ASSUME NEW part \in s.parts, NEW e \in s.experts \cup {NoExpert}, Linear(s, part, e)
      PROVE  ServiceInv'
  <2> DEFINE r == Rec("linear", e, part)
             kinds == IF e = NoExpert THEN {"linear"} ELSE {"linear", "expert"}
  <2>1. r \in Recorded /\ r.kind = "linear" /\ r.tensor = s /\ r.expert = e /\ r.part = part
    <3>1. /\ e \in (UNION {x.experts : x \in Semantic}) \cup {NoExpert}
          /\ part \in (UNION {x.parts : x \in Semantic}) \cup {"whole"}
      BY <1>1
    <3> QED
      BY <3>1 DEF Recorded, Kinds
  <2>2. /\ Charge(kinds, "linear", s) /\ history' = Append(history, r)
        /\ UNCHANGED <<tracing, start>>
    BY <1>1 DEF Linear, Serve
  <2>3. IF e # NoExpert /\ part = "gate" THEN Note("expert", <<s.name, e>>)
                                         ELSE UNCHANGED traces
    BY <1>1 DEF Linear
  <2>4. e # NoExpert => e \in s.experts
    OBVIOUS
  <2> HIDE DEF r
  <2>5. /\ ~Notes("route", r) /\ ~Notes("ple", r)
        /\ Notes("expert", r) <=> e # NoExpert /\ part = "gate"
        /\ Entry("expert", r) = <<s.name, e>>
    BY <2>1 DEF Notes, Entry
  <2>6. \/ UNCHANGED traces /\ \A t \in TraceKinds : ~Notes(t, r)
        \/ \E t \in TraceKinds :
             /\ Entry(t, r) \in Entries /\ Note(t, Entry(t, r)) /\ Notes(t, r)
             /\ \A u \in TraceKinds \ {t} : ~Notes(u, r)
    <3>1. CASE e # NoExpert /\ part = "gate"
      <4>1. <<s.name, e>> \in Entries
        BY <2>4, <3>1 DEF Entries, Names
      <4> QED
        BY <2>3, <2>5, <3>1, <4>1 DEF TraceKinds
    <3>2. CASE ~(e # NoExpert /\ part = "gate")
      BY <2>3, <2>5, <3>2 DEF TraceKinds
    <3> QED
      BY <3>1, <3>2
  <2>7. /\ kinds = IF r.expert = NoExpert THEN {r.kind} ELSE {"linear", "expert"}
        /\ r.kind \in Kinds /\ r.tensor \in Semantic /\ Charge(kinds, r.kind, r.tensor)
        /\ r.expert # NoExpert => r.kind = "linear"
    BY <2>1, <2>2 DEF Kinds
  <2> HIDE DEF kinds
  <2> QED
    BY <2>1, <2>2, <2>6, <2>7, ServedStep
<1>2. ASSUME Row(s) \/ Vector(s) \/ PleRow(s) PROVE ServiceInv'
  <2>1. PICK kind \in {"row", "vector", "ple"} :
          /\ Serve({kind}, kind, s, NoExpert, "whole")
          /\ IF kind = "ple" THEN Note("ple", s.name) ELSE UNCHANGED traces
    BY <1>2 DEF Row, Vector, PleRow
  <2> DEFINE r == Rec(kind, NoExpert, "whole")
  <2>2. r \in Recorded /\ r.kind = kind /\ r.tensor = s /\ r.expert = NoExpert
    BY DEF Recorded, Kinds
  <2>3. /\ Charge({kind}, kind, s) /\ history' = Append(history, r)
        /\ UNCHANGED <<tracing, start>>
    BY <2>1 DEF Serve
  <2> HIDE DEF r
  <2>4. /\ ~Notes("route", r) /\ ~Notes("expert", r)
        /\ Notes("ple", r) <=> kind = "ple"
        /\ Entry("ple", r) = s.name
    BY <2>2 DEF Notes, Entry
  <2>5. \/ UNCHANGED traces /\ \A t \in TraceKinds : ~Notes(t, r)
        \/ \E t \in TraceKinds :
             /\ Entry(t, r) \in Entries /\ Note(t, Entry(t, r)) /\ Notes(t, r)
             /\ \A u \in TraceKinds \ {t} : ~Notes(u, r)
    <3>1. CASE kind = "ple"
      <4>1. s.name \in Entries
        BY DEF Entries, Names
      <4> QED
        BY <2>1, <2>4, <3>1, <4>1 DEF TraceKinds
    <3>2. CASE kind # "ple"
      BY <2>1, <2>4, <3>2 DEF TraceKinds
    <3> QED
      BY <3>1, <3>2
  <2>6. /\ {kind} = IF r.expert = NoExpert THEN {r.kind} ELSE {"linear", "expert"}
        /\ r.kind \in Kinds /\ r.tensor \in Semantic /\ Charge({kind}, r.kind, r.tensor)
        /\ r.expert # NoExpert => r.kind = "linear"
    BY <2>2, <2>3 DEF Kinds
  <2> QED
    BY <2>2, <2>3, <2>5, <2>6, ServedStep
<1> QED
  BY <1>1, <1>2

\* A recorded route does, too, whole or cut off at an invalid id.
LEMMA RouteService ==
    ASSUME ServiceInv, PInv', NEW layer \in Layer,
           NEW ids \in [1..2 -> Routable \cup {NoExpert}], RecordRoute(layer, ids)
    PROVE  ServiceInv'
<1>1. PICK good \in Seq(Routable), more \in Seq(Entries) : RouteAdds(layer, good, more)
  BY RouteFacts DEF ServiceInv
<1> DEFINE events == [i \in 1..Len(good) |-> RouteEvent(layer, good[i])]
           old == traces[tracing]["route"]
           room == TraceCapacity[tracing]["route"] - Len(old)
<1>2. /\ Len(more) = IF Len(good) <= room THEN Len(good) ELSE room
      /\ \A m \in 1..Len(more) : more[m] = <<layer, good[m]>>
      /\ traces' = [traces EXCEPT ![tracing]["route"] = old \o more]
      /\ history' = history \o events
  BY <1>1 DEF RouteAdds
<1>3. /\ Len(good) \in Nat
      /\ \A m \in 1..Len(good) : RouteEvent(layer, good[m]) \in Recorded
  <2>1. Len(good) \in Nat /\ \A m \in 1..Len(good) : good[m] \in Routable
    BY LenProperties, ElementOfSeq
  <2> QED
    BY <2>1 DEF RouteEvent, Recorded
<1>4. /\ events \in Seq(Recorded) /\ Len(events) = Len(good)
      /\ \A m \in 1..Len(good) : events[m] = RouteEvent(layer, good[m])
  <2>1. events \in [1..Len(good) -> Recorded]
    BY <1>3
  <2>2. \A m \in 1..Len(good) : events[m] = RouteEvent(layer, good[m])
    OBVIOUS
  <2> HIDE DEF events
  <2> QED
    BY <1>3, <2>1, <2>2, SegmentSeq
<1> HIDE DEF events
<1>5. ASSUME NEW m \in 1..Len(events)
      PROVE  /\ events[m].kind = "route"
             /\ Notes("route", events[m])
             /\ ~Notes("expert", events[m]) /\ ~Notes("ple", events[m])
             /\ Entry("route", events[m]) = <<layer, good[m]>>
  <2>1. events[m] = RouteEvent(layer, good[m])
    BY <1>4
  <2>2. /\ events[m].kind = "route" /\ events[m].tensor = layer
        /\ events[m].expert = good[m]
    BY <2>1 DEF RouteEvent
  <2> QED
    BY <2>2 DEF Notes, Entry
<1>6. UNCHANGED <<metrics, touched, tracing, start>>
  BY DEF RecordRoute
<1>7. AccountsServed'
  BY <1>2, <1>4, <1>5, <1>6, RouteAccounts
<1>8. /\ tracing \in TraceSets /\ traces \in [TraceSets -> [TraceKinds -> Seq(Entries)]]
      /\ Len(old) <= TraceCapacity[tracing]["route"]
      /\ TraceCapacity[tracing]["route"] \in Nat /\ Len(old) \in Nat
  <2>1. /\ tracing \in TraceSets /\ traces \in [TraceSets -> [TraceKinds -> Seq(Entries)]]
        /\ Len(old) <= TraceCapacity[tracing]["route"]
    BY DEF ServiceInv, PInv, TypeOK, TraceSets, TracesTyped
  <2>2. TraceCapacity[tracing]["route"] \in Nat
    BY <2>1, ProviderAssumption DEF TraceSets
  <2>3. old \in Seq(Entries)
    BY <2>1 DEF TraceKinds
  <2> QED
    BY <2>1, <2>2, <2>3, LenProperties
<1>9. /\ \A x \in TraceSets : x # tracing => traces'[x] = traces[x]
      /\ traces'[tracing]["route"] = old \o more
      /\ \A u \in TraceKinds : u # "route" => traces'[tracing][u] = traces[tracing][u]
  BY <1>2, <1>8 DEF TraceKinds
<1>10. ASSUME NEW t \in TraceKinds PROVE Follows(t, events)
  <2>1. CASE t = "route"
    <3>1. \A m \in 1..Len(events) : Notes(t, events[m])
      BY <1>5, <2>1
    <3>2. \A m \in 1..Len(more) : more[m] = Entry(t, events[m])
      <4>1. \A m \in 1..Len(more) : m \in 1..Len(events)
        BY <1>2, <1>3, <1>4, <1>8
      <4> QED
        BY <1>2, <1>5, <2>1, <4>1
    <3>3. Len(more) = IF Len(events) <= room THEN Len(events) ELSE room
      BY <1>2, <1>4
    <3> HIDE DEF old
    <3>4. /\ \A m \in 1..Len(events) : Notes(t, events[m])
          /\ \E extra \in Seq(Entries) :
               /\ Len(extra) = IF Len(events) <= room THEN Len(events) ELSE room
               /\ \A m \in 1..Len(extra) : extra[m] = Entry(t, events[m])
               /\ traces'[tracing][t] = old \o extra
      BY <1>9, <2>1, <3>1, <3>2, <3>3
    <3> QED
      BY <2>1, <3>4, Zenon DEF Follows, old
  <2>2. CASE t # "route"
    <3>1. \A m \in 1..Len(events) : ~Notes(t, events[m])
      BY <1>5, <2>2 DEF TraceKinds
    <3> QED
      BY <1>9, <2>2, <3>1 DEF Follows
  <2> QED
    BY <2>1, <2>2
<1>11. /\ history' \in Seq(Recorded) /\ start' \in 0..Len(history')
       /\ tracing' = "fixed" => traces'["extended"] = NoTrace
       /\ TracesTruthful'
  BY <1>2, <1>4, <1>6, <1>9, <1>10, TracesFollow
<1> QED
  BY <1>7, <1>11 DEF ServiceInv

\* The calls that are refused, fail or only set a flag, and the one that enables
\* the extended traces, which are empty then.
LEMMA QuietService ==
    ASSUME ServiceInv, PInv',
           \/ \E s \in Semantic, kind \in Kinds : DecodeFail(kind, s)
           \/ Refuse \/ EnableExtendedTrace \/ FailNextRequest \/ UNCHANGED vars
    PROVE  ServiceInv'
<1>1. UNCHANGED <<metrics, touched, traces, history>>
  BY DEF DecodeFail, Refuse, EnableExtendedTrace, FailNextRequest, vars
<1>2. AccountsServed'
  <2>1. /\ Served' = Served /\ TotalBytes' = TotalBytes
        /\ \A k \in Kinds : Of(k)' = Of(k)
        /\ Of("linear")' = Of("linear")
    BY <1>1 DEF Served, TotalBytes, Of
  <2>2. AccountsServed
    BY DEF ServiceInv
  <2> QED
    BY <1>1, <2>1, <2>2 DEF AccountsServed
<1>3. CASE UNCHANGED <<tracing, start>>
  BY <1>1, <1>2, <1>3 DEF ServiceInv, TracesTruthful
<1>4. CASE EnableExtendedTrace
  <2>1. /\ tracing = "fixed" /\ tracing' = "extended" /\ start' = Len(history)
        /\ history \in Seq(Recorded) /\ traces["extended"] = NoTrace /\ TracesTruthful
    BY <1>4 DEF EnableExtendedTrace, ServiceInv
  <2>2. Len(history) \in Nat /\ SubSeq(history, 1, Len(history)) = history
    BY <2>1, LenProperties
  <2>3. ASSUME NEW t \in TraceKinds
        PROVE  /\ Holds(traces'["fixed"][t], TraceCapacity["fixed"][t], t,
                        SubSeq(history', 1, start'), 1)
               /\ Holds(traces'["extended"][t], TraceCapacity["extended"][t], t,
                        history', start' + 1)
    <3>1. Holds(traces["fixed"][t], TraceCapacity["fixed"][t], t, history, 1)
      BY <2>1 DEF TracesTruthful, TraceKinds
    <3>2. Events(t, history, Len(history) + 1) = {}
      BY <2>2 DEF Events
    <3>3. Cardinality({}) = 0 /\ TraceCapacity["extended"][t] \in Nat
      BY FS_EmptySet, ProviderAssumption DEF TraceKinds
    <3>4. traces["extended"][t] = << >> /\ Len(<< >>) = 0
      BY <2>1 DEF NoTrace, TraceKinds
    <3>5. /\ Cardinality(Events(t, history, Len(history) + 1)) = 0
          /\ 0 <= TraceCapacity["extended"][t]
      <4>1. Cardinality(Events(t, history, Len(history) + 1)) = Cardinality({})
        BY <3>2, Zenon
      <4>2. 0 <= TraceCapacity["extended"][t]
        BY <3>3
      <4> QED
        BY <3>3, <4>1, <4>2
    <3>6. Holds(traces["extended"][t], TraceCapacity["extended"][t], t,
                history, Len(history) + 1)
      BY <3>2, <3>4, <3>5 DEF Holds
    <3> QED
      BY <1>1, <2>1, <2>2, <3>1, <3>6
  <2>4. TracesTruthful'
    BY <2>1, <2>3 DEF TracesTruthful, TraceKinds
  <2>5. history' \in Seq(Recorded) /\ start' \in 0..Len(history')
    BY <1>1, <2>1, <2>2
  <2> QED
    BY <1>2, <2>1, <2>4, <2>5 DEF ServiceInv
<1> QED
  BY <1>3, <1>4 DEF DecodeFail, Refuse, FailNextRequest, vars

LEMMA InitService == Init => ServiceInv
<1> SUFFICES ASSUME Init PROVE ServiceInv
  OBVIOUS
<1>1. /\ PInv
      /\ metrics = [k \in Kinds \cup {"bytes", "expert"} |-> 0]
      /\ touched = {} /\ tracing = "fixed" /\ history = << >> /\ start = 0
      /\ traces = [x \in TraceSets |-> NoTrace]
  BY InitInv DEF Init, TraceSets
<1>2. /\ << >> \in Seq(Recorded) /\ Len(<< >>) = 0 /\ DOMAIN << >> = {}
      /\ Cardinality({}) = 0
  BY FS_EmptySet, EmptySeq
<1>3. Served = {} /\ \A k : Of(k) = {}
  BY <1>1, <1>2 DEF Served, Of
<1>4. TotalBytes = 0
  <2> DEFINE none == [i \in DOMAIN history |-> Cost(history[i])]
             g == [k \in 0..0 |-> 0]
  <2>1. none = << >>
    BY <1>1, <1>2
  <2>2. Len(none) = 0
    BY <1>2, <2>1
  <2>3. Sums(none, 0, g)
    BY DEF Sums
  <2> HIDE DEF none
  <2>4. SumOf(none) = g[Len(none)]
    BY <2>2, <2>3, SumIs
  <2> QED
    BY <2>2, <2>4 DEF TotalBytes, none
<1>5. AccountsServed
  <2>1. {i \in Of("linear") : history[i].expert # NoExpert} = {}
    BY <1>3
  <2>2. Budget \in Nat
    BY ProviderAssumption
  <2>3. metrics.bytes = 0 /\ metrics.expert = 0 /\ \A k \in Kinds : metrics[k] = 0
    BY <1>1
  <2>4. touched = {history[i].tensor : i \in Served}
    BY <1>1, <1>3
  <2>5. \A k \in Kinds : metrics[k] = Cardinality(Of(k))
    BY <1>2, <1>3, <2>3
  <2>6. metrics.bytes <= Budget
    BY <2>2, <2>3
  <2>7. metrics.expert = Cardinality({i \in Of("linear") : history[i].expert # NoExpert})
    BY <1>2, <2>1, <2>3
  <2> QED
    BY <1>4, <2>3, <2>4, <2>5, <2>6, <2>7 DEF AccountsServed
<1>6. ASSUME NEW t \in TraceKinds
      PROVE  Holds(traces["fixed"][t], TraceCapacity["fixed"][t], t, history, 1)
  <2>1. Events(t, history, 1) = {}
    BY <1>1, <1>2 DEF Events
  <2>2. traces["fixed"][t] = << >>
    BY <1>1 DEF NoTrace, TraceKinds, TraceSets
  <2>3. TraceCapacity["fixed"][t] \in Nat
    BY ProviderAssumption DEF TraceKinds
  <2> QED
    BY <1>2, <2>1, <2>2, <2>3 DEF Holds
<1>7. TracesTruthful
  BY <1>1, <1>6 DEF TracesTruthful, TraceKinds
<1>8. traces["extended"] = NoTrace
  BY <1>1 DEF TraceSets
<1> QED
  BY <1>1, <1>2, <1>5, <1>7, <1>8 DEF ServiceInv

LEMMA ServiceHolds == Spec => []ServiceInv
<1>1. ServiceInv /\ [Next]_vars => ServiceInv'
  <2> SUFFICES ASSUME ServiceInv, [Next]_vars PROVE ServiceInv'
    OBVIOUS
  <2>1. PInv'
    BY RequestInv, QuietInv, RouteInv DEF Next, ServiceInv
  <2> QED
    BY <2>1, RequestService, QuietService, RouteService DEF Next
<1> QED
  BY InitService, <1>1, PTL DEF Spec

\* The accounts are those of the requests that were served, for any tensors,
\* payloads and limits: what is refused, fails while it is decoded or does not
\* fit the budget leaves no trace in bytes, counters or touched tensors.
THEOREM AccountsAreServed == Spec => []AccountsServed
<1>1. ServiceInv => AccountsServed
  BY DEF ServiceInv
<1> QED
  BY ServiceHolds, <1>1, PTL

\* Each trace is the beginning of what happened since it was enabled, in order,
\* whatever the capacities and however routes are cut off by invalid ids or by
\* the end of the trace.
THEOREM TracesAreTruthful == Spec => []TracesTruthful
<1>1. ServiceInv => TracesTruthful
  BY DEF ServiceInv
<1> QED
  BY ServiceHolds, <1>1, PTL

-----------------------------------------------------------------------------
(* The order of the experts. *)

\* There are finitely many ids, all of them numbers.
LEMMA IdsFinite ==
    /\ ExpertIds = 0..(ExpertCount - 1) /\ ExpertIds \subseteq Nat /\ IsFiniteSet(ExpertIds)
    /\ TopK \in Nat \ {0} /\ ExpertCount \in Nat /\ TopK <= ExpertCount
<1>1. ExpertCount \in Nat /\ TopK \in 1..ExpertCount
  BY MoeAssumption
<1>2. 0 \in Int /\ ExpertCount - 1 \in Int
  BY <1>1
<1>3. IsFiniteSet(0..(ExpertCount - 1))
  BY <1>2, FS_Interval
<1> QED
  BY <1>1, <1>3 DEF ExpertIds

\* Better is a strict total order of the ids.
LEMMA BetterOrder ==
    ASSUME NEW p \in [ExpertIds -> Nat],
           NEW a \in ExpertIds, NEW b \in ExpertIds, NEW c \in ExpertIds
    PROVE  /\ ~Better(p, a, a)
           /\ Better(p, a, b) => ~Better(p, b, a)
           /\ a # b => Better(p, a, b) \/ Better(p, b, a)
           /\ Better(p, a, b) /\ Better(p, b, c) => Better(p, a, c)
<1>1. {a, b, c} \subseteq Int /\ {p[a], p[b], p[c]} \subseteq Nat
  BY MoeAssumption DEF ExpertIds
<1> QED
  BY <1>1 DEF Better

\* How many of a set are better than an id.
BetterIn(p, kept, e) == {d \in kept : Better(p, d, e)}
RankIn(p, kept, e) == Cardinality(BetterIn(p, kept, e))

\* The better of two has the lower rank, and no rank is that of the size.
LEMMA RankOrder ==
    ASSUME NEW p \in [ExpertIds -> Nat], NEW kept \in SUBSET ExpertIds,
           IsFiniteSet(kept)
    PROVE  /\ \A e \in kept : RankIn(p, kept, e) \in 0..(Cardinality(kept) - 1)
           /\ \A d, e \in kept : Better(p, d, e) <=> RankIn(p, kept, d) < RankIn(p, kept, e)
<1>1. ASSUME NEW e \in kept
      PROVE  /\ IsFiniteSet(BetterIn(p, kept, e))
             /\ RankIn(p, kept, e) \in Nat
             /\ RankIn(p, kept, e) < Cardinality(kept)
  <2>1. BetterIn(p, kept, e) \in SUBSET kept /\ e \notin BetterIn(p, kept, e)
    BY BetterOrder DEF BetterIn
  <2>2. BetterIn(p, kept, e) # kept
    BY <1>1, <2>1
  <2> QED
    BY <2>1, <2>2, FS_Subset, FS_CardinalityType DEF RankIn
<1>2. ASSUME NEW d \in kept, NEW e \in kept, Better(p, d, e)
      PROVE  RankIn(p, kept, d) < RankIn(p, kept, e)
  <2>1. BetterIn(p, kept, d) \subseteq BetterIn(p, kept, e)
    BY <1>2, BetterOrder DEF BetterIn
  <2>2. d \in BetterIn(p, kept, e) /\ d \notin BetterIn(p, kept, d)
    BY <1>2, BetterOrder DEF BetterIn
  <2>3. IsFiniteSet(BetterIn(p, kept, e))
    BY <1>1
  <2>4. BetterIn(p, kept, d) \in SUBSET BetterIn(p, kept, e)
        /\ BetterIn(p, kept, d) # BetterIn(p, kept, e)
    BY <2>1, <2>2
  <2>5. Cardinality(BetterIn(p, kept, d)) <= Cardinality(BetterIn(p, kept, e))
        /\ Cardinality(BetterIn(p, kept, d)) # Cardinality(BetterIn(p, kept, e))
    BY <2>3, <2>4, FS_Subset
  <2>6. RankIn(p, kept, d) \in Nat /\ RankIn(p, kept, e) \in Nat
    BY <1>1
  <2> QED
    BY <2>5, <2>6 DEF RankIn
<1>3. \A e \in kept : RankIn(p, kept, e) \in 0..(Cardinality(kept) - 1)
  BY <1>1, FS_CardinalityType
<1>4. ASSUME NEW d \in kept, NEW e \in kept, RankIn(p, kept, d) < RankIn(p, kept, e)
      PROVE  Better(p, d, e)
  <2>1. RankIn(p, kept, d) \in Nat /\ RankIn(p, kept, e) \in Nat
    BY <1>1
  <2>2. d # e /\ ~Better(p, e, d)
    BY <1>2, <1>4, <2>1
  <2> QED
    BY <2>2, BetterOrder
<1> QED
  BY <1>2, <1>3, <1>4

\* Each rank below the size is that of one member.
LEMMA RankTaken ==
    ASSUME NEW p \in [ExpertIds -> Nat], NEW kept \in SUBSET ExpertIds,
           IsFiniteSet(kept), NEW r \in 0..(Cardinality(kept) - 1)
    PROVE  \E e \in kept : RankIn(p, kept, e) = r
<1> DEFINE k == Cardinality(kept)
           f == [e \in kept |-> RankIn(p, kept, e)]
<1>1. k \in Nat
  BY FS_CardinalityType
<1>2. /\ \A e \in kept : RankIn(p, kept, e) \in 0..(k - 1)
      /\ \A d, e \in kept : Better(p, d, e) <=> RankIn(p, kept, d) < RankIn(p, kept, e)
  BY RankOrder
<1>3. ASSUME NEW d \in kept, NEW e \in kept, f[d] = f[e] PROVE d = e
  <2>1. ~Better(p, d, e) /\ ~Better(p, e, d)
    BY <1>2, <1>3
  <2> QED
    BY <2>1, BetterOrder
<1>4. f \in Injection(kept, 0..(k - 1))
  <2>1. f \in [kept -> 0..(k - 1)]
    BY <1>2
  <2> HIDE DEF f
  <2> QED
    BY <1>3, <2>1 DEF Injection, IsInjective
<1>5. IsFiniteSet(0..(k - 1)) /\ Cardinality(0..(k - 1)) = k
  BY <1>1, FS_Interval
<1>6. f \in Surjection(kept, 0..(k - 1))
  <2> HIDE DEF f
  <2> QED
    BY <1>4, <1>5, FS_Injection
<1>7. \E e \in kept : f[e] = r
  <2> HIDE DEF f
  <2> QED
    BY <1>6 DEF Surjection
<1> QED
  BY <1>7
-----------------------------------------------------------------------------
(* The scan for the best k. *)

\* An injective function on 1..n has n values.
LEMMA ValuesCount ==
    ASSUME NEW n \in Nat, NEW S, NEW f \in [1..n -> S],
           \A i, j \in 1..n : f[i] = f[j] => i = j
    PROVE  IsFiniteSet(Range(f)) /\ Cardinality(Range(f)) = n
<1>1. f \in Bijection(1..n, Range(f))
  <2>1. f \in [1..n -> Range(f)] /\ IsInjective(f)
    BY DEF Range, IsInjective
  <2>2. \A x \in Range(f) : \E i \in 1..n : f[i] = x
    BY DEF Range
  <2> QED
    BY <2>1, <2>2 DEF Bijection, Injection, Surjection
<1>2. ExistsBijection(1..n, Range(f))
  BY <1>1 DEF ExistsBijection
<1> QED
  BY <1>2, FS_CountingElements, FS_NatBijection

\* What is evicted is there, and nothing else is worse.
LEMMA WorstIs ==
    ASSUME NEW p \in [ExpertIds -> Nat], NEW ids \in [1..TopK -> ExpertIds],
           \A i, j \in 1..TopK : ids[i] = ids[j] => i = j
    PROVE  /\ Worst(p, ids) \in 1..TopK
           /\ \A j \in 1..TopK \ {Worst(p, ids)} :
                \/ p[ids[Worst(p, ids)]] < p[ids[j]]
                \/ p[ids[Worst(p, ids)]] = p[ids[j]] /\ ids[Worst(p, ids)] < ids[j]
<1> DEFINE low == {p[ids[i]] : i \in 1..TopK}
<1>1. low \in SUBSET Nat /\ low # {}
  <2>1. 1 \in 1..TopK
    BY MoeAssumption
  <2> QED
    BY <2>1
<1>2. PICK v \in low : \A x \in low : v <= x
  BY <1>1, Least
<1> DEFINE same == {ids[i] : i \in {j \in 1..TopK : p[ids[j]] = v}}
<1>3. same \in SUBSET Nat /\ same # {}
  <2>1. PICK i \in 1..TopK : p[ids[i]] = v
    BY <1>2
  <2>2. ids[i] \in same
    BY <2>1
  <2>3. \A j \in 1..TopK : ids[j] \in Nat
    BY DEF ExpertIds
  <2>4. same \in SUBSET Nat
    BY <2>3
  <2> QED
    BY <2>2, <2>4
<1>4. PICK e \in same : \A x \in same : e <= x
  BY <1>3, Least
<1>5. PICK w \in 1..TopK : p[ids[w]] = v /\ ids[w] = e
  BY <1>4
<1>6. \A j \in 1..TopK \ {w} : \/ p[ids[w]] < p[ids[j]]
                               \/ p[ids[w]] = p[ids[j]] /\ ids[w] < ids[j]
  <2> SUFFICES ASSUME NEW j \in 1..TopK \ {w}, ~(p[ids[w]] < p[ids[j]])
               PROVE  p[ids[w]] = p[ids[j]] /\ ids[w] < ids[j]
    OBVIOUS
  <2>1. p[ids[j]] \in low /\ p[ids[j]] \in Nat /\ v \in Nat
    BY <1>1, <1>2
  <2>2. p[ids[j]] = v
    <3>1. v <= p[ids[j]]
      BY <1>2, <2>1
    <3> QED
      BY <1>5, <2>1, <3>1
  <2>3. ids[j] \in same /\ ids[j] # e
    BY <1>5, <2>2
  <2>4. {ids[j], e} \subseteq Int
    BY <1>3, <1>4, <2>3
  <2>5. e <= ids[j]
    BY <1>4, <2>3
  <2> QED
    BY <1>5, <2>2, <2>3, <2>4, <2>5
<1>7. DOMAIN ids = 1..TopK
  OBVIOUS
<1>8. Worst(p, ids) \in DOMAIN ids
      /\ \A j \in DOMAIN ids \ {Worst(p, ids)} :
           \/ p[ids[Worst(p, ids)]] < p[ids[j]]
           \/ p[ids[Worst(p, ids)]] = p[ids[j]] /\ ids[Worst(p, ids)] < ids[j]
  <2> DEFINE Fits(i) == \A j \in DOMAIN ids \ {i} :
                          p[ids[i]] < p[ids[j]] \/ (p[ids[i]] = p[ids[j]] /\ ids[i] < ids[j])
  <2>1. \E i \in DOMAIN ids : Fits(i)
    BY <1>6, <1>7
  <2>2. Worst(p, ids) = CHOOSE i \in DOMAIN ids : Fits(i)
    BY DEF Worst
  <2> HIDE DEF Fits
  <2>3. Worst(p, ids) \in DOMAIN ids /\ Fits(Worst(p, ids))
    BY <2>1, <2>2
  <2> QED
    BY <2>3 DEF Fits
<1> QED
  BY <1>7, <1>8

\* One step of the scan, and the scan up to m ids.
Replaced(p, ids, e) ==
    LET w == Worst(p, ids)
    IN  IF p[e] > p[ids[w]] THEN [ids EXCEPT ![w] = e] ELSE ids

Scan(p, m, s) ==
    s = [n \in TopK..m |-> IF n = TopK THEN [i \in 1..TopK |-> i - 1]
                           ELSE Replaced(p, s[n - 1], n - 1)]

\* An id came while fewer than k ids had reached its value.
Entered(p, e) == Cardinality({d \in ExpertIds : d < e /\ p[d] >= p[e]}) < TopK

\* What is kept after n ids.
Kept(p, n, ids) ==
    /\ ids \in [1..TopK -> 0..(n - 1)]
    /\ \A i, j \in 1..TopK : ids[i] = ids[j] => i = j
    /\ \A i \in 1..TopK : Entered(p, ids[i])
    /\ \A e \in 0..(n - 1) \ Range(ids), i \in 1..TopK :
         /\ p[e] <= p[ids[i]]
         /\ Entered(p, e) /\ p[e] = p[ids[i]] => e < ids[i]

\* The first k ids are kept.
LEMMA KeptFirst ==
    ASSUME NEW p \in [ExpertIds -> Nat]
    PROVE  Kept(p, TopK, [i \in 1..TopK |-> i - 1])
<1> DEFINE first == [i \in 1..TopK |-> i - 1]
<1>1. TopK \in Nat /\ TopK <= ExpertCount /\ ExpertCount \in Nat
  BY MoeAssumption
<1>2. first \in [1..TopK -> 0..(TopK - 1)]
  BY <1>1
<1>3. 0..(TopK - 1) = Range(first)
  <2>1. ASSUME NEW e \in 0..(TopK - 1) PROVE e \in Range(first)
    <3>1. e + 1 \in 1..TopK /\ first[e + 1] = e
      BY <1>1, <2>1
    <3> QED
      BY <3>1 DEF Range
  <2> QED
    BY <1>2, <2>1 DEF Range
<1>4. ASSUME NEW e \in 0..(TopK - 1) PROVE Entered(p, e)
  <2> DEFINE low == {d \in ExpertIds : d < e /\ p[d] >= p[e]}
  <2>1. low \in SUBSET (0..(e - 1))
    BY <1>1, <1>4 DEF ExpertIds
  <2>3. e - 1 \in Int /\ e \in Nat /\ e < TopK
    BY <1>1, <1>4
  <2>4. IsFiniteSet(0..(e - 1)) /\ Cardinality(0..(e - 1)) = IF 0 > e - 1 THEN 0 ELSE e - 1 - 0 + 1
    BY <2>3, FS_Interval
  <2>5. Cardinality(0..(e - 1)) = e
    BY <2>3, <2>4
  <2>2. Cardinality(low) <= e /\ Cardinality(low) \in Nat
    BY <2>1, <2>4, <2>5, FS_Subset, FS_CardinalityType
  <2> QED
    BY <1>1, <2>2, <2>3 DEF Entered
<1>5. \A i \in 1..TopK : first[i] = i - 1 /\ first[i] \in 0..(TopK - 1)
  BY <1>1
<1>6. \A i, j \in 1..TopK : first[i] = first[j] => i = j
  BY <1>5
<1> HIDE DEF first
<1>7. \A i \in 1..TopK : Entered(p, first[i])
  BY <1>4, <1>5
<1>8. 0..(TopK - 1) \ Range(first) = {}
  BY <1>3
<1> QED
  BY <1>2, <1>6, <1>7, <1>8 DEF Kept, first

\* The next id replaces the worst if it is strictly better.
LEMMA KeptNext ==
    ASSUME NEW p \in [ExpertIds -> Nat], NEW n \in TopK..(ExpertCount - 1),
           NEW ids, Kept(p, n, ids)
    PROVE  Kept(p, n + 1, Replaced(p, ids, n))
<1> DEFINE w == Worst(p, ids)
<1>1. /\ TopK \in Nat \ {0} /\ TopK <= n /\ n < ExpertCount /\ ExpertCount \in Nat /\ n \in Nat
      /\ n \in ExpertIds /\ 0..(n - 1) \subseteq ExpertIds
      /\ 0..n = 0..(n - 1) \cup {n} /\ n \notin 0..(n - 1)
  BY MoeAssumption DEF ExpertIds
<1>2. ids \in [1..TopK -> 0..(n - 1)] /\ \A i, j \in 1..TopK : ids[i] = ids[j] => i = j
  BY DEF Kept
<1>3. /\ w \in 1..TopK
      /\ \A j \in 1..TopK \ {w} : \/ p[ids[w]] < p[ids[j]]
                                  \/ p[ids[w]] = p[ids[j]] /\ ids[w] < ids[j]
  <2>1. ids \in [1..TopK -> ExpertIds]
    BY <1>1, <1>2
  <2> QED
    BY <1>2, <2>1, WorstIs
<1> HIDE DEF w
<1>4. \A e \in 0..n : p[e] \in Nat /\ e \in Nat
  BY <1>1
<1>5. ASSUME NEW i \in 1..TopK
      PROVE  ids[i] \in 0..n /\ p[ids[i]] \in Nat /\ p[ids[w]] <= p[ids[i]]
  <2>1. ids[i] \in 0..n /\ ids[w] \in 0..n
    BY <1>1, <1>2, <1>3
  <2>2. p[ids[i]] \in Nat /\ p[ids[w]] \in Nat
    BY <1>4, <2>1
  <2>3. CASE i = w
    BY <2>1, <2>2, <2>3
  <2>4. CASE i # w
    <3>1. p[ids[w]] < p[ids[i]] \/ p[ids[w]] = p[ids[i]]
      BY <1>3, <2>4
    <3> QED
      BY <2>1, <2>2, <3>1
  <2> QED
    BY <2>3, <2>4
<1>6. \A e \in 0..(n - 1) \ Range(ids) : p[e] <= p[ids[w]]
  BY <1>3 DEF Kept
<1>7. IsFiniteSet(Range(ids)) /\ Cardinality(Range(ids)) = TopK /\ Range(ids) \subseteq 0..(n - 1)
  <2>1. IsFiniteSet(Range(ids)) /\ Cardinality(Range(ids)) = TopK
    BY <1>1, <1>2, ValuesCount
  <2> QED
    BY <1>2, <2>1 DEF Range
<1> DEFINE low == {d \in ExpertIds : d < n /\ p[d] >= p[n]}
<1>8. low \in SUBSET (0..(n - 1)) /\ IsFiniteSet(low) /\ Cardinality(low) \in Nat
  <2>1. low \in SUBSET (0..(n - 1))
    BY <1>1 DEF ExpertIds
  <2>2. IsFiniteSet(0..(n - 1))
    BY <1>1, FS_Interval
  <2> QED
    BY <2>1, <2>2, FS_Subset, FS_CardinalityType
<1>9. CASE p[n] > p[ids[w]]
  <2> DEFINE new == [ids EXCEPT ![w] = n]
  <2>1. Replaced(p, ids, n) = new
    BY <1>9 DEF Replaced, w
  <2>2. /\ new[w] = n /\ new \in [1..TopK -> 0..n]
        /\ \A i \in 1..TopK \ {w} : new[i] = ids[i]
    BY <1>1, <1>2, <1>3
  <2> HIDE DEF new
  <2>3. \A i, j \in 1..TopK : new[i] = new[j] => i = j
    BY <1>1, <1>2, <2>2, ZenonT(30)
  <2>4. Range(new) = (Range(ids) \ {ids[w]}) \cup {n}
    BY <1>2, <1>3, <2>2 DEF Range
  <2>5. Entered(p, n)
    <3>1. low \subseteq Range(ids) \ {ids[w]}
      <4> SUFFICES ASSUME NEW d \in low PROVE d \in Range(ids) \ {ids[w]}
        OBVIOUS
      <4>1. d \in 0..(n - 1) /\ p[d] >= p[n]
        BY <1>8
      <4>2. p[d] > p[ids[w]] /\ ~(p[d] <= p[ids[w]])
        BY <1>1, <1>3, <1>4, <1>5, <1>9, <4>1
      <4> QED
        BY <1>6, <4>1, <4>2
    <3>2. ids[w] \in Range(ids)
      BY <1>2, <1>3 DEF Range
    <3>3. /\ IsFiniteSet(Range(ids) \ {ids[w]})
          /\ Cardinality(Range(ids) \ {ids[w]}) = TopK - 1
      BY <1>7, <3>2, FS_RemoveElement
    <3>4. Cardinality(low) <= TopK - 1
      BY <3>1, <3>3, FS_Subset
    <3> QED
      BY <1>1, <1>8, <3>4 DEF Entered
  <2>6. \A i \in 1..TopK : Entered(p, new[i])
    BY <2>2, <2>5 DEF Kept
  <2>7. ASSUME NEW e \in 0..n \ Range(new), NEW i \in 1..TopK
        PROVE  p[e] <= p[new[i]] /\ (Entered(p, e) /\ p[e] = p[new[i]] => e < new[i])
    <3>1. e \in 0..(n - 1)
      BY <1>1, <2>4, <2>7
    <3>2. p[e] <= p[ids[w]]
      <4>1. CASE e = ids[w]
        BY <1>5, <4>1, <1>3
      <4>2. CASE e # ids[w]
        <5>1. e \notin Range(ids)
          BY <2>4, <2>7, <4>2
        <5> QED
          BY <1>6, <3>1, <5>1
      <4> QED
        BY <4>1, <4>2
    <3>3. {p[e], p[ids[w]], p[n], p[ids[i]]} \subseteq Nat /\ {e, n, ids[i], ids[w]} \subseteq Nat
      BY <1>1, <1>3, <1>4, <1>5, <2>7
    <3>4. CASE i = w
      BY <1>9, <2>2, <3>2, <3>3, <3>4
    <3>5. CASE i # w
      <4>1. new[i] = ids[i] /\ p[ids[w]] <= p[ids[i]]
        BY <1>5, <2>2, <2>7, <3>5
      <4>2. p[e] <= p[new[i]]
        BY <3>2, <3>3, <4>1
      <4>3. ASSUME Entered(p, e), p[e] = p[new[i]] PROVE e < new[i]
        <5>1. CASE e = ids[w]
          BY <1>3, <2>7, <3>3, <3>5, <4>1, <4>3, <5>1
        <5>2. CASE e # ids[w]
          <6>1. e \notin Range(ids)
            BY <2>4, <2>7, <5>2
          <6> QED
            BY <2>7, <3>1, <4>1, <4>3, <6>1 DEF Kept
        <5> QED
          BY <5>1, <5>2
      <4> QED
        BY <4>2, <4>3
    <3> QED
      BY <3>4, <3>5
  <2>8. n + 1 - 1 = n
    BY <1>1
  <2> QED
    BY <2>1, <2>2, <2>3, <2>6, <2>7, <2>8 DEF Kept
<1>10. CASE ~(p[n] > p[ids[w]])
  <2>1. Replaced(p, ids, n) = ids
    BY <1>10 DEF Replaced, w
  <2>2. p[n] <= p[ids[w]]
    BY <1>3, <1>4, <1>5, <1>1, <1>10
  <2>3. ~Entered(p, n)
    <3>1. Range(ids) \subseteq low
      <4> SUFFICES ASSUME NEW i \in 1..TopK PROVE ids[i] \in low
        BY <1>2 DEF Range
      <4>1. ids[i] \in 0..(n - 1) /\ p[n] \in Nat
        BY <1>1, <1>2, <1>4
      <4>2. ids[i] < n /\ ids[i] \in ExpertIds
        BY <1>1, <4>1
      <4>3. p[ids[i]] >= p[n]
        BY <1>3, <1>5, <2>2, <4>1
      <4> QED
        BY <4>2, <4>3
    <3>2. TopK <= Cardinality(low)
      BY <1>7, <1>8, <3>1, FS_Subset
    <3> QED
      BY <1>1, <1>8, <3>2 DEF Entered
  <2>4. ASSUME NEW e \in 0..n \ Range(ids), NEW i \in 1..TopK
        PROVE  p[e] <= p[ids[i]] /\ (Entered(p, e) /\ p[e] = p[ids[i]] => e < ids[i])
    <3>1. CASE e = n
      BY <1>3, <1>4, <1>5, <2>2, <2>3, <2>4, <3>1
    <3>2. CASE e # n
      <4>1. e \in 0..(n - 1) \ Range(ids)
        BY <1>1, <2>4, <3>2
      <4> QED
        BY <2>4, <4>1 DEF Kept
    <3> QED
      BY <3>1, <3>2
  <2>5. n + 1 - 1 = n /\ ids \in [1..TopK -> 0..n] /\ \A i \in 1..TopK : Entered(p, ids[i])
    BY <1>1, <1>2 DEF Kept
  <2> QED
    BY <1>2, <2>1, <2>4, <2>5 DEF Kept
<1> QED
  BY <1>9, <1>10

\* There is a scan, as far as there are ids.
LEMMA ScanExists ==
    ASSUME NEW p
    PROVE  \E s : Scan(p, ExpertCount, s)
<1> DEFINE Ends(m) == \E s : Scan(p, m, s)
           apart == {m \in TopK..ExpertCount : ~Ends(m)}
<1>1. TopK \in Nat /\ ExpertCount \in Nat /\ TopK <= ExpertCount
  BY MoeAssumption
<1>2. apart = {}
  <2> SUFFICES ASSUME apart # {} PROVE FALSE
    OBVIOUS
  <2>1. apart \in SUBSET Nat
    BY <1>1
  <2>2. PICK m \in apart : \A j \in apart : m <= j
    BY <2>1, Least
  <2>3. m \in TopK..ExpertCount /\ ~Ends(m)
    BY <2>2
  <2>4. CASE m = TopK
    <3> DEFINE s == [n \in TopK..TopK |-> [i \in 1..TopK |-> i - 1]]
    <3>1. Scan(p, TopK, s)
      BY <1>1 DEF Scan
    <3> QED
      BY <2>3, <2>4, <3>1
  <2>5. CASE m # TopK
    <3>1. m - 1 \in TopK..ExpertCount /\ ~(m <= m - 1) /\ m \in Nat
      BY <1>1, <2>3, <2>5
    <3>2. m - 1 \notin apart
      BY <2>2, <3>1
    <3>3. PICK s : Scan(p, m - 1, s)
      BY <3>1, <3>2
    <3> DEFINE longer == [n \in TopK..m |-> IF n = m THEN Replaced(p, s[m - 1], m - 1) ELSE s[n]]
    <3>4. ASSUME NEW n \in TopK..m
          PROVE  longer[n] = IF n = TopK THEN [i \in 1..TopK |-> i - 1]
                             ELSE Replaced(p, longer[n - 1], n - 1)
      <4>1. CASE n = m
        <5>1. m - 1 \in TopK..m /\ m - 1 # m
          BY <1>1, <3>1
        <5>2. longer[m - 1] = s[m - 1] /\ longer[m] = Replaced(p, s[m - 1], m - 1)
          BY <3>4, <4>1, <5>1
        <5> QED
          BY <2>5, <4>1, <5>2
      <4>2. CASE n # m
        <5>1. n \in TopK..(m - 1)
          BY <1>1, <3>1, <3>4, <4>2
        <5>2. s[n] = IF n = TopK THEN [i \in 1..TopK |-> i - 1] ELSE Replaced(p, s[n - 1], n - 1)
          BY <3>3, <5>1 DEF Scan
        <5>3. longer[n] = s[n]
          BY <3>4, <4>2
        <5>4. n # TopK => longer[n - 1] = s[n - 1]
          BY <1>1, <3>1, <5>1
        <5> QED
          BY <5>2, <5>3, <5>4
      <4> QED
        BY <4>1, <4>2
    <3>5. longer = [n \in TopK..m |-> longer[n]]
      OBVIOUS
    <3> HIDE DEF longer
    <3>6. Scan(p, m, longer)
      BY <3>4, <3>5 DEF Scan
    <3> QED
      BY <2>3, <3>6
  <2> QED
    BY <2>4, <2>5
<1>3. ExpertCount \in TopK..ExpertCount
  BY <1>1
<1> QED
  BY <1>2, <1>3

\* What a scan has kept at its end.
LEMMA ScanKept ==
    ASSUME NEW p \in [ExpertIds -> Nat], NEW s, Scan(p, ExpertCount, s)
    PROVE  Kept(p, ExpertCount, s[ExpertCount])
<1> DEFINE apart == {m \in TopK..ExpertCount : ~Kept(p, m, s[m])}
<1>1. TopK \in Nat /\ ExpertCount \in Nat /\ TopK <= ExpertCount
  BY MoeAssumption
<1>2. \A n \in TopK..ExpertCount :
        s[n] = IF n = TopK THEN [i \in 1..TopK |-> i - 1] ELSE Replaced(p, s[n - 1], n - 1)
  BY DEF Scan
<1>3. apart = {}
  <2> SUFFICES ASSUME apart # {} PROVE FALSE
    OBVIOUS
  <2>1. apart \in SUBSET Nat
    BY <1>1
  <2>2. PICK m \in apart : \A j \in apart : m <= j
    BY <2>1, Least
  <2>3. m \in TopK..ExpertCount /\ ~Kept(p, m, s[m])
    BY <2>2
  <2>4. CASE m = TopK
    <3>1. s[m] = [i \in 1..TopK |-> i - 1]
      BY <1>2, <2>3, <2>4
    <3> QED
      BY <2>3, <2>4, <3>1, KeptFirst
  <2>5. CASE m # TopK
    <3>1. /\ m - 1 \in TopK..ExpertCount /\ ~(m <= m - 1)
          /\ m - 1 \in TopK..(ExpertCount - 1) /\ m - 1 + 1 = m
      BY <1>1, <2>3, <2>5
    <3>2. Kept(p, m - 1, s[m - 1])
      BY <2>2, <3>1
    <3>3. s[m] = Replaced(p, s[m - 1], m - 1)
      BY <1>2, <2>3, <2>5
    <3>4. Kept(p, m - 1 + 1, Replaced(p, s[m - 1], m - 1))
      BY <3>1, <3>2, KeptNext
    <3> QED
      BY <2>3, <3>1, <3>3, <3>4
  <2> QED
    BY <2>4, <2>5
<1>4. ExpertCount \in TopK..ExpertCount
  BY <1>1
<1> QED
  BY <1>3, <1>4

\* The route ranks what the scan has kept.
LEMMA RouteOfScan ==
    ASSUME NEW p \in [ExpertIds -> Nat]
    PROVE  \E ids : /\ Kept(p, ExpertCount, ids)
                    /\ SelectTopK(p) =
                         [rank \in 1..TopK |->
                            CHOOSE e \in Range(ids) : RankIn(p, Range(ids), e) = rank - 1]
<1> DEFINE s == CHOOSE h : Scan(p, ExpertCount, h)
<1>1. Scan(p, ExpertCount, s)
  BY ScanExists
<1>2. SelectTopK(p) =
        [rank \in 1..TopK |->
           CHOOSE e \in Range(s[ExpertCount]) :
             RankIn(p, Range(s[ExpertCount]), e) = rank - 1]
  BY Zenon DEF SelectTopK, Scan, Replaced, RankIn, BetterIn
<1> HIDE DEF s
<1> QED
  BY <1>1, <1>2, ScanKept
-----------------------------------------------------------------------------
(* What is kept is what is documented. *)

\* The k-th largest value is the least value kept.
LEMMA KthIsLeast ==
    ASSUME NEW p \in [ExpertIds -> Probability], NEW ids, Kept(p, ExpertCount, ids)
    PROVE  /\ \E w \in 1..TopK : p[ids[w]] = KthValue(p)
           /\ \A i \in 1..TopK : KthValue(p) <= p[ids[i]]
           /\ KthValue(p) \in Nat
<1> DEFINE w == Worst(p, ids)
           v == p[ids[w]]
           Fits(x) == /\ Cardinality(Above(p, x)) < TopK
                      /\ Cardinality(Reached(p, x)) >= TopK
                      /\ \E e \in ExpertIds : p[e] = x
<1>1. /\ TopK \in Nat /\ Probability \subseteq Nat /\ p \in [ExpertIds -> Nat]
      /\ ExpertIds = 0..(ExpertCount - 1) /\ IsFiniteSet(ExpertIds)
  BY MoeAssumption, IdsFinite
<1>2. ids \in [1..TopK -> ExpertIds] /\ \A i, j \in 1..TopK : ids[i] = ids[j] => i = j
  BY DEF Kept, ExpertIds
<1>3. w \in 1..TopK /\ \A i \in 1..TopK : v <= p[ids[i]]
  <2>1. /\ w \in 1..TopK
        /\ \A j \in 1..TopK \ {w} : v < p[ids[j]] \/ v = p[ids[j]]
    BY <1>1, <1>2, WorstIs, ZenonT(30)
  <2> HIDE DEF w
  <2> SUFFICES ASSUME NEW i \in 1..TopK PROVE v <= p[ids[i]]
    BY <2>1
  <2>2. v \in Nat /\ p[ids[i]] \in Nat
    BY <1>1, <1>2, <2>1
  <2> QED
    BY <2>1, <2>2
<1> HIDE DEF w
<1>4. v \in Nat /\ v \in Probability /\ ids[w] \in ExpertIds
  BY <1>1, <1>2, <1>3
<1>5. IsFiniteSet(Range(ids)) /\ Cardinality(Range(ids)) = TopK /\ Range(ids) \subseteq ExpertIds
      /\ ids[w] \in Range(ids)
  <2>1. IsFiniteSet(Range(ids)) /\ Cardinality(Range(ids)) = TopK
    BY <1>1, <1>2, ValuesCount
  <2> QED
    BY <1>2, <1>3, <2>1 DEF Range
<1>6. ASSUME NEW x PROVE /\ IsFiniteSet(Above(p, x)) /\ Cardinality(Above(p, x)) \in Nat
                         /\ IsFiniteSet(Reached(p, x)) /\ Cardinality(Reached(p, x)) \in Nat
  BY <1>1, FS_Subset, FS_CardinalityType DEF Above, Reached
<1>7. Fits(v)
  <2>1. Above(p, v) \subseteq Range(ids) \ {ids[w]}
    <3> SUFFICES ASSUME NEW e \in ExpertIds, p[e] > v PROVE e \in Range(ids) \ {ids[w]}
      BY DEF Above
    <3>1. p[e] \in Nat /\ ~(p[e] <= v)
      BY <1>1, <1>4
    <3> QED
      BY <1>1, <1>3, <3>1 DEF Kept
  <2>2. Cardinality(Above(p, v)) <= TopK - 1
    <3>1. IsFiniteSet(Range(ids) \ {ids[w]}) /\ Cardinality(Range(ids) \ {ids[w]}) = TopK - 1
      BY <1>5, FS_RemoveElement
    <3> QED
      BY <2>1, <3>1, FS_Subset
  <2>3. Range(ids) \subseteq Reached(p, v)
    <3> SUFFICES ASSUME NEW i \in 1..TopK PROVE ids[i] \in Reached(p, v)
      BY <1>2 DEF Range
    <3>1. ids[i] \in ExpertIds /\ p[ids[i]] \in Nat /\ v <= p[ids[i]]
      BY <1>1, <1>2, <1>3
    <3> QED
      BY <1>4, <3>1 DEF Reached
  <2>4. TopK <= Cardinality(Reached(p, v))
    BY <1>5, <1>6, <2>3, FS_Subset
  <2> QED
    BY <1>1, <1>4, <1>6, <2>2, <2>4
<1>8. ASSUME NEW x \in Probability, NEW y \in Probability, Fits(x), Fits(y), x < y
      PROVE  FALSE
  <2>1. Reached(p, y) \subseteq Above(p, x)
    BY <1>1, <1>8 DEF Reached, Above
  <2>2. Cardinality(Reached(p, y)) <= Cardinality(Above(p, x))
    BY <1>6, <2>1, FS_Subset
  <2> QED
    BY <1>1, <1>6, <1>8, <2>2
<1>9. KthValue(p) = v
  <2>1. KthValue(p) = CHOOSE x \in Probability : Fits(x)
    BY DEF KthValue
  <2>2. KthValue(p) \in Probability /\ Fits(KthValue(p))
    <3> HIDE DEF Fits, v
    <3> QED
      BY <1>4, <1>7, <2>1
  <2>3. ~(KthValue(p) < v) /\ ~(v < KthValue(p))
    <3> HIDE DEF Fits, v
    <3> QED
      BY <1>4, <1>7, <1>8, <2>2
  <2> QED
    BY <1>1, <1>4, <2>2, <2>3
<1> QED
  BY <1>3, <1>4, <1>9

\* The scan keeps the documented members.
LEMMA KeptAreMembers ==
    ASSUME NEW p \in [ExpertIds -> Probability], NEW ids, Kept(p, ExpertCount, ids)
    PROVE  Members(p) = Range(ids)
<1> DEFINE v       == KthValue(p)
           K       == Range(ids)
           above   == Above(p, v)
           entered == {e \in ExpertIds :
                         p[e] = v /\ Cardinality({d \in Reached(p, v) : d < e}) < TopK}
           places  == TopK - Cardinality(above)
           least   == K \ above
           behind(e) == {d \in entered : d > e}
<1>1. Members(p) = above \cup {e \in entered : Cardinality(behind(e)) < places}
  BY DEF Members
<1>2. /\ TopK \in Nat /\ p \in [ExpertIds -> Nat] /\ IsFiniteSet(ExpertIds)
      /\ ExpertIds \subseteq Nat /\ ExpertIds = 0..(ExpertCount - 1)
  BY MoeAssumption, IdsFinite
<1>3. /\ v \in Nat
      /\ \E w \in 1..TopK : p[ids[w]] = v
      /\ \A i \in 1..TopK : v <= p[ids[i]]
  BY KthIsLeast
<1> HIDE DEF v
<1>4. ids \in [1..TopK -> ExpertIds] /\ \A i, j \in 1..TopK : ids[i] = ids[j] => i = j
  BY DEF Kept, ExpertIds
<1>5. K \subseteq ExpertIds /\ IsFiniteSet(K) /\ Cardinality(K) = TopK
      /\ \A e \in K : \E i \in 1..TopK : ids[i] = e
  <2>1. IsFiniteSet(K) /\ Cardinality(K) = TopK
    BY <1>2, <1>4, ValuesCount
  <2> QED
    BY <1>4, <2>1 DEF Range
<1>6. above \subseteq K
  <2> SUFFICES ASSUME NEW e \in ExpertIds, p[e] > v PROVE e \in K
    BY DEF Above
  <2>1. p[e] \in Nat /\ ~(p[e] <= v)
    BY <1>2, <1>3
  <2> QED
    BY <1>2, <1>3, <2>1 DEF Kept
<1>7. \A e \in least : p[e] = v /\ e \in ExpertIds
  <2> SUFFICES ASSUME NEW e \in least PROVE p[e] = v /\ e \in ExpertIds
    OBVIOUS
  <2>1. e \in ExpertIds /\ p[e] \in Nat /\ v <= p[e]
    BY <1>2, <1>3, <1>5
  <2>2. ~(p[e] > v)
    BY <2>1 DEF Above
  <2> QED
    BY <1>3, <2>1, <2>2
<1>8. /\ IsFiniteSet(above) /\ Cardinality(above) \in Nat
      /\ IsFiniteSet(least) /\ Cardinality(least) = places /\ places \in Nat
  <2>1. IsFiniteSet(above) /\ Cardinality(above) \in Nat /\ K \cap above = above
    BY <1>5, <1>6, FS_Subset, FS_CardinalityType
  <2>2. IsFiniteSet(least) /\ Cardinality(least) = Cardinality(K) - Cardinality(K \cap above)
    BY <1>5, <2>1, FS_Difference
  <2>3. Cardinality(least) \in Nat
    BY <2>2, FS_CardinalityType
  <2> QED
    BY <1>5, <2>1, <2>2, <2>3
<1>9. ASSUME NEW e \in ExpertIds
      PROVE  e \in entered <=> p[e] = v /\ Entered(p, e)
  <2> SUFFICES ASSUME p[e] = v
               PROVE  {d \in Reached(p, v) : d < e} = {d \in ExpertIds : d < e /\ p[d] >= p[e]}
    BY DEF Entered
  <2> QED
    BY DEF Reached
<1>10. entered \subseteq ExpertIds
  OBVIOUS
<1> HIDE DEF entered
<1>11. least \subseteq entered
  <2> SUFFICES ASSUME NEW e \in least PROVE e \in entered
    OBVIOUS
  <2>1. Entered(p, e)
    BY <1>5 DEF Kept
  <2> QED
    BY <1>7, <1>9, <2>1
<1>12. ASSUME NEW e \in entered \ least, NEW d \in least PROVE e < d
  <2>1. e \in ExpertIds /\ p[e] = v /\ Entered(p, e) /\ p[d] = v
    BY <1>7, <1>9, <1>10, <1>12
  <2>2. e \notin above
    BY <1>3, <2>1 DEF Above
  <2>3. e \in 0..(ExpertCount - 1) \ K
    BY <1>2, <1>12, <2>1, <2>2
  <2>4. PICK i \in 1..TopK : ids[i] = d
    BY <1>5
  <2> QED
    BY <2>1, <2>3, <2>4 DEF Kept
<1>13. IsFiniteSet(entered) /\ \A e : IsFiniteSet(behind(e)) /\ Cardinality(behind(e)) \in Nat
  BY <1>2, <1>10, FS_Subset, FS_CardinalityType
<1>14. ASSUME NEW e \in least PROVE Cardinality(behind(e)) < places
  <2>1. behind(e) \subseteq least \ {e}
    <3> SUFFICES ASSUME NEW d \in entered, d > e PROVE d \in least \ {e}
      OBVIOUS
    <3>1. {d, e} \subseteq Nat
      BY <1>2, <1>7, <1>10
    <3>2. d \notin least => d < e
      BY <1>12
    <3> QED
      BY <3>1, <3>2
  <2>2. IsFiniteSet(least \ {e}) /\ Cardinality(least \ {e}) = places - 1
    BY <1>8, FS_RemoveElement, ZenonT(30)
  <2>3. Cardinality(behind(e)) <= places - 1
    BY <2>1, <2>2, FS_Subset
  <2> QED
    BY <1>8, <1>13, <2>3
<1>15. ASSUME NEW e \in entered \ least PROVE ~(Cardinality(behind(e)) < places)
  <2>1. least \subseteq behind(e)
    <3> SUFFICES ASSUME NEW d \in least PROVE d \in entered /\ d > e
      OBVIOUS
    <3>1. e < d /\ {e, d} \subseteq Nat
      BY <1>2, <1>7, <1>10, <1>12
    <3> QED
      BY <1>11, <3>1
  <2>2. places <= Cardinality(behind(e))
    BY <1>8, <1>13, <2>1, FS_Subset
  <2> QED
    BY <1>8, <1>13, <2>2
<1>16. {e \in entered : Cardinality(behind(e)) < places} = least
  BY <1>11, <1>14, <1>15
<1> QED
  BY <1>1, <1>6, <1>16

\* The route is made of different ids, those documented, the better first.
Route(p, ids) ==
    /\ ids \in [1..TopK -> ExpertIds]
    /\ \A i, j \in 1..TopK : ids[i] = ids[j] => i = j
    /\ Range(ids) = Members(p)
    /\ \A i \in 1..(TopK - 1) : Better(p, ids[i], ids[i + 1])

LEMMA RouteIs ==
    ASSUME NEW p \in [ExpertIds -> Probability]
    PROVE  Route(p, SelectTopK(p))
<1>1. p \in [ExpertIds -> Nat] /\ TopK \in Nat
  BY MoeAssumption, IdsFinite
<1>2. PICK ids : /\ Kept(p, ExpertCount, ids)
                 /\ SelectTopK(p) =
                      [rank \in 1..TopK |->
                         CHOOSE e \in Range(ids) : RankIn(p, Range(ids), e) = rank - 1]
  BY <1>1, RouteOfScan
<1> DEFINE K == Range(ids)
           route == SelectTopK(p)
<1>3. Members(p) = K
  BY <1>2, KeptAreMembers
<1>4. K \in SUBSET ExpertIds /\ IsFiniteSet(K) /\ Cardinality(K) = TopK
  <2>1. ids \in [1..TopK -> ExpertIds] /\ \A i, j \in 1..TopK : ids[i] = ids[j] => i = j
    BY <1>2 DEF Kept, ExpertIds
  <2>2. IsFiniteSet(K) /\ Cardinality(K) = TopK
    BY <1>1, <2>1, ValuesCount
  <2> QED
    BY <2>1, <2>2 DEF Range
<1>5. DOMAIN route = 1..TopK /\ route = [rank \in 1..TopK |-> route[rank]]
      /\ \A rank \in 1..TopK : route[rank] = CHOOSE e \in K : RankIn(p, K, e) = rank - 1
  BY <1>2
<1> HIDE DEF K, route
<1>6. ASSUME NEW rank \in 1..TopK
      PROVE  route[rank] \in K /\ RankIn(p, K, route[rank]) = rank - 1
  <2>1. rank - 1 \in 0..(Cardinality(K) - 1)
    BY <1>1, <1>4
  <2>2. \E e \in K : RankIn(p, K, e) = rank - 1
    BY <1>1, <1>4, <2>1, RankTaken
  <2> QED
    BY <1>5, <2>2
<1>7. /\ \A e \in K : RankIn(p, K, e) \in 0..(TopK - 1)
      /\ \A d, e \in K : Better(p, d, e) <=> RankIn(p, K, d) < RankIn(p, K, e)
  BY <1>1, <1>4, RankOrder
<1>8. \A d, e \in K : RankIn(p, K, d) = RankIn(p, K, e) => d = e
  <2> SUFFICES ASSUME NEW d \in K, NEW e \in K, RankIn(p, K, d) = RankIn(p, K, e), d # e
               PROVE  FALSE
    OBVIOUS
  <2>1. Better(p, d, e) \/ Better(p, e, d)
    BY <1>1, <1>4, BetterOrder
  <2> QED
    BY <1>7, <2>1
<1>9. route \in [1..TopK -> ExpertIds]
  BY <1>4, <1>5, <1>6
<1>10. \A i, j \in 1..TopK : route[i] = route[j] => i = j
  BY <1>1, <1>6
<1>11. Range(route) = K
  <2>1. ASSUME NEW e \in K PROVE \E rank \in 1..TopK : route[rank] = e
    <3>1. RankIn(p, K, e) + 1 \in 1..TopK /\ RankIn(p, K, e) + 1 - 1 = RankIn(p, K, e)
      BY <1>1, <1>7
    <3> DEFINE rank == RankIn(p, K, e) + 1
    <3> HIDE DEF rank
    <3>2. route[rank] \in K /\ RankIn(p, K, route[rank]) = rank - 1
      BY <1>6, <3>1 DEF rank
    <3>3. RankIn(p, K, route[rank]) = RankIn(p, K, e)
      BY <1>7, <2>1, <3>1, <3>2 DEF rank
    <3>4. route[rank] = e
      BY <1>8, <2>1, <3>2, <3>3
    <3> QED
      BY <3>1, <3>4 DEF rank
  <2> QED
    BY <1>5, <1>6, <2>1 DEF Range
<1>12. ASSUME NEW i \in 1..(TopK - 1) PROVE Better(p, route[i], route[i + 1])
  <2>1. i \in 1..TopK /\ i + 1 \in 1..TopK /\ i - 1 < i + 1 - 1
    BY <1>1
  <2> QED
    BY <1>6, <1>7, <2>1
<1> QED
  BY <1>3, <1>9, <1>10, <1>11, <1>12 DEF Route, route
-----------------------------------------------------------------------------
(* What a history tells of the tokens of a call. *)

\* The events of the k-th token, from one event on, and what they name.
Cell(t, h, from, k) == Block(Events(t, h, from), k)
NamedIn(h, cell) == {h[i].expert : i \in cell}
Rising(h, cell) == \A i, j \in cell : i < j => h[i].expert < h[j].expert

\* Events that are of the kind follow those before them.
LEMMA EventsFollow ==
    ASSUME NEW R, NEW events \in Seq(R), NEW more \in Seq(R), NEW t,
           NEW from \in Nat \ {0}, from <= Len(events) + 1,
           \A m \in 1..Len(more) : Notes(t, more[m])
    PROVE  Events(t, events \o more, from)
             = Events(t, events, from) \cup (Len(events) + 1)..(Len(events) + Len(more))
<1> DEFINE all == events \o more
           n == Len(events)
           m == Len(more)
<1>1. /\ n \in Nat /\ m \in Nat /\ Len(all) = n + m
      /\ \A i \in 1..n : all[i] = events[i]
      /\ \A i \in (n + 1)..(n + m) : all[i] = more[i - n]
  BY Lengthened
<1> HIDE DEF all, n, m
<1>2. ASSUME NEW i \in from..(n + m)
      PROVE  Notes(t, all[i]) <=> i \in Events(t, events, from) \/ i \in (n + 1)..(n + m)
  <2>1. CASE i <= n
    <3>1. i \in 1..n /\ i \in from..n
      BY <1>1, <1>2, <2>1
    <3>2. all[i] = events[i] /\ i \notin (n + 1)..(n + m)
      BY <1>1, <2>1, <3>1
    <3> QED
      BY <3>1, <3>2 DEF Events, n
  <2>2. CASE ~(i <= n)
    <3>1. i \in (n + 1)..(n + m) /\ i - n \in 1..m
      BY <1>1, <1>2, <2>2
    <3>2. Notes(t, more[i - n])
      BY <3>1 DEF m
    <3> QED
      BY <1>1, <3>1, <3>2
  <2> QED
    BY <2>1, <2>2
<1>3. Events(t, events, from) \subseteq from..(n + m) /\ (n + 1)..(n + m) \subseteq from..(n + m)
  BY <1>1 DEF Events, n
<1>4. Events(t, all, from) = {i \in from..(n + m) : Notes(t, all[i])}
  BY <1>1 DEF Events
<1>5. Events(t, all, from) = Events(t, events, from) \cup (n + 1)..(n + m)
  BY <1>2, <1>3, <1>4
<1> QED
  BY <1>5 DEF all, n, m

\* Events that are not leave them alone.
LEMMA EventsStay ==
    ASSUME NEW R, NEW events \in Seq(R), NEW more \in Seq(R), NEW t,
           NEW from \in Nat \ {0},
           \A m \in 1..Len(more) : ~Notes(t, more[m])
    PROVE  Events(t, events \o more, from) = Events(t, events, from)
<1> DEFINE all == events \o more
           n == Len(events)
           m == Len(more)
<1>1. /\ n \in Nat /\ m \in Nat /\ Len(all) = n + m
      /\ \A i \in 1..n : all[i] = events[i]
      /\ \A i \in (n + 1)..(n + m) : all[i] = more[i - n]
  BY Lengthened
<1> HIDE DEF all, n, m
<1>2. ASSUME NEW i \in from..(n + m)
      PROVE  Notes(t, all[i]) <=> i \in Events(t, events, from)
  <2>1. CASE i <= n
    <3>1. i \in 1..n /\ i \in from..n
      BY <1>1, <1>2, <2>1
    <3>2. all[i] = events[i]
      BY <1>1, <3>1
    <3> QED
      BY <3>1, <3>2 DEF Events, n
  <2>2. CASE ~(i <= n)
    <3>1. i \in (n + 1)..(n + m) /\ i - n \in 1..m
      BY <1>1, <1>2, <2>2
    <3>2. ~Notes(t, more[i - n])
      BY <3>1 DEF m
    <3>3. i \notin Events(t, events, from)
      BY <1>1, <1>2, <2>2 DEF Events, n
    <3> QED
      BY <1>1, <3>1, <3>2, <3>3
  <2> QED
    BY <2>1, <2>2
<1>3. Events(t, events, from) \subseteq from..(n + m)
  BY <1>1 DEF Events, n
<1>4. Events(t, all, from) = {i \in from..(n + m) : Notes(t, all[i])}
  BY <1>1 DEF Events
<1>5. Events(t, all, from) = Events(t, events, from)
  BY <1>2, <1>3, <1>4
<1> QED
  BY <1>5 DEF all

\* Quotients by the number of experts a token takes.
LEMMA TokenOf ==
    ASSUME NEW k \in Nat, NEW r \in 0..(TopK - 1)
    PROVE  (TopK * k + r) \div TopK = k
<1>1. TopK \in Nat \ {0}
  BY IdsFinite
<1>2. (k * TopK + r) \div TopK = k
  BY <1>1, DivMod
<1>3. k * TopK = TopK * k
  BY <1>1
<1> QED
  BY <1>2, <1>3

LEMMA TokenBelow ==
    ASSUME NEW k \in Nat, NEW x \in Nat, x < TopK * k
    PROVE  x \div TopK < k
<1>1. TopK \in Nat \ {0}
  BY IdsFinite
<1>2. x \div TopK \in Nat /\ x % TopK \in 0..(TopK - 1) /\ x = (x \div TopK) * TopK + (x % TopK)
  BY <1>1, Division
<1> DEFINE q == x \div TopK
           m == x % TopK
<1> HIDE DEF q, m
<1>3. q \in Nat /\ m \in Nat /\ x = q * TopK + m
  BY <1>1, <1>2 DEF q, m
<1>4. ASSUME k <= q PROVE FALSE
  <2>1. k * TopK <= q * TopK
    <3>1. (q - k) * TopK \in Nat /\ (q - k) * TopK = q * TopK - k * TopK
      BY <1>1, <1>3, <1>4
    <3>2. q * TopK \in Nat /\ k * TopK \in Nat
      BY <1>1, <1>3
    <3> QED
      BY <3>1, <3>2
  <2>2. TopK * k = k * TopK /\ k * TopK \in Nat /\ q * TopK \in Nat
    BY <1>1, <1>3
  <2> QED
    BY <1>3, <2>1, <2>2
<1> QED
  BY <1>3, <1>4 DEF q

\* The events there are, among those of the history.
LEMMA EventsWithin ==
    ASSUME NEW S, NEW h \in Seq(S), NEW t, NEW from \in Nat \ {0}
    PROVE  /\ Len(h) \in Nat /\ Events(t, h, from) \in SUBSET (1..Len(h))
           /\ IsFiniteSet(Events(t, h, from)) /\ Cardinality(Events(t, h, from)) \in Nat
           /\ \A i \in Events(t, h, from) :
                Place(Events(t, h, from), i) \in 1..Cardinality(Events(t, h, from))
           /\ \A j : Cell(t, h, from, j) \subseteq 1..Len(h)
<1>1. Len(h) \in Nat
  BY LenProperties
<1>2. Events(t, h, from) \subseteq from..Len(h) /\ from..Len(h) \subseteq 1..Len(h)
  BY <1>1 DEF Events
<1>3. Events(t, h, from) \in SUBSET (1..Len(h))
  BY <1>2
<1>4. \A j : Cell(t, h, from, j) \subseteq Events(t, h, from)
  BY DEF Cell, Block
<1> QED
  BY <1>1, <1>3, <1>4, PlaceBounds

\* What cells of a history name does not change when it goes on.
LEMMA NamesStay ==
    ASSUME NEW S, NEW h \in Seq(S), NEW more \in Seq(S), NEW cell \in SUBSET (1..Len(h))
    PROVE  /\ NamedIn(h \o more, cell) = NamedIn(h, cell)
           /\ Rising(h \o more, cell) <=> Rising(h, cell)
<1>1. \A i \in cell : (h \o more)[i] = h[i]
  BY Lengthened
<1> DEFINE all == h \o more
<1> HIDE DEF all
<1>2. \A i \in cell : all[i].expert = h[i].expert
  BY <1>1 DEF all
<1>3. NamedIn(all, cell) = NamedIn(h, cell)
  BY <1>2 DEF NamedIn
<1>4. Rising(all, cell) <=> Rising(h, cell)
  BY <1>2 DEF Rising
<1> QED
  BY <1>3, <1>4 DEF all

\* More events of a kind, as many as the token in progress has room for, are
\* that token's.
LEMMA CellsGrow ==
    ASSUME NEW S, NEW h \in Seq(S), NEW more \in Seq(S), NEW t,
           NEW from \in Nat \ {0}, from <= Len(h) + 1,
           \A m \in 1..Len(more) : Notes(t, more[m]),
           NEW k \in Nat, NEW r \in Nat, r + Len(more) <= TopK,
           Cardinality(Events(t, h, from)) = TopK * k + r
    PROVE  /\ Cardinality(Events(t, h \o more, from)) = TopK * k + (r + Len(more))
           /\ \A j \in 0..(k - 1) : Cell(t, h \o more, from, j) = Cell(t, h, from, j)
           /\ Cell(t, h \o more, from, k)
                = Cell(t, h, from, k) \cup (Len(h) + 1)..(Len(h) + Len(more))
<1> DEFINE n == Len(h)
           m == Len(more)
           at == Events(t, h, from)
           all == at \cup (n + 1)..(n + m)
<1>1. n \in Nat /\ m \in Nat /\ at \in SUBSET (1..n)
  BY EventsWithin, LenProperties
<1>2. Events(t, h \o more, from) = all
  BY EventsFollow
<1> HIDE DEF n, m, at
<1>3. /\ Cardinality(all) = Cardinality(at) + m
      /\ \A i \in at : Place(all, i) = Place(at, i)
      /\ \A i \in 1..m : Place(all, n + i) = Cardinality(at) + i
  BY ONLY <1>1, PlacesFollow, ZenonT(30)
<1>4. Cardinality(at) = TopK * k + r /\ TopK * k \in Nat /\ TopK \in Nat \ {0} /\ r + m <= TopK
  BY IdsFinite DEF at, m
<1> HIDE DEF all
<1>5. ASSUME NEW i \in (n + 1)..(n + m)
      PROVE  i \in all /\ (Place(all, i) - 1) \div TopK = k
  <2>1. i - n \in 1..m /\ n + (i - n) = i
    BY <1>1
  <2>2. Place(all, i) = Cardinality(at) + (i - n)
    <3>1. Place(all, n + (i - n)) = Cardinality(at) + (i - n)
      BY <1>3, <2>1
    <3> QED
      BY <2>1, <3>1
  <2>3. Place(all, i) - 1 = TopK * k + (r + (i - n) - 1) /\ r + (i - n) - 1 \in 0..(TopK - 1)
    <3>1. i - n >= 1 /\ i - n <= m /\ i - n \in Nat
      BY <2>1
    <3> QED
      BY <1>1, <1>4, <2>2, <3>1
  <2>4. (TopK * k + (r + (i - n) - 1)) \div TopK = k
    BY <2>3, TokenOf
  <2>5. i \in all
    BY DEF all
  <2> QED
    BY <2>3, <2>4, <2>5
<1>6. \A j : Cell(t, h \o more, from, j) = {i \in all : (Place(all, i) - 1) \div TopK = j}
  BY <1>2 DEF Cell, Block
<1>7. \A j : Cell(t, h, from, j) = {i \in at : (Place(at, i) - 1) \div TopK = j}
  BY DEF Cell, Block, at
<1>8. \A i \in all : i \in at \/ i \in (n + 1)..(n + m)
  BY DEF all
<1>9. at \subseteq all
  BY DEF all
<1>10. \A j : {i \in at : (Place(all, i) - 1) \div TopK = j}
                = {i \in at : (Place(at, i) - 1) \div TopK = j}
  BY <1>3
<1>11. ASSUME NEW j \in 0..(k - 1)
       PROVE  Cell(t, h \o more, from, j) = Cell(t, h, from, j)
  <2>1. j # k
    OBVIOUS
  <2>2. {i \in all : (Place(all, i) - 1) \div TopK = j}
           = {i \in at : (Place(all, i) - 1) \div TopK = j}
    BY <1>5, <1>8, <1>9, <2>1
  <2> QED
    BY <1>6, <1>7, <1>10, <2>2
<1>12. Cell(t, h \o more, from, k) = Cell(t, h, from, k) \cup (n + 1)..(n + m)
  <2>1. {i \in all : (Place(all, i) - 1) \div TopK = k}
           = {i \in at : (Place(all, i) - 1) \div TopK = k} \cup (n + 1)..(n + m)
    BY <1>5, <1>8, <1>9
  <2> QED
    BY <1>6, <1>7, <1>10, <2>1
<1>13. Cardinality(all) = TopK * k + (r + m)
  BY <1>1, <1>3, <1>4
<1> QED
  BY <1>2, <1>11, <1>12, <1>13 DEF n, m

\* Of a kind, all the events of k tokens and r more, which name these ids.
Tells(t, h, from, k, r, ids) ==
    /\ Cardinality(Events(t, h, from)) = TopK * k + r
    /\ NamedIn(h, Cell(t, h, from, k)) = ids

\* A token's accesses are to the experts of its route, ascending.
Agree(h, from, k) ==
    /\ NamedIn(h, Cell("expert", h, from, k)) = NamedIn(h, Cell("route", h, from, k))
    /\ Rising(h, Cell("expert", h, from, k))

\* k tokens are told of; of the next, r ids of its route and a accesses.
Telling(h, from, k, r, route, a, accessed) ==
    /\ Tells("route", h, from, k, r, route)
    /\ Tells("expert", h, from, k, a, accessed)
    /\ Rising(h, Cell("expert", h, from, k))
    /\ \A j \in 0..(k - 1) : Agree(h, from, j)

\* Events of neither kind change nothing of it.
LEMMA TellStill ==
    ASSUME NEW S, NEW h \in Seq(S), NEW more \in Seq(S), NEW from \in Nat \ {0},
           NEW k, NEW r, NEW route, NEW a, NEW accessed,
           Telling(h, from, k, r, route, a, accessed),
           \A m \in 1..Len(more) : ~Notes("route", more[m]) /\ ~Notes("expert", more[m])
    PROVE  Telling(h \o more, from, k, r, route, a, accessed)
<1> DEFINE all == h \o more
<1>1. /\ Events("route", all, from) = Events("route", h, from)
      /\ Events("expert", all, from) = Events("expert", h, from)
  BY EventsStay
<1>2. \A j : /\ Cell("route", h, from, j) \in SUBSET (1..Len(h))
             /\ Cell("expert", h, from, j) \in SUBSET (1..Len(h))
  BY EventsWithin
<1>3. \A j : /\ NamedIn(all, Cell("route", h, from, j)) = NamedIn(h, Cell("route", h, from, j))
             /\ NamedIn(all, Cell("expert", h, from, j)) = NamedIn(h, Cell("expert", h, from, j))
             /\ Rising(all, Cell("expert", h, from, j)) <=> Rising(h, Cell("expert", h, from, j))
  BY <1>2, NamesStay
<1> HIDE DEF all
<1>4. \A j : /\ Cell("route", all, from, j) = Cell("route", h, from, j)
             /\ Cell("expert", all, from, j) = Cell("expert", h, from, j)
  BY <1>1 DEF Cell
<1>5. Telling(all, from, k, r, route, a, accessed)
  BY <1>1, <1>3, <1>4 DEF Telling, Tells, Agree
<1> QED
  BY <1>5 DEF all

\* A call begins with nothing told.
LEMMA TellNothing ==
    ASSUME NEW S, NEW h \in Seq(S)
    PROVE  Telling(h, Len(h) + 1, 0, 0, {}, 0, {})
<1>1. Len(h) \in Nat /\ TopK \in Nat
  BY LenProperties, IdsFinite
<1>2. (Len(h) + 1)..Len(h) = {}
  BY <1>1
<1>3. \A t : Events(t, h, Len(h) + 1) = {}
  BY <1>2 DEF Events
<1>4. \A t, j : Cell(t, h, Len(h) + 1, j) = {}
  BY <1>3 DEF Cell, Block
<1>5. Cardinality({}) = 0 /\ TopK * 0 + 0 = 0
  BY <1>1, FS_EmptySet
<1>6. NamedIn(h, {}) = {} /\ Rising(h, {})
  BY DEF NamedIn, Rising
<1>7. 0..(0 - 1) = {}
  OBVIOUS
<1> QED
  BY <1>3, <1>4, <1>5, <1>6, <1>7 DEF Telling, Tells

\* A route told of a token of which nothing was told.
LEMMA TellRoutes ==
    ASSUME NEW S, NEW h \in Seq(S), NEW more \in Seq(S),
           NEW from \in Nat \ {0}, from <= Len(h) + 1, NEW k \in Nat,
           Telling(h, from, k, 0, {}, 0, {}),
           Len(more) = TopK, \A m \in 1..TopK : more[m].kind = "route"
    PROVE  Telling(h \o more, from, k, TopK, {more[m].expert : m \in 1..TopK}, 0, {})
<1> DEFINE all == h \o more
           n == Len(h)
<1>1. /\ n \in Nat /\ TopK \in Nat /\ 0 + Len(more) <= TopK /\ 0 + TopK = TopK
      /\ \A m \in 1..TopK : all[n + m] = more[m]
  BY IdsFinite, Lengthened
<1>2. \A m \in 1..TopK : Notes("route", more[m]) /\ ~Notes("expert", more[m])
  BY DEF Notes
<1>3. /\ Cardinality(Events("route", all, from)) = TopK * k + (0 + TopK)
      /\ \A j \in 0..(k - 1) : Cell("route", all, from, j) = Cell("route", h, from, j)
      /\ Cell("route", all, from, k) = Cell("route", h, from, k) \cup (n + 1)..(n + TopK)
  <2>1. 0 \in Nat /\ \A m \in 1..Len(more) : Notes("route", more[m])
    BY <1>2
  <2>2. Cardinality(Events("route", h, from)) = TopK * k + 0
    BY DEF Telling, Tells
  <2>3. /\ Cardinality(Events("route", h \o more, from)) = TopK * k + (0 + Len(more))
        /\ \A j \in 0..(k - 1) : Cell("route", h \o more, from, j) = Cell("route", h, from, j)
        /\ Cell("route", h \o more, from, k)
             = Cell("route", h, from, k) \cup (Len(h) + 1)..(Len(h) + Len(more))
    <3>1. 0 + Len(more) <= TopK
      BY <1>1
    <3> HIDE DEF all, n
    <3> QED
      BY ONLY <2>1, <2>2, <3>1, CellsGrow, h \in Seq(S), more \in Seq(S), k \in Nat,
              from \in Nat \ {0}, from <= Len(h) + 1
  <2> QED
    BY <2>3
<1>4. Events("expert", all, from) = Events("expert", h, from)
  BY <1>2, EventsStay
<1>5. \A j : /\ Cell("route", h, from, j) \in SUBSET (1..Len(h))
             /\ Cell("expert", h, from, j) \in SUBSET (1..Len(h))
  BY EventsWithin
<1>6. \A j : /\ NamedIn(all, Cell("route", h, from, j)) = NamedIn(h, Cell("route", h, from, j))
             /\ NamedIn(all, Cell("expert", h, from, j)) = NamedIn(h, Cell("expert", h, from, j))
             /\ Rising(all, Cell("expert", h, from, j)) <=> Rising(h, Cell("expert", h, from, j))
  BY <1>5, NamesStay
<1> HIDE DEF all
<1>7. \A j : Cell("expert", all, from, j) = Cell("expert", h, from, j)
  BY <1>4 DEF Cell
<1>8. Cell("route", h, from, k) = {}
  BY DEF Telling, Tells, NamedIn
<1>9. NamedIn(all, Cell("route", all, from, k)) = {more[m].expert : m \in 1..TopK}
  <2>1. Cell("route", all, from, k) = (n + 1)..(n + TopK)
    BY <1>3, <1>8
  <2>2. \A i \in (n + 1)..(n + TopK) : \E m \in 1..TopK : i = n + m
    <3> SUFFICES ASSUME NEW i \in (n + 1)..(n + TopK) PROVE \E m \in 1..TopK : i = n + m
      OBVIOUS
    <3>1. i - n \in 1..TopK /\ i = n + (i - n)
      BY <1>1
    <3> QED
      BY <3>1
  <2>3. \A m \in 1..TopK : n + m \in (n + 1)..(n + TopK)
    BY <1>1
  <2> HIDE DEF n
  <2>4. \A m \in 1..TopK : all[n + m].expert = more[m].expert
    BY <1>1
  <2> DEFINE told == {all[i].expert : i \in (n + 1)..(n + TopK)}
             new == {more[m].expert : m \in 1..TopK}
  <2>5. told = new
    <3>1. ASSUME NEW x \in told PROVE x \in new
      <4>1. PICK i \in (n + 1)..(n + TopK) : x = all[i].expert
        OBVIOUS
      <4> QED
        BY <2>2, <2>4, <4>1
    <3>2. ASSUME NEW x \in new PROVE x \in told
      <4>1. PICK m \in 1..TopK : x = more[m].expert
        OBVIOUS
      <4>2. n + m \in (n + 1)..(n + TopK) /\ x = all[n + m].expert
        BY <2>3, <2>4, <4>1
      <4> QED
        BY <4>2
    <3> QED
      BY <3>1, <3>2
  <2> QED
    BY <2>1, <2>5 DEF NamedIn
<1>10. Tells("route", all, from, k, TopK, {more[m].expert : m \in 1..TopK})
  BY <1>1, <1>3, <1>9 DEF Tells
<1>11. Tells("expert", all, from, k, 0, {}) /\ Rising(all, Cell("expert", all, from, k))
  BY <1>4, <1>6, <1>7 DEF Telling, Tells
<1>12. ASSUME NEW j \in 0..(k - 1) PROVE Agree(all, from, j)
  <2>1. Agree(h, from, j)
    BY DEF Telling
  <2> QED
    BY <1>3, <1>6, <1>7, <2>1 DEF Agree
<1>13. Telling(all, from, k, TopK, {more[m].expert : m \in 1..TopK}, 0, {})
  BY <1>10, <1>11, <1>12 DEF Telling
<1> QED
  BY <1>13 DEF all

\* An access to an expert above those before it.
LEMMA TellAccess ==
    ASSUME NEW S, NEW h \in Seq(S), NEW e \in S,
           NEW from \in Nat \ {0}, from <= Len(h) + 1, NEW k \in Nat,
           NEW r, NEW route, NEW a \in Nat, a < TopK, NEW accessed,
           Telling(h, from, k, r, route, a, accessed),
           Notes("expert", e), \A d \in accessed : d < e.expert
    PROVE  Telling(h \o <<e>>, from, k, r, route, a + 1, accessed \cup {e.expert})
<1> DEFINE all == h \o <<e>>
           n == Len(h)
<1>1. <<e>> \in Seq(S) /\ Len(<<e>>) = 1 /\ <<e>>[1] = e
  OBVIOUS
<1>2. n \in Nat /\ TopK \in Nat /\ all[n + 1] = e /\ (n + 1)..(n + 1) = {n + 1} /\ 1 \in 1..1
  BY <1>1, IdsFinite, Lengthened
<1>3. ~Notes("route", e)
  BY DEF Notes
<1>4. \A m \in 1..1 : m = 1
  OBVIOUS
<1>5. /\ Cardinality(Events("expert", all, from)) = TopK * k + (a + 1)
      /\ \A j \in 0..(k - 1) : Cell("expert", all, from, j) = Cell("expert", h, from, j)
      /\ Cell("expert", all, from, k) = Cell("expert", h, from, k) \cup (n + 1)..(n + 1)
  <2>1. \A m \in 1..Len(<<e>>) : Notes("expert", <<e>>[m])
    BY <1>1, <1>4
  <2>2. a + Len(<<e>>) <= TopK
    BY <1>1, <1>2
  <2>3. Cardinality(Events("expert", h, from)) = TopK * k + a
    BY DEF Telling, Tells
  <2> DEFINE more == <<e>>
  <2>4. more \in Seq(S)
    BY <1>1
  <2> HIDE DEF more
  <2>5. /\ Cardinality(Events("expert", h \o more, from)) = TopK * k + (a + Len(more))
        /\ \A j \in 0..(k - 1) : Cell("expert", h \o more, from, j) = Cell("expert", h, from, j)
        /\ Cell("expert", h \o more, from, k)
             = Cell("expert", h, from, k) \cup (Len(h) + 1)..(Len(h) + Len(more))
    <3>1. \A m \in 1..Len(more) : Notes("expert", more[m])
      BY <2>1 DEF more
    <3>2. a + Len(more) <= TopK
      BY <2>2 DEF more
    <3> QED
      BY <2>3, <2>4, <3>1, <3>2, CellsGrow
  <2>6. Len(more) = 1 /\ h \o more = all
    BY <1>1 DEF more
  <2>7. Len(h) + Len(more) = n + 1 /\ Len(h) + 1 = n + 1
    BY <2>6
  <2>8. Cardinality(Events("expert", all, from)) = TopK * k + (a + 1)
    BY ONLY <2>5, <2>6
  <2>9. /\ \A j \in 0..(k - 1) : Cell("expert", all, from, j) = Cell("expert", h, from, j)
        /\ Cell("expert", all, from, k) = Cell("expert", h, from, k) \cup (n + 1)..(n + 1)
    BY ONLY <2>5, <2>6, <2>7
  <2> HIDE DEF all
  <2> QED
    BY <2>8, <2>9
<1>6. Events("route", all, from) = Events("route", h, from)
  <2>1. \A m \in 1..Len(<<e>>) : ~Notes("route", <<e>>[m])
    BY <1>1, <1>3, <1>4
  <2> QED
    BY <1>1, <2>1, EventsStay
<1>7. \A j : /\ Cell("route", h, from, j) \in SUBSET (1..Len(h))
             /\ Cell("expert", h, from, j) \in SUBSET (1..Len(h))
  BY EventsWithin
<1>8. \A j : /\ NamedIn(all, Cell("route", h, from, j)) = NamedIn(h, Cell("route", h, from, j))
             /\ NamedIn(all, Cell("expert", h, from, j)) = NamedIn(h, Cell("expert", h, from, j))
             /\ Rising(all, Cell("expert", h, from, j)) <=> Rising(h, Cell("expert", h, from, j))
  BY <1>1, <1>7, NamesStay
<1> DEFINE cell == Cell("expert", h, from, k)
<1>9. cell \subseteq 1..n
  BY <1>7
<1> HIDE DEF all, n, cell
<1>10. \A j : Cell("route", all, from, j) = Cell("route", h, from, j)
  BY <1>6 DEF Cell
<1>11. Cell("expert", all, from, k) = cell \cup {n + 1}
  BY <1>2, <1>5 DEF cell
<1>12. NamedIn(all, cell) = accessed /\ Rising(all, cell)
  BY <1>8 DEF Telling, Tells, cell
<1>13. NamedIn(all, cell \cup {n + 1}) = accessed \cup {e.expert}
  BY <1>2, <1>12 DEF NamedIn
<1>14. Rising(all, cell \cup {n + 1})
  <2> SUFFICES ASSUME NEW i \in cell \cup {n + 1}, NEW j \in cell \cup {n + 1}, i < j
               PROVE  all[i].expert < all[j].expert
    BY DEF Rising
  <2>1. \A l \in cell : l \in 1..n
    BY <1>9
  <2>2. i \in cell
    BY <1>2, <2>1
  <2>3. CASE j \in cell
    BY <1>12, <2>2, <2>3 DEF Rising
  <2>4. CASE j = n + 1
    <3>1. all[i].expert \in accessed
      BY <1>12, <2>2 DEF NamedIn
    <3> QED
      BY <1>2, <2>4, <3>1
  <2> QED
    BY <2>3, <2>4
<1>15. Tells("route", all, from, k, r, route)
  BY <1>6, <1>8, <1>10 DEF Telling, Tells
<1>16. Tells("expert", all, from, k, a + 1, accessed \cup {e.expert})
  BY <1>5, <1>11, <1>13 DEF Tells
<1>17. Rising(all, Cell("expert", all, from, k))
  BY <1>11, <1>14
<1>18. ASSUME NEW j \in 0..(k - 1) PROVE Agree(all, from, j)
  <2>1. Agree(h, from, j)
    BY DEF Telling
  <2> QED
    BY <1>5, <1>8, <1>10, <2>1 DEF Agree
<1>19. Telling(all, from, k, r, route, a + 1, accessed \cup {e.expert})
  BY <1>15, <1>16, <1>17, <1>18 DEF Telling
<1> QED
  BY <1>19 DEF all

\* A token that is told of whole, the same ids as routed and as accessed, is
\* one more, and of the next nothing is told.
LEMMA TellNext ==
    ASSUME NEW S, NEW h \in Seq(S), NEW from \in Nat \ {0}, NEW k \in Nat, NEW ids,
           Telling(h, from, k, TopK, ids, TopK, ids)
    PROVE  Telling(h, from, k + 1, 0, {}, 0, {})
<1>1. TopK \in Nat /\ TopK * (k + 1) = TopK * k + TopK /\ TopK * k \in Nat
  BY IdsFinite
<1>2. ASSUME NEW t, Cardinality(Events(t, h, from)) = TopK * k + TopK
      PROVE  Tells(t, h, from, k + 1, 0, {}) /\ Cell(t, h, from, k + 1) = {}
  <2> DEFINE at == Events(t, h, from)
  <2>1. \A i \in at : Place(at, i) \in 1..(TopK * (k + 1))
    BY <1>1, <1>2, EventsWithin
  <2>2. \A i \in at : Place(at, i) - 1 \in Nat /\ Place(at, i) - 1 < TopK * (k + 1)
    BY <1>1, <2>1
  <2>3. \A i \in at : (Place(at, i) - 1) \div TopK < k + 1
    BY <2>2, TokenBelow
  <2>4. \A i \in at : (Place(at, i) - 1) \div TopK # k + 1
    BY <2>3
  <2>5. Cell(t, h, from, k + 1) = {}
    BY <2>4 DEF Cell, Block
  <2>6. Cardinality(at) = TopK * (k + 1) + 0
    BY <1>1, <1>2
  <2> QED
    BY <2>5, <2>6 DEF Tells, NamedIn
<1>3. /\ Tells("route", h, from, k + 1, 0, {})
      /\ Tells("expert", h, from, k + 1, 0, {}) /\ Cell("expert", h, from, k + 1) = {}
  BY <1>2 DEF Telling, Tells
<1>4. Agree(h, from, k)
  BY DEF Telling, Tells, Agree
<1>5. \A j \in 0..(k + 1 - 1) : j = k \/ j \in 0..(k - 1)
  OBVIOUS
<1> QED
  BY <1>3, <1>4, <1>5 DEF Telling, Rising
-----------------------------------------------------------------------------
(* The invariant of a call. *)

Routing == {"router", "record"}
Working == {"expert", "gate", "up", "down"}
Sharing == {"shared", "shared_up", "shared_down", "shared_gate_weight", "write"}

\* The ids of a route, and the experts a sum has.
IdsOf(route) == {route[i] : i \in 1..TopK}
Added(of) == {of[i][1] : i \in 1..Len(of)}

\* The accounts and the history, and those the call began with.
Accounted ==
    /\ "expert" \in DOMAIN metrics /\ metrics["expert"] \in Nat
    /\ before \in [experts : Nat, events : Nat]
    /\ \E S : history \in Seq(S)
    /\ before.events <= Len(history)

\* The route a token is computed with: different experts.
Chosen == /\ selected \in [1..TopK -> ExpertIds]
          /\ \A i, j \in 1..TopK : selected[i] = selected[j] => i = j

\* The sum has the route's experts below a bound, ascending, each with the
\* weight of its own place.
SumsBelow(of, route, bound) ==
    /\ of \in Seq(ExpertIds \X (1..TopK))
    /\ Added(of) = {e \in IdsOf(route) : e < bound}
    /\ \A i \in 1..Len(of) : route[of[i][2]] = of[i][1]
    /\ \A i, j \in 1..Len(of) : i < j => of[i][1] < of[j][1]

\* What is told and charged of a call in which k tokens are complete, and of
\* the next a route, so many accesses and so many requests for experts.
Told(k, r, route, a, accessed, requests) ==
    /\ Telling(history, before.events + 1, k, r, route, a, accessed)
    /\ metrics["expert"] = before.experts + 3 * (TopK * k) + requests

CallInv ==
    /\ pc \in Routing \cup Working \cup Sharing => token \in Nat /\ tokens \in Nat /\ token < tokens
    /\ pc = "done" => token = tokens /\ tokens \in Nat
    /\ pc = "record" => Route(probs, selected)
    /\ pc \in Working \cup Sharing => Chosen
    /\ pc \in Working => expert \in Nat /\ SumsBelow(sum, selected, expert)
    /\ pc \in {"gate", "up", "down"} => expert \in IdsOf(selected)
    /\ pc \in Sharing => SumsBelow(sum, selected, ExpertCount)
    /\ pc \in Routing \cup {"done"} => Told(token, 0, {}, 0, {}, 0)
    /\ pc \in {"expert", "gate"} =>
         Told(token, TopK, IdsOf(selected), Len(sum), Added(sum), 3 * Len(sum))
    /\ pc \in {"up", "down"} =>
         Told(token, TopK, IdsOf(selected), Len(sum) + 1, Added(sum) \cup {expert},
               3 * Len(sum) + (IF pc = "up" THEN 1 ELSE 2))
    /\ pc \in Sharing =>
         Told(token, TopK, IdsOf(selected), TopK, IdsOf(selected), 3 * TopK)

OutputInv == /\ \E S : output \in Seq(S)
             /\ OutputOfRoute

Stages == Routing \cup Working \cup Sharing \cup {"idle", "done", "failed"}

MoeInv == pc \in Stages /\ Accounted /\ CallInv /\ OutputInv
-----------------------------------------------------------------------------
(* What a request and a recorded route do to the accounts and the history. *)

LEMMA SeqWiden ==
    ASSUME NEW S, NEW T, S \subseteq T, NEW s \in Seq(S)
    PROVE  s \in Seq(T)
<1>1. Len(s) \in Nat /\ s \in [1..Len(s) -> S]
  BY LenProperties
<1>2. s \in [1..Len(s) -> T]
  BY <1>1
<1> QED
  BY <1>1, <1>2, SegmentSeq

LEMMA Requested ==
    ASSUME Accounted, NEW s, NEW part, NEW e, Linear(s, part, e), UNCHANGED before
    PROVE  /\ Accounted'
           /\ metrics'["expert"] = metrics["expert"] + (IF e = NoExpert THEN 0 ELSE 1)
           /\ e = NoExpert \/ part # "gate" =>
                \A k, r, route, a, accessed :
                  Telling(history, before.events + 1, k, r, route, a, accessed)
                    => Telling(history', before.events + 1, k, r, route, a, accessed)
           /\ e # NoExpert /\ part = "gate" =>
                \A k \in Nat : \A r, route, accessed : \A a \in Nat :
                  Telling(history, before.events + 1, k, r, route, a, accessed)
                    => (a < TopK /\ (\A d \in accessed : d < e)
                         => Telling(history', before.events + 1, k, r, route, a + 1, accessed \cup {e}))
<1> DEFINE ev == [kind |-> "linear", tensor |-> s, expert |-> e, part |-> part]
           kinds == IF e = NoExpert THEN {"linear"} ELSE {"linear", "expert"}
<1>1. /\ history' = Append(history, ev)
      /\ metrics' = [k \in DOMAIN metrics |->
                       IF k = "bytes" THEN metrics[k] + Bytes("linear", s)
                       ELSE IF k \in kinds THEN metrics[k] + 1 ELSE metrics[k]]
  BY DEF Linear, Serve, Charge
<1>2. ev.kind = "linear" /\ ev.expert = e /\ ev.part = part
  OBVIOUS
<1>3. "expert" \in DOMAIN metrics /\ metrics["expert"] \in Nat
  BY DEF Accounted
<1>4. "expert" \in kinds <=> e # NoExpert
  OBVIOUS
<1> HIDE DEF kinds
<1>5. /\ "expert" \in DOMAIN metrics'
      /\ metrics'["expert"] = metrics["expert"] + (IF e = NoExpert THEN 0 ELSE 1)
      /\ metrics'["expert"] \in Nat
  <2>1. DOMAIN metrics' = DOMAIN metrics
    BY <1>1
  <2>2. metrics'["expert"] = IF "expert" \in kinds THEN metrics["expert"] + 1
                                                   ELSE metrics["expert"]
    BY <1>1, <1>3
  <2> QED
    BY <1>3, <1>4, <2>1, <2>2
<1> HIDE DEF ev
<1>6. PICK S : history \in Seq(S)
  BY DEF Accounted
<1> DEFINE T == S \cup {ev}
<1>7. history \in Seq(T) /\ ev \in T
  <2>1. S \subseteq T
    OBVIOUS
  <2> QED
    BY <1>6, <2>1, SeqWiden
<1> HIDE DEF T
<1>8. <<ev>> \in Seq(T) /\ Len(<<ev>>) = 1 /\ <<ev>>[1] = ev /\ history' = history \o <<ev>>
      /\ \A m \in 1..Len(<<ev>>) : <<ev>>[m] = ev
  <2>1. <<ev>> \in Seq(T) /\ Len(<<ev>>) = 1 /\ <<ev>>[1] = ev
    BY <1>7
  <2>2. history' = history \o <<ev>>
    BY <1>1, <1>7, AppendIsConcat
  <2>3. \A m \in 1..Len(<<ev>>) : m = 1
    BY <2>1
  <2> QED
    BY <2>1, <2>2, <2>3
<1>9. history' \in Seq(T) /\ Len(history') = Len(history) + 1 /\ Len(history) \in Nat
  BY <1>7, <1>8, Lengthened
<1>10. before.events \in Nat /\ before.events <= Len(history)
       /\ before' = before
  BY DEF Accounted
<1>11. Accounted'
  BY <1>5, <1>9, <1>10 DEF Accounted
<1> DEFINE from == before.events + 1
<1>12. from \in Nat \ {0} /\ from <= Len(history) + 1
  BY <1>9, <1>10
<1> HIDE DEF from
<1>13. ASSUME e = NoExpert \/ part # "gate",
              NEW k, NEW r, NEW route, NEW a, NEW accessed,
              Telling(history, from, k, r, route, a, accessed)
       PROVE  Telling(history', from, k, r, route, a, accessed)
  <2>1. ~Notes("route", ev) /\ ~Notes("expert", ev)
    BY <1>2, <1>13 DEF Notes
  <2> DEFINE more == <<ev>>
  <2>2. more \in Seq(T) /\ history' = history \o more
        /\ \A m \in 1..Len(more) : ~Notes("route", more[m]) /\ ~Notes("expert", more[m])
    <3>1. \A m \in 1..Len(more) : more[m] = ev
      BY <1>8
    <3> HIDE DEF more
    <3>2. \A m \in 1..Len(more) : ~Notes("route", more[m]) /\ ~Notes("expert", more[m])
      BY <2>1, <3>1
    <3> QED
      BY <1>8, <3>2 DEF more
  <2> HIDE DEF more
  <2>3. Telling(history \o more, from, k, r, route, a, accessed)
    BY <1>7, <1>12, <1>13, <2>2, TellStill
  <2> QED
    BY <2>2, <2>3
<1>14. ASSUME e # NoExpert, part = "gate",
              NEW k \in Nat, NEW r, NEW route, NEW accessed, NEW a \in Nat,
              a < TopK, \A d \in accessed : d < e,
              Telling(history, from, k, r, route, a, accessed)
       PROVE  Telling(history', from, k, r, route, a + 1, accessed \cup {e})
  <2>1. Notes("expert", ev)
    BY <1>2, <1>14 DEF Notes
  <2>2. Telling(history \o <<ev>>, from, k, r, route, a + 1, accessed \cup {ev.expert})
    <3>1. \A d \in accessed : d < ev.expert
      BY <1>2, <1>14
    <3> QED
      BY <1>7, <1>12, <1>14, <2>1, <3>1, TellAccess
  <2> QED
    BY <1>2, <1>8, <2>2
<1> QED
  <2>1. e = NoExpert \/ part # "gate" =>
          \A k, r, route, a, accessed :
            Telling(history, from, k, r, route, a, accessed)
              => Telling(history', from, k, r, route, a, accessed)
    BY ONLY <1>13
  <2>2. e # NoExpert /\ part = "gate" =>
          \A k \in Nat : \A r, route, accessed : \A a \in Nat :
            Telling(history, from, k, r, route, a, accessed)
              => (a < TopK /\ (\A d \in accessed : d < e)
                   => Telling(history', from, k, r, route, a + 1, accessed \cup {e}))
    BY ONLY <1>14, Zenon
  <2> QED
    BY ONLY <1>5, <1>11, <2>1, <2>2 DEF from

LEMMA RouteRecorded ==
    ASSUME Accounted, Chosen, RecordRoute(0, selected), status' = "ok", UNCHANGED before
    PROVE  /\ Accounted'
           /\ metrics'["expert"] = metrics["expert"]
           /\ \A k \in Nat :
                Telling(history, before.events + 1, k, 0, {}, 0, {})
                  => Telling(history', before.events + 1, k, TopK, IdsOf(selected), 0, {})
<1>1. selected \in Seq(ExpertIds) /\ Len(selected) = TopK /\ TopK \in Nat
  BY IdsFinite, SegmentSeq DEF Chosen
<1> DEFINE bad == {i \in 1..Len(selected) : selected[i] \notin Routable}
           good == IF bad = {} THEN selected
                   ELSE SubSeq(selected, 1, (CHOOSE i \in bad : \A j \in bad : i <= j) - 1)
           more == [i \in 1..Len(good) |->
                     [kind |-> "route", tensor |-> 0, expert |-> good[i], part |-> "route"]]
<1>2. history' = history \o more /\ UNCHANGED metrics
      /\ status' = IF bad = {} THEN "ok" ELSE "failed"
  BY DEF RecordRoute
<1> HIDE DEF bad
<1>3. good = selected
  BY <1>2
<1> HIDE DEF good
<1>4. /\ DOMAIN more = 1..TopK
      /\ \A m \in 1..TopK : more[m].kind = "route" /\ more[m].expert = selected[m]
  BY <1>1, <1>3
<1>5. PICK S : history \in Seq(S)
  BY DEF Accounted
<1> DEFINE T == S \cup {more[m] : m \in 1..TopK}
<1> HIDE DEF more
<1>6. more \in Seq(T) /\ Len(more) = TopK
  <2>1. more = [m \in 1..TopK |-> more[m]]
    BY <1>1, <1>3 DEF more
  <2>2. more \in [1..TopK -> T]
    BY <2>1
  <2> QED
    BY <1>1, <2>2, SegmentSeq
<1>7. history \in Seq(T)
  <2>1. S \subseteq T
    OBVIOUS
  <2> QED
    BY <1>5, <2>1, SeqWiden
<1> HIDE DEF T
<1>8. history' \in Seq(T) /\ Len(history') = Len(history) + TopK /\ Len(history) \in Nat
  BY <1>2, <1>6, <1>7, Lengthened
<1>9. before.events \in Nat /\ before.events <= Len(history) /\ before' = before
  BY DEF Accounted
<1>10. Accounted'
  BY <1>1, <1>2, <1>8, <1>9 DEF Accounted
<1> DEFINE from == before.events + 1
<1>11. from \in Nat \ {0} /\ from <= Len(history) + 1
  BY <1>8, <1>9
<1> HIDE DEF from
<1>12. ASSUME NEW k \in Nat, Telling(history, from, k, 0, {}, 0, {})
       PROVE  Telling(history', from, k, TopK, IdsOf(selected), 0, {})
  <2>1. Telling(history \o more, from, k, TopK, {more[m].expert : m \in 1..TopK}, 0, {})
    BY <1>4, <1>6, <1>7, <1>11, <1>12, TellRoutes
  <2>2. {more[m].expert : m \in 1..TopK} = IdsOf(selected)
    BY <1>4 DEF IdsOf
  <2> QED
    BY <1>2, <2>1, <2>2
<1> QED
  BY <1>2, <1>10, <1>12 DEF from
-----------------------------------------------------------------------------
(* The steps of a call. *)

LEMMA Between ==
    ASSUME NEW a \in Nat, NEW b \in Nat, NEW c \in Nat, ~(a < b), a < c
    PROVE  a \in b..(c - 1)
OBVIOUS

\* Different experts are as many as their places; a sum of some of them too.
LEMMA ChosenCount ==
    ASSUME Chosen
    PROVE  /\ IdsOf(selected) \subseteq ExpertIds /\ IsFiniteSet(IdsOf(selected))
           /\ Cardinality(IdsOf(selected)) = TopK
           /\ \A e : e \in IdsOf(selected) <=> IsSelected(e)
<1>1. TopK \in Nat /\ selected \in [1..TopK -> ExpertIds]
      /\ \A i, j \in 1..TopK : selected[i] = selected[j] => i = j
  BY IdsFinite DEF Chosen
<1>2. IsFiniteSet(Range(selected)) /\ Cardinality(Range(selected)) = TopK
  BY <1>1, ValuesCount
<1>3. Range(selected) = IdsOf(selected)
  BY <1>1 DEF Range, IdsOf
<1> QED
  BY <1>1, <1>2, <1>3 DEF IdsOf, IsSelected

LEMMA SumCount ==
    ASSUME Chosen, NEW of, NEW bound, SumsBelow(of, selected, bound)
    PROVE  /\ Len(of) \in Nat /\ Added(of) \subseteq IdsOf(selected)
           /\ IsFiniteSet(Added(of)) /\ Cardinality(Added(of)) = Len(of)
<1>1. /\ of \in Seq(ExpertIds \X (1..TopK))
      /\ \A i, j \in 1..Len(of) : i < j => of[i][1] < of[j][1]
      /\ Added(of) \subseteq IdsOf(selected)
  BY DEF SumsBelow
<1> DEFINE n == Len(of)
           f == [i \in 1..n |-> of[i][1]]
<1>2. n \in Nat /\ \A i \in 1..n : of[i] \in ExpertIds \X (1..TopK)
  BY <1>1, LenProperties, ElementOfSeq
<1> HIDE DEF n
<1>3. \A i \in 1..n : of[i][1] \in ExpertIds /\ of[i][1] \in Nat
  BY <1>2, IdsFinite
<1>4. f \in [1..n -> ExpertIds]
  BY <1>3
<1>5. ASSUME NEW i \in 1..n, NEW j \in 1..n, f[i] = f[j] PROVE i = j
  <2>1. of[i][1] = of[j][1] /\ of[i][1] \in Nat
    BY <1>3, <1>5
  <2>2. ~(i < j) /\ ~(j < i)
    BY <1>1, <2>1 DEF n
  <2> QED
    BY <1>2, <2>2
<1>6. Range(f) = Added(of)
  BY DEF Range, Added, n
<1> HIDE DEF f
<1>7. IsFiniteSet(Range(f)) /\ Cardinality(Range(f)) = n
  BY <1>2, <1>4, <1>5, ValuesCount
<1> QED
  BY <1>1, <1>2, <1>6, <1>7 DEF n

LEMMA BeginInv ==
    ASSUME MoeInv, NEW n \in 1..MaxTokens, Begin(n)
    PROVE  MoeInv'
<1>1. /\ pc' = "router" /\ tokens' = n /\ token' = 0 /\ output' = << >>
      /\ before' = [experts |-> metrics.expert, events |-> Len(history)]
      /\ UNCHANGED <<metrics, history>>
  BY DEF Begin, vars
<1>2. PICK S : history \in Seq(S)
  BY DEF MoeInv, Accounted
<1>3. Len(history) \in Nat /\ "expert" \in DOMAIN metrics /\ metrics["expert"] \in Nat
  BY <1>2, LenProperties DEF MoeInv, Accounted
<1>4. Accounted'
  BY <1>1, <1>2, <1>3 DEF Accounted
<1>5. Told(0, 0, {}, 0, {}, 0)'
  <2>1. Telling(history, Len(history) + 1, 0, 0, {}, 0, {})
    BY <1>2, TellNothing
  <2>2. before'.events = Len(history) /\ before'.experts = metrics["expert"]
    BY <1>1
  <2>3. TopK * 0 = 0
    BY IdsFinite
  <2> QED
    BY <1>1, <1>3, <2>1, <2>2, <2>3 DEF Told
<1>6. n \in Nat /\ 0 < n
  BY MoeAssumption
<1>7. CallInv'
  BY <1>1, <1>5, <1>6 DEF CallInv, Routing, Working, Sharing
<1>8. OutputInv'
  <2>1. << >> \in Seq({}) /\ DOMAIN << >> = {}
    OBVIOUS
  <2> QED
    BY <1>1, <2>1 DEF OutputInv, OutputOfRoute
<1> QED
  BY <1>1, <1>4, <1>7, <1>8 DEF MoeInv, Stages, Routing

\* The outputs stand as long as none is written.
\* What OutputOfRoute says of a token.
Written(o) ==
    /\ {o.sum[i][1] : i \in DOMAIN o.sum} = {o.route[i] : i \in DOMAIN o.route}
    /\ \A i \in DOMAIN o.sum : o.route[o.sum[i][2]] = o.sum[i][1]
    /\ \A i \in 1..(Len(o.sum) - 1) : o.sum[i][1] < o.sum[i + 1][1]

LEMMA OutputsWritten ==
    /\ OutputOfRoute <=> \A t \in DOMAIN output : Written(output[t])
    /\ OutputOfRoute' <=> \A t \in DOMAIN output' : Written(output'[t])
BY DEF OutputOfRoute, Written

LEMMA OutputStays == OutputInv /\ UNCHANGED output => OutputInv'
<1> SUFFICES ASSUME OutputInv, output' = output PROVE OutputInv'
  OBVIOUS
<1>1. (\E S : output \in Seq(S))'
  BY DEF OutputInv
<1>2. OutputOfRoute'
  BY OutputsWritten DEF OutputInv
<1> QED
  BY <1>1, <1>2 DEF OutputInv

LEMMA RouterInv ==
    ASSUME MoeInv, Router
    PROVE  MoeInv'
<1>1. /\ pc = "router" /\ pc' = "record"
      /\ Linear(Tensor("router"), "whole", NoExpert)
      /\ UNCHANGED <<tokens, token, output, before>>
  BY DEF Router
<1>2. Route(probs', selected')
  <2>1. PICK p \in [ExpertIds -> Probability] : probs' = p /\ selected' = SelectTopK(p)
    BY DEF Router
  <2> QED
    BY <2>1, RouteIs
<1>3. /\ Accounted' /\ metrics'["expert"] = metrics["expert"] + 0
      /\ \A k, r, route, a, accessed :
           Telling(history, before.events + 1, k, r, route, a, accessed)
             => Telling(history', before.events + 1, k, r, route, a, accessed)
  BY <1>1, Requested DEF MoeInv
<1>4. Told(token, 0, {}, 0, {}, 0) /\ token \in Nat /\ tokens \in Nat /\ token < tokens
      /\ metrics["expert"] \in Nat
  BY <1>1 DEF MoeInv, CallInv, Routing, Accounted
<1>5. Told(token, 0, {}, 0, {}, 0)'
  BY <1>1, <1>3, <1>4 DEF Told
<1>6. CallInv'
  BY <1>1, <1>2, <1>4, <1>5 DEF CallInv, Routing, Working, Sharing
<1> QED
  BY <1>1, <1>3, <1>6, OutputStays DEF MoeInv, Stages, Routing

LEMMA RecordInv ==
    ASSUME MoeInv, Record
    PROVE  MoeInv'
<1>1. /\ pc = "record" /\ pc' = "expert" /\ RecordRoute(0, selected) /\ status' = "ok"
      /\ expert' = 0 /\ sum' = << >>
      /\ UNCHANGED <<tokens, token, selected, output, before>>
  BY DEF Record
<1>2. Chosen
  BY <1>1 DEF MoeInv, CallInv, Route, Chosen
<1>3. token \in Nat /\ tokens \in Nat /\ token < tokens /\ metrics["expert"] \in Nat
      /\ Told(token, 0, {}, 0, {}, 0)
  BY <1>1 DEF MoeInv, CallInv, Routing, Accounted
<1>4. /\ Accounted' /\ metrics'["expert"] = metrics["expert"]
      /\ \A k \in Nat :
           Telling(history, before.events + 1, k, 0, {}, 0, {})
             => Telling(history', before.events + 1, k, TopK, IdsOf(selected), 0, {})
  BY <1>1, <1>2, RouteRecorded DEF MoeInv
<1>5. Len(sum') = 0 /\ Added(sum') = {} /\ sum' \in Seq(ExpertIds \X (1..TopK))
  BY <1>1 DEF Added
<1>6. IdsOf(selected)' = IdsOf(selected) /\ Chosen'
  BY <1>1, <1>2 DEF IdsOf, Chosen
<1>7. SumsBelow(sum', selected, 0)
  <2>1. \A e \in IdsOf(selected) : ~(e < 0)
    BY <1>2, ChosenCount, IdsFinite
  <2> QED
    BY <1>5, <2>1 DEF SumsBelow
<1>8. Told(token, TopK, IdsOf(selected), 0, {}, 0)'
  BY <1>1, <1>3, <1>4, <1>6 DEF Told
<1>9. Told(token, TopK, IdsOf(selected), Len(sum), Added(sum), 3 * Len(sum))'
  <2>1. 3 * Len(sum') = 0
    BY <1>5
  <2> QED
    BY <1>5, <1>8, <2>1
<1>10. CallInv'
  <2>1. (expert \in Nat /\ SumsBelow(sum, selected, expert))'
    BY <1>1, <1>7 DEF SumsBelow, IdsOf, Added
  <2> QED
    BY <1>1, <1>3, <1>6, <1>9, <2>1 DEF CallInv, Routing, Working, Sharing
<1> QED
  BY <1>1, <1>4, <1>10, OutputStays DEF MoeInv, Stages, Working

LEMMA NextInv ==
    ASSUME MoeInv, NextExpert
    PROVE  MoeInv'
<1>1. /\ pc = "expert"
      /\ UNCHANGED <<metrics, history, tokens, token, selected, sum, output, before>>
  BY DEF NextExpert, vars
<1>2. /\ token \in Nat /\ tokens \in Nat /\ token < tokens /\ Chosen
      /\ expert \in Nat /\ SumsBelow(sum, selected, expert)
      /\ Told(token, TopK, IdsOf(selected), Len(sum), Added(sum), 3 * Len(sum))
  BY <1>1 DEF MoeInv, CallInv, Working
<1>3. Accounted' /\ OutputInv'
  <2>1. Accounted'
    BY <1>1 DEF MoeInv, Accounted
  <2> QED
    BY <1>1, <2>1, OutputStays DEF MoeInv
<1>4. /\ Chosen'
      /\ Told(token, TopK, IdsOf(selected), Len(sum), Added(sum), 3 * Len(sum))'
  BY <1>1, <1>2 DEF Chosen, Told, IdsOf, Added
<1>5. CASE \E e \in ExpertIds : e >= expert /\ IsSelected(e)
  <2> DEFINE next(e) == /\ e >= expert /\ IsSelected(e)
                        /\ \A d \in expert..(e - 1) : ~IsSelected(d)
  <2>1. \E e \in ExpertIds : next(e)
    <3> DEFINE left == {e \in ExpertIds : e >= expert /\ IsSelected(e)}
    <3>1. left \in SUBSET Nat /\ left # {}
      BY <1>5, IdsFinite
    <3>2. PICK e \in left : \A d \in left : e <= d
      BY <3>1, Least
    <3>3. ASSUME NEW d \in expert..(e - 1) PROVE ~IsSelected(d)
      <4>1. d \in Nat /\ d >= expert /\ ~(e <= d)
        BY <1>2, <3>1
      <4>2. IsSelected(d) => d \in ExpertIds
        BY <1>2, ChosenCount
      <4> QED
        BY <3>2, <4>1, <4>2
    <3> QED
      BY <3>2, <3>3
  <2>2. expert' = (CHOOSE e \in ExpertIds : next(e)) /\ pc' = "gate"
    BY <1>5 DEF NextExpert
  <2>3. expert' \in ExpertIds /\ next(expert')
    BY <2>1, <2>2
  <2>4. expert' \in IdsOf(selected) /\ expert' \in Nat
    BY <1>2, <2>3, ChosenCount, IdsFinite
  <2>5. {e \in IdsOf(selected) : e < expert'} = {e \in IdsOf(selected) : e < expert}
    <3>1. \A e \in IdsOf(selected) : e \in Nat /\ IsSelected(e)
      BY <1>2, ChosenCount, IdsFinite
    <3>2. ASSUME NEW e \in IdsOf(selected) PROVE e < expert' <=> e < expert
      <4>1. e < expert => e < expert'
        BY <1>2, <2>3, <2>4, <3>1
      <4>2. ASSUME ~(e < expert), e < expert' PROVE FALSE
        <5>1. e \in Nat /\ expert \in Nat /\ expert' \in Nat /\ IsSelected(e)
          BY <1>2, <2>4, <3>1
        <5>2. ~(e < expert) /\ e < expert'
          BY <4>2
        <5>3. e \in expert..(expert' - 1)
          BY ONLY <5>1, <5>2, Between
        <5> QED
          BY <2>3, <5>1, <5>3
      <4> QED
        BY <4>1, <4>2
    <3> QED
      BY <3>2
  <2>6. SumsBelow(sum, selected, expert')
    BY <1>2, <2>5 DEF SumsBelow
  <2>7. (expert \in Nat /\ SumsBelow(sum, selected, expert) /\ expert \in IdsOf(selected))'
    BY <1>1, <2>4, <2>6 DEF SumsBelow, IdsOf, Added
  <2>8. CallInv'
    BY <1>1, <1>2, <1>4, <2>2, <2>7 DEF CallInv, Routing, Working, Sharing
  <2> QED
    BY <1>3, <2>2, <2>8 DEF MoeInv, Stages, Working
<1>6. CASE ~\E e \in ExpertIds : e >= expert /\ IsSelected(e)
  <2>1. pc' = "shared"
    BY <1>6 DEF NextExpert
  <2>2. \A e \in IdsOf(selected) : e \in 0..(ExpertCount - 1) /\ e < expert /\ e < ExpertCount
    <3> SUFFICES ASSUME NEW e \in IdsOf(selected)
                 PROVE  e \in 0..(ExpertCount - 1) /\ e < expert /\ e < ExpertCount
      OBVIOUS
    <3>1. e \in ExpertIds /\ IsSelected(e) /\ e \in Nat /\ e \in 0..(ExpertCount - 1)
      BY <1>2, ChosenCount, IdsFinite
    <3>2. ~(e >= expert)
      BY <1>6, <3>1
    <3> QED
      BY <1>2, <3>1, <3>2, IdsFinite
  <2>3. Added(sum) = IdsOf(selected) /\ SumsBelow(sum, selected, ExpertCount)
    BY <1>2, <2>2 DEF SumsBelow
  <2>4. Len(sum) = TopK
    BY <1>2, <2>3, ChosenCount, SumCount
  <2>5. Told(token, TopK, IdsOf(selected), TopK, IdsOf(selected), 3 * TopK)'
    <3>1. Told(token, TopK, IdsOf(selected), TopK, IdsOf(selected), 3 * TopK)
      BY <1>2, <2>3, <2>4
    <3> QED
      BY <1>1, <3>1 DEF Told, IdsOf
  <2>6. SumsBelow(sum, selected, ExpertCount)'
    BY <1>1, <2>3 DEF SumsBelow, IdsOf, Added
  <2>7. CallInv'
    BY <1>1, <1>2, <1>4, <2>1, <2>5, <2>6 DEF CallInv, Routing, Working, Sharing
  <2> QED
    BY <1>3, <2>1, <2>7 DEF MoeInv, Stages, Sharing
<1> QED
  BY <1>5, <1>6

\* While an expert is computed: it is one of the route's, not yet in the sum.
LEMMA InProgress ==
    ASSUME MoeInv, pc \in {"gate", "up", "down"}
    PROVE  /\ token \in Nat /\ tokens \in Nat /\ token < tokens /\ Chosen
           /\ expert \in Nat /\ expert \in ExpertIds /\ expert # NoExpert
           /\ IsSelected(expert) /\ expert \in IdsOf(selected)
           /\ SumsBelow(sum, selected, expert)
           /\ Len(sum) \in Nat /\ Len(sum) < TopK
           /\ \A d \in Added(sum) : d < expert
           /\ metrics["expert"] \in Nat
           /\ before.experts \in Nat
<1>1. /\ token \in Nat /\ tokens \in Nat /\ token < tokens /\ Chosen
      /\ expert \in Nat /\ SumsBelow(sum, selected, expert) /\ expert \in IdsOf(selected)
      /\ metrics["expert"] \in Nat /\ before.experts \in Nat
  BY DEF MoeInv, CallInv, Working, Accounted
<1>2. /\ IdsOf(selected) \subseteq ExpertIds /\ IsFiniteSet(IdsOf(selected))
      /\ Cardinality(IdsOf(selected)) = TopK /\ IsSelected(expert)
  BY <1>1, ChosenCount
<1>3. expert # NoExpert
  BY <1>1, <1>2, MoeAssumption DEF ExpertIds
<1>4. \A d \in Added(sum) : d < expert
  BY <1>1 DEF SumsBelow
<1>5. /\ Len(sum) \in Nat /\ Added(sum) \subseteq IdsOf(selected)
      /\ IsFiniteSet(Added(sum)) /\ Cardinality(Added(sum)) = Len(sum)
  BY <1>1, SumCount
<1>6. Len(sum) < TopK
  <2> DEFINE more == Added(sum) \cup {expert}
  <2>1. expert \notin Added(sum)
    BY <1>1, <1>4
  <2>2. Cardinality(more) = Len(sum) + 1
    BY <1>5, <2>1, FS_AddElement
  <2>3. Cardinality(more) <= TopK
    <3>1. more \subseteq IdsOf(selected)
      BY <1>1, <1>5
    <3> HIDE DEF more
    <3> QED
      BY <1>2, <3>1, FS_Subset
  <2> QED
    BY <1>5, <2>2, <2>3, IdsFinite
<1> QED
  BY <1>1, <1>2, <1>3, <1>4, <1>5, <1>6

LEMMA GateInv ==
    ASSUME MoeInv, Gate
    PROVE  MoeInv'
<1>1. /\ pc = "gate" /\ pc' = "up" /\ Linear(Tensor("gate_up"), "gate", expert)
      /\ UNCHANGED <<tokens, token, selected, expert, sum, output, before>>
  BY DEF Gate
<1>2. /\ token \in Nat /\ tokens \in Nat /\ token < tokens /\ Chosen
      /\ expert \in Nat /\ expert # NoExpert /\ expert \in IdsOf(selected)
      /\ SumsBelow(sum, selected, expert) /\ Len(sum) \in Nat /\ Len(sum) < TopK
      /\ (\A d \in Added(sum) : d < expert)
      /\ metrics["expert"] \in Nat /\ before.experts \in Nat
  BY <1>1, InProgress
<1>3. Told(token, TopK, IdsOf(selected), Len(sum), Added(sum), 3 * Len(sum))
  BY <1>1 DEF MoeInv, CallInv
<1>4. /\ Accounted' /\ metrics'["expert"] = metrics["expert"] + 1
      /\ Telling(history', before.events + 1, token, TopK, IdsOf(selected),
                 Len(sum) + 1, Added(sum) \cup {expert})
  <2>1. /\ Accounted'
        /\ metrics'["expert"] = metrics["expert"] + (IF expert = NoExpert THEN 0 ELSE 1)
        /\ expert # NoExpert =>
             \A k \in Nat : \A r, route, accessed : \A a \in Nat :
               Telling(history, before.events + 1, k, r, route, a, accessed)
                 => (a < TopK /\ (\A d \in accessed : d < expert)
                      => Telling(history', before.events + 1, k, r, route, a + 1,
                                 accessed \cup {expert}))
    BY <1>1, Requested DEF MoeInv
  <2> QED
    BY <1>2, <1>3, <2>1 DEF Told
<1>5. (expert \in Nat /\ SumsBelow(sum, selected, expert) /\ expert \in IdsOf(selected)
        /\ Chosen)'
  BY <1>1, <1>2 DEF SumsBelow, IdsOf, Added, Chosen
<1>6. Told(token, TopK, IdsOf(selected), Len(sum) + 1, Added(sum) \cup {expert},
           3 * Len(sum) + 1)'
  <2>1. metrics'["expert"] = before.experts + 3 * (TopK * token) + (3 * Len(sum) + 1)
    <3>1. metrics["expert"] = before.experts + 3 * (TopK * token) + 3 * Len(sum)
      BY <1>3 DEF Told
    <3>2. TopK * token \in Nat
      BY <1>2, IdsFinite
    <3> HIDE DEF IdsOf
    <3> QED
      BY <1>2, <1>4, <3>1, <3>2
  <2> QED
    BY <1>1, <1>4, <2>1 DEF Told, IdsOf, Added
<1>7. CallInv'
  <2>1. 3 * Len(sum') + (IF pc' = "up" THEN 1 ELSE 2) = 3 * Len(sum') + 1
    BY <1>1
  <2> QED
    BY <1>1, <1>2, <1>5, <1>6, <2>1 DEF CallInv, Routing, Working, Sharing
<1> QED
  BY <1>1, <1>4, <1>7, OutputStays DEF MoeInv, Stages, Working

LEMMA UpInv ==
    ASSUME MoeInv, Up
    PROVE  MoeInv'
<1>1. /\ pc = "up" /\ pc' = "down" /\ Linear(Tensor("gate_up"), "up", expert)
      /\ UNCHANGED <<tokens, token, selected, expert, sum, output, before>>
  BY DEF Up
<1>2. /\ token \in Nat /\ tokens \in Nat /\ token < tokens /\ Chosen
      /\ expert \in Nat /\ expert # NoExpert /\ expert \in IdsOf(selected)
      /\ SumsBelow(sum, selected, expert) /\ Len(sum) \in Nat
      /\ metrics["expert"] \in Nat /\ before.experts \in Nat
  BY <1>1, InProgress
<1>3. Told(token, TopK, IdsOf(selected), Len(sum) + 1, Added(sum) \cup {expert},
           3 * Len(sum) + 1)
  BY <1>1 DEF MoeInv, CallInv
<1>4. /\ Accounted' /\ metrics'["expert"] = metrics["expert"] + 1
      /\ Telling(history', before.events + 1, token, TopK, IdsOf(selected),
                 Len(sum) + 1, Added(sum) \cup {expert})
  <2>1. /\ Accounted'
        /\ metrics'["expert"] = metrics["expert"] + (IF expert = NoExpert THEN 0 ELSE 1)
        /\ \A k, r, route, a, accessed :
             Telling(history, before.events + 1, k, r, route, a, accessed)
               => Telling(history', before.events + 1, k, r, route, a, accessed)
    BY <1>1, Requested DEF MoeInv
  <2> QED
    BY <1>2, <1>3, <2>1 DEF Told
<1>5. (expert \in Nat /\ SumsBelow(sum, selected, expert) /\ expert \in IdsOf(selected)
        /\ Chosen)'
  BY <1>1, <1>2 DEF SumsBelow, IdsOf, Added, Chosen
<1>6. Told(token, TopK, IdsOf(selected), Len(sum) + 1, Added(sum) \cup {expert},
           3 * Len(sum) + 2)'
  <2>1. metrics'["expert"] = before.experts + 3 * (TopK * token) + (3 * Len(sum) + 2)
    <3>1. metrics["expert"] = before.experts + 3 * (TopK * token) + (3 * Len(sum) + 1)
      BY <1>3 DEF Told
    <3>2. TopK * token \in Nat
      BY <1>2, IdsFinite
    <3> QED
      BY <1>2, <1>4, <3>1, <3>2
  <2> QED
    BY <1>1, <1>4, <2>1 DEF Told, IdsOf, Added
<1>7. CallInv'
  <2>1. 3 * Len(sum') + (IF pc' = "up" THEN 1 ELSE 2) = 3 * Len(sum') + 2
    BY <1>1
  <2> QED
    BY <1>1, <1>2, <1>5, <1>6, <2>1 DEF CallInv, Routing, Working, Sharing
<1> QED
  BY <1>1, <1>4, <1>7, OutputStays DEF MoeInv, Stages, Working

LEMMA DownInv ==
    ASSUME MoeInv, Down
    PROVE  MoeInv'
<1> DEFINE place == CHOOSE i \in DOMAIN selected : selected[i] = expert
           new == <<expert, place>>
           n == Len(sum)
<1>1. /\ pc = "down" /\ pc' = "expert" /\ Linear(Tensor("routed_down"), "whole", expert)
      /\ sum' = Append(sum, new) /\ expert' = expert + 1
      /\ UNCHANGED <<tokens, token, selected, output, before>>
  BY DEF Down
<1>2. /\ token \in Nat /\ tokens \in Nat /\ token < tokens /\ Chosen
      /\ expert \in Nat /\ expert \in ExpertIds /\ expert # NoExpert
      /\ IsSelected(expert) /\ expert \in IdsOf(selected)
      /\ SumsBelow(sum, selected, expert) /\ n \in Nat
      /\ (\A d \in Added(sum) : d < expert)
      /\ metrics["expert"] \in Nat /\ before.experts \in Nat
  BY <1>1, InProgress
<1>3. Told(token, TopK, IdsOf(selected), n + 1, Added(sum) \cup {expert}, 3 * n + 2)
  BY <1>1 DEF MoeInv, CallInv
<1>4. /\ Accounted' /\ metrics'["expert"] = metrics["expert"] + 1
      /\ Telling(history', before.events + 1, token, TopK, IdsOf(selected),
                 n + 1, Added(sum) \cup {expert})
  <2>1. /\ Accounted'
        /\ metrics'["expert"] = metrics["expert"] + (IF expert = NoExpert THEN 0 ELSE 1)
        /\ \A k, r, route, a, accessed :
             Telling(history, before.events + 1, k, r, route, a, accessed)
               => Telling(history', before.events + 1, k, r, route, a, accessed)
    BY <1>1, Requested DEF MoeInv
  <2> QED
    BY <1>2, <1>3, <2>1 DEF Told
<1>5. place \in 1..TopK /\ selected[place] = expert
  <2>1. DOMAIN selected = 1..TopK
    BY <1>2 DEF Chosen
  <2> QED
    BY <1>2, <2>1 DEF IsSelected
<1> HIDE DEF place
<1>6. new \in ExpertIds \X (1..TopK) /\ new[1] = expert /\ new[2] = place
  BY <1>2, <1>5
<1>7. sum \in Seq(ExpertIds \X (1..TopK))
  BY <1>2 DEF SumsBelow
<1> HIDE DEF new
<1>8. /\ sum' \in Seq(ExpertIds \X (1..TopK)) /\ Len(sum') = n + 1
      /\ \A i \in 1..n : sum'[i] = sum[i]
      /\ sum'[n + 1] = new
  BY <1>1, <1>6, <1>7, AppendProperties
<1> HIDE DEF n
<1>9. \A i : i \in 1..Len(sum') <=> i \in 1..n \/ i = n + 1
  BY <1>2, <1>8
<1>10. Added(sum') = Added(sum) \cup {expert}
  <2>1. Added(sum') = {sum'[i][1] : i \in 1..n} \cup {sum'[n + 1][1]}
    BY <1>9 DEF Added
  <2>2. {sum'[i][1] : i \in 1..n} = {sum[i][1] : i \in 1..n}
    BY <1>8
  <2>3. Added(sum) = {sum[i][1] : i \in 1..n}
    BY DEF Added, n
  <2> QED
    BY <1>6, <1>8, <2>1, <2>2, <2>3
<1>11. SumsBelow(sum', selected, expert + 1)
  <2>1. Added(sum') = {e \in IdsOf(selected) : e < expert + 1}
    <3>1. \A e \in IdsOf(selected) : e \in Nat
      BY <1>2, ChosenCount, IdsFinite
    <3>2. \A e \in IdsOf(selected) : e < expert + 1 <=> e < expert \/ e = expert
      BY <1>2, <3>1
    <3>3. Added(sum) = {e \in IdsOf(selected) : e < expert}
      BY <1>2 DEF SumsBelow
    <3> QED
      BY <1>2, <1>10, <3>2, <3>3
  <2>2. \A i \in 1..Len(sum') : selected[sum'[i][2]] = sum'[i][1]
    <3>1. \A i \in 1..n : selected[sum[i][2]] = sum[i][1]
      BY <1>2 DEF SumsBelow, n
    <3> QED
      BY <1>5, <1>6, <1>8, <1>9, <3>1
  <2>3. ASSUME NEW i \in 1..Len(sum'), NEW j \in 1..Len(sum'), i < j
        PROVE  sum'[i][1] < sum'[j][1]
    <3>1. i \in 1..n
      BY <1>2, <1>8, <1>9, <2>3
    <3>2. CASE j \in 1..n
      BY <1>2, <1>8, <2>3, <3>1, <3>2 DEF SumsBelow, n
    <3>3. CASE j = n + 1
      <4>1. sum[i][1] \in Added(sum)
        BY <3>1 DEF Added, n
      <4> QED
        BY <1>2, <1>6, <1>8, <3>1, <3>3, <4>1
    <3> QED
      BY <1>9, <3>2, <3>3
  <2> QED
    BY <1>8, <2>1, <2>2, <2>3 DEF SumsBelow
<1>12. (expert \in Nat /\ SumsBelow(sum, selected, expert) /\ Chosen)'
  <2>1. expert' \in Nat /\ SumsBelow(sum', selected', expert') /\ Chosen'
    BY <1>1, <1>2, <1>11 DEF Chosen
  <2> QED
    BY <2>1 DEF SumsBelow, IdsOf, Added
<1>13. Told(token, TopK, IdsOf(selected), Len(sum), Added(sum), 3 * Len(sum))'
  <2>1. metrics'["expert"] = before.experts + 3 * (TopK * token) + 3 * (n + 1)
    <3>1. metrics["expert"] = before.experts + 3 * (TopK * token) + (3 * n + 2)
      BY <1>3 DEF Told
    <3>2. TopK * token \in Nat
      BY <1>2, IdsFinite
    <3> QED
      BY <1>2, <1>4, <3>1, <3>2
  <2>2. Telling(history', before'.events + 1, token', TopK, IdsOf(selected'), Len(sum'), Added(sum'))
        /\ metrics'["expert"] = before'.experts + 3 * (TopK * token') + 3 * Len(sum')
    BY <1>1, <1>4, <1>8, <1>10, <2>1
  <2> QED
    BY <2>2 DEF Told, IdsOf, Added
<1>14. CallInv'
  BY <1>1, <1>2, <1>12, <1>13 DEF CallInv, Routing, Working, Sharing
<1> QED
  BY <1>1, <1>4, <1>14, OutputStays DEF MoeInv, Stages, Working

LEMMA SharedInv ==
    ASSUME MoeInv, Shared
    PROVE  MoeInv'
<1>1. /\ pc \in {"shared", "shared_up", "shared_down", "shared_gate_weight"}
      /\ \E name : Linear(Tensor(name), "whole", NoExpert)
      /\ UNCHANGED <<tokens, token, selected, expert, sum, output, before>>
  BY DEF Shared
<1>2. pc \in Sharing /\ pc \notin {"record", "done"}
  BY <1>1 DEF Sharing
<1>3. pc' \in Sharing
  <2> DEFINE name == IF pc = "shared" THEN "shared_gate" ELSE pc
             at == CHOOSE j \in 1..4 : SharedNames[j] = name
  <2>1. /\ 1 \in 1..4 /\ 2 \in 1..4 /\ 3 \in 1..4 /\ 4 \in 1..4
        /\ SharedNames[1] = "shared_gate" /\ SharedNames[2] = "shared_up"
        /\ SharedNames[3] = "shared_down" /\ SharedNames[4] = "shared_gate_weight"
    BY DEF SharedNames
  <2>2. name \in {"shared_gate", "shared_up", "shared_down", "shared_gate_weight"}
    BY <1>1
  <2>3. \E j \in 1..4 : SharedNames[j] = name
    BY <2>1, <2>2
  <2>4. pc' = IF at = 4 THEN "write" ELSE SharedNames[at + 1]
    BY DEF Shared
  <2>5. at \in 1..4
    <3> HIDE DEF name
    <3> QED
      BY <2>3
  <2> HIDE DEF at
  <2>6. at = 1 \/ at = 2 \/ at = 3 \/ at = 4
    BY <2>5
  <2> QED
    BY <2>1, <2>4, <2>6 DEF Sharing
<1>4. /\ token \in Nat /\ tokens \in Nat /\ token < tokens /\ Chosen
      /\ SumsBelow(sum, selected, ExpertCount)
      /\ Told(token, TopK, IdsOf(selected), TopK, IdsOf(selected), 3 * TopK)
      /\ metrics["expert"] \in Nat
  BY <1>2 DEF MoeInv, CallInv, Accounted
<1>5. /\ Accounted' /\ metrics'["expert"] = metrics["expert"] + 0
      /\ \A k, r, route, a, accessed :
           Telling(history, before.events + 1, k, r, route, a, accessed)
             => Telling(history', before.events + 1, k, r, route, a, accessed)
  BY <1>1, Requested DEF MoeInv
<1>6. Told(token, TopK, IdsOf(selected), TopK, IdsOf(selected), 3 * TopK)'
  <2>1. /\ Telling(history', before'.events + 1, token', TopK, IdsOf(selected'),
                   TopK, IdsOf(selected'))
        /\ metrics'["expert"] = before'.experts + 3 * (TopK * token') + 3 * TopK
    BY <1>1, <1>4, <1>5 DEF Told
  <2> QED
    BY <2>1 DEF Told, IdsOf
<1>7. (SumsBelow(sum, selected, ExpertCount) /\ Chosen)'
  BY <1>1, <1>4, SMTT(30) DEF SumsBelow, IdsOf, Added, Chosen
<1>8. CallInv'
  <2>1. pc' \notin Routing \cup Working \cup {"done"}
    BY <1>3 DEF Routing, Working, Sharing
  <2>2. pc' \notin {"record", "gate", "expert", "up", "down"}
    BY <1>3 DEF Sharing
  <2>3. (token \in Nat /\ tokens \in Nat /\ token < tokens)'
    BY <1>1, <1>4
  <2> QED
    BY <1>3, <1>6, <1>7, <2>1, <2>2, <2>3 DEF CallInv
<1>9. OutputInv'
  BY <1>1, OutputStays DEF MoeInv
<1>10. pc' \in Stages
  BY <1>3 DEF Stages
<1> QED
  BY <1>5, <1>8, <1>9, <1>10 DEF MoeInv

LEMMA WriteInv ==
    ASSUME MoeInv, Write
    PROVE  MoeInv'
<1> DEFINE new == [route |-> selected, sum |-> sum]
<1>1. /\ pc = "write" /\ output' = Append(output, new) /\ token' = token + 1
      /\ pc' = IF token + 1 = tokens THEN "done" ELSE "router"
      /\ UNCHANGED <<metrics, history, tokens, selected, sum, before>>
  BY DEF Write, vars
<1>2. /\ token \in Nat /\ tokens \in Nat /\ token < tokens /\ Chosen
      /\ SumsBelow(sum, selected, ExpertCount)
      /\ Told(token, TopK, IdsOf(selected), TopK, IdsOf(selected), 3 * TopK)
      /\ metrics["expert"] \in Nat /\ before.experts \in Nat
      /\ before.events \in Nat /\ \E S : history \in Seq(S)
  BY <1>1 DEF MoeInv, CallInv, Sharing, Accounted
<1>3. Accounted'
  BY <1>1 DEF MoeInv, Accounted
<1>4. Told(token, 0, {}, 0, {}, 0)'
  <2>1. Telling(history, before.events + 1, token + 1, 0, {}, 0, {})
    <3>1. before.events + 1 \in Nat \ {0}
      BY <1>2
    <3>2. Telling(history, before.events + 1, token, TopK, IdsOf(selected), TopK, IdsOf(selected))
      BY <1>2 DEF Told
    <3> QED
      BY <1>2, <3>1, <3>2, TellNext
  <2>2. metrics["expert"] = before.experts + 3 * (TopK * (token + 1)) + 0
    <3>1. metrics["expert"] = before.experts + 3 * (TopK * token) + 3 * TopK
      BY <1>2 DEF Told
    <3>2. TopK \in Nat /\ TopK * (token + 1) = TopK * token + TopK /\ TopK * token \in Nat
      BY <1>2, IdsFinite
    <3> QED
      BY <1>2, <3>1, <3>2
  <2> QED
    BY <1>1, <2>1, <2>2 DEF Told
<1>5. CallInv'
  <2>1. CASE token + 1 = tokens
    BY <1>1, <1>2, <1>4, <2>1 DEF CallInv, Routing, Working, Sharing
  <2>2. CASE token + 1 # tokens
    <3>1. token + 1 \in Nat /\ token + 1 < tokens
      BY <1>2, <2>2
    <3> QED
      BY <1>1, <1>2, <1>4, <2>2, <3>1 DEF CallInv, Routing, Working, Sharing
  <2> QED
    BY <2>1, <2>2
<1>6. Written(new)
  <2>1. new.route = selected /\ new.sum = sum
    OBVIOUS
  <2>2. DOMAIN sum = 1..Len(sum) /\ DOMAIN selected = 1..TopK /\ Len(sum) \in Nat
    BY <1>2, SumCount DEF Chosen, SumsBelow
  <2>3. Added(sum) = IdsOf(selected)
    <3>1. \A e \in IdsOf(selected) : e < ExpertCount
      BY <1>2, ChosenCount, IdsFinite
    <3> QED
      BY <1>2, <3>1 DEF SumsBelow
  <2>4. {sum[i][1] : i \in DOMAIN sum} = {selected[i] : i \in DOMAIN selected}
    BY <2>2, <2>3 DEF Added, IdsOf
  <2>5. \A i \in DOMAIN sum : selected[sum[i][2]] = sum[i][1]
    BY <1>2, <2>2 DEF SumsBelow
  <2>6. \A i \in 1..(Len(sum) - 1) : sum[i][1] < sum[i + 1][1]
    <3> SUFFICES ASSUME NEW i \in 1..(Len(sum) - 1) PROVE sum[i][1] < sum[i + 1][1]
      OBVIOUS
    <3>1. i \in 1..Len(sum) /\ i + 1 \in 1..Len(sum) /\ i < i + 1
      BY <2>2
    <3> QED
      BY <1>2, <3>1 DEF SumsBelow
  <2> HIDE DEF new
  <2>7. {new.sum[i][1] : i \in DOMAIN new.sum} = {new.route[i] : i \in DOMAIN new.route}
    BY ONLY <2>1, <2>4, Zenon
  <2>8. \A i \in DOMAIN new.sum : new.route[new.sum[i][2]] = new.sum[i][1]
    BY ONLY <2>1, <2>5, Zenon
  <2>9. \A i \in 1..(Len(new.sum) - 1) : new.sum[i][1] < new.sum[i + 1][1]
    BY ONLY <2>1, <2>6, Zenon
  <2> QED
    BY ONLY <2>7, <2>8, <2>9, Zenon DEF Written
<1> HIDE DEF new
<1>7. OutputInv'
  <2>1. PICK S : output \in Seq(S)
    BY DEF MoeInv, OutputInv
  <2> DEFINE T == S \cup {new}
  <2>2. output \in Seq(T) /\ new \in T
    <3>1. S \subseteq T
      OBVIOUS
    <3> QED
      BY <2>1, <3>1, SeqWiden
  <2> HIDE DEF T
  <2>3. /\ output' \in Seq(T) /\ Len(output') = Len(output) + 1 /\ Len(output) \in Nat
        /\ DOMAIN output = 1..Len(output) /\ DOMAIN output' = 1..Len(output')
        /\ \A t \in 1..Len(output) : output'[t] = output[t]
        /\ output'[Len(output) + 1] = new
    BY <1>1, <2>2, AppendProperties, LenProperties
  <2>4. \A t \in DOMAIN output : Written(output[t])
    BY OutputsWritten DEF MoeInv, OutputInv
  <2>5. \A t \in DOMAIN output' : t \in DOMAIN output \/ t = Len(output) + 1
    BY <2>3
  <2>6. \A t \in DOMAIN output' : Written(output'[t])
    BY <1>6, <2>3, <2>4, <2>5
  <2>7. OutputOfRoute'
    BY <2>6, OutputsWritten
  <2> QED
    BY <2>3, <2>7 DEF OutputInv
<1>8. pc' \in Stages
  BY <1>1 DEF Stages, Routing
<1> QED
  BY <1>3, <1>5, <1>7, <1>8 DEF MoeInv

\* A call that fails, one that is left, and a step of nothing.
LEMMA QuietMoe ==
    ASSUME MoeInv, FailCall \/ Leave \/ UNCHANGED <<vars, moe>>
    PROVE  MoeInv'
<1>1. UNCHANGED <<metrics, history, output, before>>
  BY DEF FailCall, Refuse, Leave, vars, moe
<1>2. Accounted' /\ OutputInv'
  <2>1. Accounted'
    BY <1>1 DEF MoeInv, Accounted
  <2> QED
    BY <1>1, <2>1, OutputStays DEF MoeInv
<1>3. CASE FailCall \/ Leave
  <2>1. pc' \in {"failed", "idle"}
    BY <1>3 DEF FailCall, Leave
  <2>2. CallInv'
    BY <2>1 DEF CallInv, Routing, Working, Sharing
  <2> QED
    BY <1>2, <2>1, <2>2 DEF MoeInv, Stages
<1>4. CASE UNCHANGED <<vars, moe>>
  <2>1. UNCHANGED <<pc, tokens, token, probs, selected, expert, sum>>
    BY <1>4 DEF moe
  <2>2. CallInv /\ pc \in Stages
    BY DEF MoeInv
  <2>3. CallInv'
    BY <1>1, <2>1, <2>2 DEF CallInv, Route, Chosen, SumsBelow, IdsOf, Added, Told
  <2> QED
    BY <1>2, <2>1, <2>2, <2>3 DEF MoeInv
<1> QED
  BY <1>3, <1>4

LEMMA MoeInitInv == MoeInit => MoeInv
<1> SUFFICES ASSUME MoeInit PROVE MoeInv
  OBVIOUS
<1>1. /\ pc = "idle" /\ output = << >> /\ history = << >>
      /\ metrics = [k \in Kinds \cup {"bytes", "expert"} |-> 0]
      /\ before = [experts |-> 0, events |-> 0]
  BY DEF MoeInit, Init
<1>2. Accounted
  <2>1. "expert" \in DOMAIN metrics /\ metrics["expert"] = 0
    BY <1>1
  <2>2. history \in Seq({}) /\ Len(history) = 0
    BY <1>1
  <2>3. before \in [experts : Nat, events : Nat] /\ before.events = 0
    BY <1>1
  <2> QED
    BY <2>1, <2>2, <2>3 DEF Accounted
<1>3. OutputInv
  <2>1. output \in Seq({}) /\ DOMAIN output = {}
    BY <1>1
  <2> QED
    BY <2>1 DEF OutputInv, OutputOfRoute
<1>4. CallInv /\ pc \in Stages
  BY <1>1 DEF CallInv, Routing, Working, Sharing, Stages
<1> QED
  BY <1>2, <1>3, <1>4 DEF MoeInv

LEMMA MoeInvHolds == MoeSpec => []MoeInv
<1>1. MoeInv /\ [MoeNext]_<<vars, moe>> => MoeInv'
  <2> SUFFICES ASSUME MoeInv, [MoeNext]_<<vars, moe>> PROVE MoeInv'
    OBVIOUS
  <2>1. ASSUME NEW n \in 1..MaxTokens, Begin(n) PROVE MoeInv'
    BY <2>1, BeginInv
  <2>2. CASE Router
    BY <2>2, RouterInv
  <2>3. CASE Record
    BY <2>3, RecordInv
  <2>4. CASE NextExpert
    BY <2>4, NextInv
  <2>5. CASE Gate
    BY <2>5, GateInv
  <2>6. CASE Up
    BY <2>6, UpInv
  <2>7. CASE Down
    BY <2>7, DownInv
  <2>8. CASE Shared
    BY <2>8, SharedInv
  <2>9. CASE Write
    BY <2>9, WriteInv
  <2>10. CASE FailCall \/ Leave \/ UNCHANGED <<vars, moe>>
    BY <2>10, QuietMoe
  <2> QED
    BY <2>1, <2>2, <2>3, <2>4, <2>5, <2>6, <2>7, <2>8, <2>9, <2>10 DEF MoeNext
<1> QED
  BY <1>1, MoeInitInv, PTL DEF MoeSpec
-----------------------------------------------------------------------------
\* The route of a token is the documented one: with any number of experts and
\* any probabilities, ties included, the scan that replaces the worst, and the
\* sort after it, select the documented members in the documented order
\* (kq_moe_select_top_k).
THEOREM RoutesAreDocumented == MoeSpec => []RouteAsDocumented
<1>1. MoeInv => RouteAsDocumented
  <2> SUFFICES ASSUME MoeInv, pc = "record"
               PROVE  /\ {selected[i] : i \in 1..TopK} = Members(probs)
                      /\ Len(selected) = TopK
                      /\ \A i \in 1..(TopK - 1) : Better(probs, selected[i], selected[i + 1])
    BY DEF RouteAsDocumented
  <2>1. Route(probs, selected)
    BY DEF MoeInv, CallInv
  <2>2. selected \in [1..TopK -> ExpertIds] /\ TopK \in Nat
    BY <2>1, IdsFinite DEF Route
  <2>3. Len(selected) = TopK
    BY <2>2, SegmentSeq
  <2> QED
    BY <2>1, <2>2, <2>3 DEF Route, Range
<1> QED
  BY <1>1, MoeInvHolds, PTL

\* Every output written is the sum over exactly the experts of its token's
\* route, ascending, each with the weight of its own place, whichever calls
\* failed before (kq_moe_qwen38.c, kq_moe_find_selected).
THEOREM OutputsAreOfRoutes == MoeSpec => []OutputOfRoute
<1>1. MoeInv => OutputOfRoute
  BY DEF MoeInv, OutputInv
<1> QED
  BY <1>1, MoeInvHolds, PTL

\* What the provider recorded of a call that succeeds is what the executor
\* relies on: of each token the route, then accesses to the same experts,
\* ascending, and three expert requests for each (kq_model_exec.c:892).
THEOREM TracesDoAgree == MoeSpec => []TracesAgree
<1>1. MoeInv => TracesAgree
  <2> SUFFICES ASSUME MoeInv, pc = "done" PROVE TracesAgree
    BY DEF TracesAgree
  <2> DEFINE from == before.events + 1
             routed == Events("route", history, from)
             accessed == Events("expert", history, from)
  <2>1. /\ token = tokens /\ tokens \in Nat /\ metrics["expert"] \in Nat
        /\ before.experts \in Nat
    BY DEF MoeInv, CallInv, Accounted
  <2>2. Told(tokens, 0, {}, 0, {}, 0)
    BY <2>1 DEF MoeInv, CallInv
  <2>3. TopK * tokens \in Nat /\ TopK \in Nat
    BY <2>1, IdsFinite
  <2>4. Cardinality(routed) = TopK * tokens /\ Cardinality(accessed) = TopK * tokens
    BY <2>2, <2>3 DEF Told, Telling, Tells
  <2>5. metrics.expert - before.experts = 3 * TopK * tokens
    <3>1. metrics["expert"] = before.experts + 3 * (TopK * tokens) + 0
      BY <2>2 DEF Told
    <3>2. 3 * (TopK * tokens) = 3 * TopK * tokens
      BY <2>1, <2>3
    <3> QED
      BY <2>1, <2>3, <3>1, <3>2
  <2>6. ASSUME NEW t \in 0..(tokens - 1)
        PROVE  /\ Named(Block(accessed, t)) = Named(Block(routed, t))
               /\ \A i, j \in Block(accessed, t) :
                    i < j => history[i].expert < history[j].expert
    <3>1. Agree(history, from, t)
      BY <2>2 DEF Told, Telling
    <3> QED
      BY <3>1 DEF Agree, NamedIn, Rising, Cell, Named
  <2> QED
    BY <2>4, <2>5, <2>6 DEF TracesAgree
<1> QED
  BY <1>1, MoeInvHolds, PTL
=============================================================================
