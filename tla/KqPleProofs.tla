---------------------------- MODULE KqPleProofs ----------------------------
(***************************************************************************)
(* Proofs about the two PLE streams, for any vocabulary, any number of     *)
(* heads and any table, any kernel and dilation, and any chunking.         *)
(*                                                                         *)
(* The inductive invariant ties every piece of state to the whole stream:  *)
(* the two tokens the address engine remembers are its last two, the       *)
(* intents that wait are those of the tokens not yet consumed, and the     *)
(* convolution history is the positions just before the next one.  The     *)
(* recursion over the tokens of a chunk is replaced by what it computes    *)
(* for each of them (GenerateIs), by a least token where they differ.      *)
(***************************************************************************)
EXTENDS KqPle, SequenceTheorems, WellFoundedInduction, TLAPS

\* Every set of naturals that is not empty has a least member.
LEMMA Least ==
    ASSUME NEW S \in SUBSET Nat, S # {}
    PROVE  \E x \in S : \A y \in S : x <= y
<1>1. IsWellFoundedOn(OpToRel(<, Nat), Nat)
  BY NatLessThanWellFounded
<1>2. PICK x \in S : \A y \in S : ~(<<y, x>> \in OpToRel(<, Nat))
  BY <1>1, WFMin
<1>3. \A y \in S : ~(y < x)
  BY <1>2 DEF OpToRel
<1> QED
  BY <1>3
-----------------------------------------------------------------------------
(* The tokens of a chunk. *)

\* What kq_ple_generate_one makes of the first n tokens of a chunk, if recent
\* is the chunk behind the two tokens before it.
Made(position, recent, n) ==
    [k \in 1..n |-> [position |-> position + k - 1,
                     at |-> Intents(Shifted(<<recent[k], recent[k + 1]>>, recent[k + 2]))]]

After(position, recent, n) ==
    [state |-> [position |-> position + n, history |-> <<recent[n + 1], recent[n + 2]>>],
     made  |-> Made(position, recent, n)]

\* The recursion over a chunk computes each token's intents from the two before
\* it, and leaves the last two behind.
LEMMA GenerateIs ==
    ASSUME NEW chunk \in Seq(Token), NEW position \in Nat, NEW recent,
           \A k \in 1..Len(chunk) : recent[k + 2] = chunk[k]
    PROVE  Generate([position |-> position, history |-> <<recent[1], recent[2]>>], chunk)
             = After(position, recent, Len(chunk))
<1> DEFINE start == [position |-> position, history |-> <<recent[1], recent[2]>>]
           One(old, n) ==
             [state |-> [position |-> old.state.position + 1,
                         history  |-> <<old.state.history[2], chunk[n]>>],
              made  |-> Append(old.made,
                          [position |-> old.state.position,
                           at |-> Intents(Shifted(old.state.history, chunk[n]))])]
           Step(g, n) == IF n = 0 THEN [state |-> start, made |-> << >>]
                         ELSE One(g[n - 1], n)
           Closed(n) == After(position, recent, n)
           closed == [n \in 0..Len(chunk) |-> Closed(n)]
           Solves(g) == g = [n \in 0..Len(chunk) |-> Step(g, n)]
           f == CHOOSE g : Solves(g)
<1>0. Len(chunk) \in Nat
  BY LenProperties
<1>1. ASSUME NEW n \in 1..Len(chunk) PROVE One(Closed(n - 1), n) = Closed(n)
  <2> DEFINE entry == [position |-> position + n - 1,
                       at |-> Intents(Shifted(<<recent[n], recent[n + 1]>>, chunk[n]))]
             made == Made(position, recent, n - 1)
  <2>1. n - 1 \in Nat /\ (n - 1) + 1 = n /\ (n - 1) + 2 = n + 1 /\ recent[n + 2] = chunk[n]
    BY <1>0
  <2>2. Append(made, entry) = Made(position, recent, n)
    <3> DEFINE F(k) == [position |-> position + k - 1,
                        at |-> Intents(Shifted(<<recent[k], recent[k + 1]>>, recent[k + 2]))]
    <3>1. made = [k \in 1..(n - 1) |-> F(k)] /\ Made(position, recent, n) = [k \in 1..n |-> F(k)]
      BY DEF Made
    <3>2. entry = F(n)
      BY <2>1
    <3> HIDE DEF F, entry, made
    <3>3. Append(made, entry) = [k \in 1..n |-> IF k = n THEN entry ELSE made[k]]
      BY <2>1, <3>1
    <3> QED
      BY <2>1, <3>1, <3>2, <3>3
  <2> HIDE DEF entry, made
  <2>3. Closed(n - 1) = [state |-> [position |-> position + n - 1,
                                    history |-> <<recent[n], recent[n + 1]>>],
                         made |-> made]
    BY <2>1 DEF After, made
  <2>4. One(Closed(n - 1), n) =
          [state |-> [position |-> position + n, history |-> <<recent[n + 1], chunk[n]>>],
           made |-> Append(made, entry)]
    <3> DEFINE old == Closed(n - 1)
    <3>1. /\ old.state.position = position + n - 1
          /\ old.state.history = <<recent[n], recent[n + 1]>>
          /\ old.made = made
      BY <2>3
    <3>2. old.state.history[2] = recent[n + 1] /\ position + n - 1 + 1 = position + n
      BY <3>1
    <3> HIDE DEF old
    <3>3. One(old, n) =
            [state |-> [position |-> position + n, history |-> <<recent[n + 1], chunk[n]>>],
             made |-> Append(made, [position |-> position + n - 1,
                 at |-> Intents(Shifted(<<recent[n], recent[n + 1]>>, chunk[n]))])]
      BY <3>1, <3>2
    <3> QED
      BY <3>3 DEF entry, old
  <2> QED
    BY <2>1, <2>2, <2>4 DEF After
<1>2. Closed(0) = [state |-> start, made |-> << >>]
  BY DEF After, Made
<1> HIDE DEF Closed, One
<1>3. Solves(closed)
  <2>1. \A n \in 0..Len(chunk) : Step(closed, n) = Closed(n)
    <3> SUFFICES ASSUME NEW n \in 0..Len(chunk) PROVE Step(closed, n) = Closed(n)
      OBVIOUS
    <3>1. CASE n = 0
      BY <1>2, <3>1
    <3>2. CASE n # 0
      <4>1. n \in 1..Len(chunk) /\ n - 1 \in 0..Len(chunk)
        BY <1>0, <3>2
      <4>2. closed[n - 1] = Closed(n - 1)
        BY <4>1
      <4> QED
        BY <1>1, <3>2, <4>1, <4>2
    <3> QED
      BY <3>1, <3>2
  <2> QED
    BY <2>1
<1>4. Solves(f)
  <2> HIDE DEF Solves
  <2> QED
    BY <1>3
<1>5. Generate(start, chunk) = f[Len(chunk)]
  BY DEF Generate, One
<1> DEFINE apart == {n \in 0..Len(chunk) : f[n] # Closed(n)}
<1>6. apart = {}
  <2> SUFFICES ASSUME apart # {} PROVE FALSE
    OBVIOUS
  <2>0. \A n \in 0..Len(chunk) : f[n] = Step(f, n)
    BY <1>4
  <2> HIDE DEF f
  <2>1. PICK n \in apart : \A m \in apart : n <= m
    <3>1. apart \in SUBSET Nat
      OBVIOUS
    <3> HIDE DEF apart
    <3> QED
      BY <3>1, Least
  <2>2. CASE n = 0
    BY <1>2, <2>0, <2>1, <2>2
  <2>3. CASE n # 0
    <3>1. n \in 1..Len(chunk) /\ n - 1 \in 0..Len(chunk) /\ ~(n <= n - 1)
      BY <1>0, <2>1, <2>3
    <3>2. n - 1 \notin apart
      <4> HIDE DEF apart
      <4> QED
        BY <2>1, <3>1
    <3>3. f[n - 1] = Closed(n - 1)
      BY <3>1, <3>2
    <3>4. f[n] = One(f[n - 1], n)
      BY <2>0, <2>3, <3>1
    <3> QED
      BY <1>1, <2>1, <3>1, <3>3, <3>4
  <2> QED
    BY <2>2, <2>3
<1>7. f[Len(chunk)] = Closed(Len(chunk))
  <2>1. Len(chunk) \in 0..Len(chunk)
    BY <1>0
  <2> HIDE DEF f
  <2> QED
    BY <1>6, <2>1
<1> QED
  BY <1>5, <1>7 DEF Closed
-----------------------------------------------------------------------------
(* Arithmetic of the table and of the kernel. *)

\* A multiple of a divisor that is not below it in one direction.
LEMMA ProductBound ==
    ASSUME NEW b \in Nat \ {0}, NEW k \in Int, k >= 1
    PROVE  b * k >= b
<1>1. b * k = b + b * (k - 1)
  OBVIOUS
<1>2. b * (k - 1) >= 0
  OBVIOUS
<1> QED
  BY <1>1, <1>2

\* A row of a table lies in one of its members.
LEMMA RowOfMember ==
    ASSUME NEW rows \in Nat \ {0}, NEW members \in Nat \ {0},
           NEW a \in Nat, a < rows * members
    PROVE  a \div rows \in 0..(members - 1) /\ a % rows \in 0..(rows - 1)
<1> DEFINE d == a \div rows
           m == a % rows
<1>1. d \in Int /\ m \in 0..(rows - 1) /\ a = rows * d + m
  OBVIOUS
<1> HIDE DEF d, m
<1>2. ~(-d >= 1)
  <2>1. rows * (-d) = m - a
    BY <1>1
  <2> QED
    BY <1>1, <2>1, ProductBound
<1>3. ~(d - members >= 0)
  <2> SUFFICES ASSUME d - members >= 0 PROVE FALSE
    OBVIOUS
  <2>1. d - members \in Nat /\ rows * (d - members) \in Nat
    BY <1>1
  <2>2. rows * (d - members) = rows * d - rows * members
    BY <1>1
  <2>3. rows * members \in Nat
    OBVIOUS
  <2> QED
    BY <1>1, <2>1, <2>2, <2>3
<1> QED
  BY <1>1, <1>2, <1>3 DEF d, m

\* The range of a head ends where that of the next begins, and the last ends
\* within the table.
LEMMA HeadWithinTable ==
    ASSUME NEW h \in HeadIds
    PROVE  HeadOffset[h] + HeadVocabSize[h] <= ActiveRows
<1> DEFINE End(i) == HeadOffset[i] + HeadVocabSize[i]
           back(i) == Heads - 1 - i
           beyond == {i \in HeadIds : ~(End(i) <= ActiveRows)}
           places == {back(i) : i \in beyond}
<1>1. Heads \in Nat \ {0} /\ Heads - 1 \in HeadIds
  BY PleAssumption DEF HeadIds
<1>2. \A i \in HeadIds : HeadOffset[i] \in Nat /\ HeadVocabSize[i] \in Nat /\ i \in Nat
  BY PleAssumption DEF HeadIds
<1>3. \A i \in HeadIds \ {0} : HeadOffset[i] = End(i - 1)
  BY PleAssumption
<1>4. SUFFICES ASSUME beyond # {} PROVE FALSE
  OBVIOUS
<1>5. places \in SUBSET Nat /\ places # {}
  BY <1>1, <1>4 DEF HeadIds
<1>6. PICK i \in beyond : \A j \in beyond : back(i) <= back(j)
  <2> HIDE DEF beyond
  <2>1. PICK x \in places : \A y \in places : x <= y
    <3> HIDE DEF places
    <3> QED
      BY <1>5, Least
  <2> QED
    BY <2>1
<1>7. i # Heads - 1
  BY <1>1, <1>2 DEF ActiveRows
<1>8. i + 1 \in HeadIds \ {0} /\ ~(back(i) <= back(i + 1))
  BY <1>1, <1>7 DEF HeadIds
<1>9. i + 1 \notin beyond
  <2> HIDE DEF beyond
  <2> QED
    BY <1>6, <1>8
<1>10. End(i + 1) <= ActiveRows /\ HeadOffset[i + 1] = End(i)
  <2>1. HeadOffset[i + 1] = End(i + 1 - 1) /\ i + 1 - 1 = i
    BY <1>2, <1>3, <1>8
  <2> QED
    BY <1>8, <1>9, <2>1
<1>11. ActiveRows \in Nat
  BY <1>1, <1>2 DEF ActiveRows
<1> QED
  BY <1>2, <1>8, <1>10, <1>11

\* The history before position p, and the positions its output is summed from.
Before(p) ==
    [i \in 0..(HistoryLength - 1) |->
       LET q == p - HistoryLength + i IN IF q < 0 THEN Missing ELSE q]

TapsAt(p) ==
    [k \in 1..Taps |->
       LET q == p - (Taps - k) * Dilation IN IF q < 0 THEN Missing ELSE q]

LEMMA HistoryLengthType == HistoryLength \in Nat \ {0}
<1>1. Taps - 1 \in Nat \ {0} /\ Dilation \in Nat \ {0}
  BY PleAssumption
<1>2. \A a, b \in Nat \ {0} : a * b \in Nat \ {0}
  OBVIOUS
<1> QED
  BY <1>1, <1>2 DEF HistoryLength

\* Shifting a position in moves the history on by one.
LEMMA ShiftInIs ==
    ASSUME NEW p \in Nat
    PROVE  ShiftIn(Before(p), p) = Before(p + 1)
<1>1. HistoryLength \in Nat \ {0}
  BY HistoryLengthType
<1> QED
  BY <1>1 DEF ShiftIn, Before, Missing

\* The taps read the history at the dilated places.
LEMMA SourcesIs ==
    ASSUME NEW p \in Nat
    PROVE  Sources(Before(p), p) = TapsAt(p)
<1>1. /\ Taps \in Nat \ {0, 1} /\ Dilation \in Nat \ {0}
      /\ HistoryLength \in Nat \ {0} /\ HistoryLength = Dilation * (Taps - 1)
  BY PleAssumption, HistoryLengthType DEF HistoryLength
<1>2. ASSUME NEW k \in 1..Taps
      PROVE  Sources(Before(p), p)[k] = TapsAt(p)[k]
  <2>1. CASE k = Taps
    <3>1. (Taps - k) * Dilation = 0
      BY <1>1, <2>1
    <3> QED
      BY <1>1, <2>1, <3>1 DEF Sources, TapsAt
  <2>2. CASE k # Taps
    <3> DEFINE at == (k - 1) * Dilation
               back == (Taps - k) * Dilation
    <3>1. k - 1 \in Nat /\ Taps - k \in Nat \ {0}
      BY <1>1, <2>2
    <3>2. at \in Nat /\ back \in Nat \ {0} /\ at + back = HistoryLength
      <4>1. at + back = ((k - 1) + (Taps - k)) * Dilation
        BY <1>1, <3>1
      <4>2. (k - 1) + (Taps - k) = Taps - 1
        BY <1>1
      <4>3. at + back = HistoryLength
        BY <1>1, <4>1, <4>2
      <4> QED
        BY <1>1, <3>1, <4>3
    <3>3. Sources(Before(p), p)[k] = Before(p)[at]
      BY <2>2 DEF Sources
    <3>4. TapsAt(p)[k] = IF p - back < 0 THEN Missing ELSE p - back
      BY DEF TapsAt
    <3> HIDE DEF at, back
    <3>5. at \in 0..(HistoryLength - 1) /\ p - HistoryLength + at = p - back
      BY <1>1, <3>2
    <3>6. Before(p)[at] = IF p - back < 0 THEN Missing ELSE p - back
      BY <3>5 DEF Before
    <3> QED
      BY <3>3, <3>4, <3>6
  <2> QED
    BY <2>1, <2>2
<1>3. /\ Sources(Before(p), p) = [k \in 1..Taps |-> Sources(Before(p), p)[k]]
      /\ TapsAt(p) = [k \in 1..Taps |-> TapsAt(p)[k]]
  BY DEF Sources, TapsAt
<1> QED
  BY <1>2, <1>3
-----------------------------------------------------------------------------
(* The invariant. *)

\* The token at place j of a stream s, or the sentinel before its beginning, and
\* the intents of the token at place i.
TokenAt(s, j) == IF j < 1 THEN EosToken ELSE s[j]

IntentsAt(s, i) ==
    Intents(Shifted(<<TokenAt(s, i - 2), TokenAt(s, i - 1)>>, TokenAt(s, i)))

\* The address engine has the last two tokens of the stream, what it made is
\* consumed or waits, and the value operator is at the first that waits.
AddressHolds ==
    /\ stream \in Seq(Token)
    /\ Len(stream) <= ContextLength
    /\ address = [position |-> Len(stream),
                  history  |-> <<TokenAt(stream, Len(stream) - 1),
                                 TokenAt(stream, Len(stream))>>]
    /\ value.position \in 0..Len(stream)
    /\ emitted = [i \in 1..value.position |-> IntentsAt(stream, i)]
    /\ intents = [n \in 1..(Len(stream) - value.position) |->
                    [position |-> value.position + n - 1,
                     at |-> IntentsAt(stream, value.position + n)]]

\* What a run has staged after m of the waiting tokens.
StagedAt(m) == [history |-> Before(value.position + m),
                sums |-> [n \in 1..m |-> TapsAt(value.position + n - 1)]]

ValueHolds ==
    /\ value = [position |-> value.position, history |-> Before(value.position)]
    /\ convolved = [i \in 1..value.position |-> TapsAt(i - 1)]
    /\ running => \E m \in 0..Len(intents) : staged = StagedAt(m)

PleInv == AddressHolds /\ ValueHolds

\* Joining what was computed for the first a places with what was for the next.
LEMMA JoinPlaces ==
    ASSUME NEW a \in Nat, NEW b \in Nat, NEW f
    PROVE  [i \in 1..a |-> f[i]] \o [i \in 1..b |-> f[a + i]] = [i \in 1..(a + b) |-> f[i]]
OBVIOUS

\* The waiting intents are as many as the positions between the two streams.
LEMMA Waiting ==
    ASSUME AddressHolds
    PROVE  /\ Len(stream) \in Nat
           /\ Len(intents) = Len(stream) - value.position
           /\ Len(intents) \in Nat
           /\ DOMAIN intents = 1..Len(intents)
<1>1. Len(stream) \in Nat /\ Len(stream) - value.position \in Nat
  BY LenProperties DEF AddressHolds
<1>2. \A k \in Nat : \A f : f = [n \in 1..k |-> f[n]] => Len(f) = k
  OBVIOUS
<1> QED
  BY <1>1 DEF AddressHolds

LEMMA InitInv == Init => PleInv
<1> SUFFICES ASSUME Init PROVE PleInv
  OBVIOUS
<1>1. stream = << >> /\ << >> \in Seq(Token) /\ Len(<< >>) = 0
  BY EmptySeq DEF Init
<1>2. HistoryLength \in Nat \ {0} /\ ContextLength \in Nat
  BY HistoryLengthType, PleAssumption
<1>3. FreshValue = [position |-> 0, history |-> Before(0)]
  BY <1>2 DEF FreshValue, Before, Missing
<1>4. AddressHolds
  <2>1. [i \in 1..0 |-> IntentsAt(stream, i)] = << >>
    OBVIOUS
  <2>2. [n \in 1..0 |-> [position |-> 0 + n - 1, at |-> IntentsAt(stream, 0 + n)]] = << >>
    OBVIOUS
  <2>3. address = [position |-> 0, history |-> <<EosToken, EosToken>>]
    BY DEF Init, FreshAddress
  <2>4. value.position = 0 /\ emitted = << >> /\ intents = << >>
    BY DEF Init, FreshValue
  <2>5. TokenAt(stream, 0 - 1) = EosToken /\ TokenAt(stream, 0) = EosToken
    BY DEF TokenAt
  <2> QED
    BY <1>1, <1>2, <2>1, <2>2, <2>3, <2>4, <2>5 DEF AddressHolds
<1>5. ValueHolds
  <2>1. [i \in 1..0 |-> TapsAt(i - 1)] = << >>
    OBVIOUS
  <2> QED
    BY <1>3, <2>1 DEF Init, ValueHolds
<1> QED
  BY <1>4, <1>5 DEF PleInv

\* A chunk extends the stream; the intents made for it are those of its tokens,
\* whatever the stream was cut into before.
LEMMA AddressInv ==
    ASSUME PleInv, NEW m \in 1..MaxChunk, NEW chunk \in [1..m -> Token], Address(chunk)
    PROVE  PleInv'
<1> DEFINE length == Len(stream)
           later == stream \o chunk
           recent == [k \in 1..(m + 2) |-> TokenAt(later, length + k - 2)]
<1>1. /\ m \in Nat /\ chunk \in Seq(Token) /\ Len(chunk) = m
      /\ stream \in Seq(Token) /\ length \in Nat
  BY PleAssumption, LenProperties DEF PleInv, AddressHolds
<1>2. /\ later \in Seq(Token) /\ Len(later) = length + m
      /\ \A i \in 1..length : later[i] = stream[i]
      /\ \A k \in 1..m : later[length + k] = chunk[k]
  <2>1. /\ Len(later) = length + m /\ later \in Seq(Token)
        /\ \A i \in 1..(length + m) : later[i] = IF i <= length THEN stream[i]
                                                 ELSE chunk[i - length]
    BY <1>1, ConcatProperties
  <2> HIDE DEF later
  <2>2. \A k \in 1..m : /\ length + k \in 1..(length + m) /\ ~(length + k <= length)
                        /\ length + k - length = k
    BY <1>1
  <2> QED
    BY <1>1, <2>1, <2>2
<1>3. /\ stream' = later /\ UNCHANGED <<value, staged, running, emitted, convolved>>
      /\ intents = << >> /\ Admitted(chunk)
      /\ address' = Generate(address, chunk).state /\ intents' = Generate(address, chunk).made
  BY DEF Address
<1>4. value.position = length /\ Len(intents) = 0
  BY <1>1, <1>3, Waiting DEF PleInv, AddressHolds
<1> HIDE DEF later, length
<1>5. /\ recent[1] = TokenAt(stream, length - 1) /\ recent[2] = TokenAt(stream, length)
      /\ \A k \in 1..m : recent[k + 2] = chunk[k]
  <2>1. 1 \in 1..(m + 2) /\ 2 \in 1..(m + 2)
    BY <1>1
  <2>2. recent[1] = TokenAt(later, length - 1) /\ recent[2] = TokenAt(later, length)
    BY <1>1, <2>1
  <2>3. \A j \in Int : j <= length => TokenAt(later, j) = TokenAt(stream, j)
    BY <1>1, <1>2 DEF TokenAt
  <2>4. \A k \in 1..m : recent[k + 2] = later[length + k]
    BY <1>1 DEF TokenAt
  <2>5. \A k \in 1..m : recent[k + 2] = chunk[k]
    <3> HIDE DEF recent
    <3> QED
      BY <1>2, <2>4
  <2>6. length - 1 \in Int /\ length - 1 <= length /\ length \in Int /\ length <= length
    BY <1>1
  <2>7. /\ TokenAt(later, length - 1) = TokenAt(stream, length - 1)
        /\ TokenAt(later, length) = TokenAt(stream, length)
    BY <2>3, <2>6
  <2> HIDE DEF recent
  <2> QED
    BY <2>2, <2>5, <2>7
<1>6. Generate(address, chunk) = After(length, recent, m)
  <2>1. address = [position |-> length, history |-> <<recent[1], recent[2]>>]
    BY <1>5 DEF PleInv, AddressHolds, length
  <2> HIDE DEF recent
  <2> QED
    BY <1>1, <1>5, <2>1, GenerateIs
<1>7. address' = [position |-> length + m,
                  history  |-> <<TokenAt(later, length + m - 1), TokenAt(later, length + m)>>]
  <2>1. m + 1 \in 1..(m + 2) /\ m + 2 \in 1..(m + 2)
    BY <1>1
  <2>2. recent[m + 1] = TokenAt(later, length + m - 1) /\ recent[m + 2] = TokenAt(later, length + m)
    BY <1>1, <2>1
  <2> HIDE DEF recent
  <2> QED
    BY <1>3, <1>6, <2>2 DEF After
<1>8. intents' = [n \in 1..m |-> [position |-> length + n - 1, at |-> IntentsAt(later, length + n)]]
  <2>1. intents' = Made(length, recent, m)
    BY <1>3, <1>6 DEF After
  <2>2. ASSUME NEW n \in 1..m
        PROVE  /\ recent[n] = TokenAt(later, length + n - 2)
               /\ recent[n + 1] = TokenAt(later, length + n - 1)
               /\ recent[n + 2] = TokenAt(later, length + n)
    <3>1. n \in 1..(m + 2) /\ n + 1 \in 1..(m + 2) /\ n + 2 \in 1..(m + 2)
      BY <1>1
    <3>2. length + (n + 1) - 2 = length + n - 1 /\ length + (n + 2) - 2 = length + n
      BY <1>1
    <3> QED
      BY <3>1, <3>2
  <2> HIDE DEF recent
  <2>3. \A n \in 1..m :
          Intents(Shifted(<<recent[n], recent[n + 1]>>, recent[n + 2])) = IntentsAt(later, length + n)
    <3> SUFFICES ASSUME NEW n \in 1..m
                 PROVE  Intents(Shifted(<<recent[n], recent[n + 1]>>, recent[n + 2]))
                          = IntentsAt(later, length + n)
      OBVIOUS
    <3>1. <<recent[n], recent[n + 1]>>
            = <<TokenAt(later, (length + n) - 2), TokenAt(later, (length + n) - 1)>>
      <4>1. length + n - 2 = (length + n) - 2 /\ length + n - 1 = (length + n) - 1
        BY <1>1
      <4> QED
        BY <2>2, <4>1
    <3>2. recent[n + 2] = TokenAt(later, length + n)
      BY <2>2
    <3> QED
      BY <3>1, <3>2 DEF IntentsAt
  <2> QED
    BY <2>1, <2>3 DEF Made
<1>9. length + m <= ContextLength
  BY <1>1, <1>3, PleAssumption DEF Admitted, PleInv, AddressHolds, length
<1>10. emitted' = [i \in 1..length |-> IntentsAt(later, i)]
  <2>1. ASSUME NEW i \in 1..length PROVE IntentsAt(later, i) = IntentsAt(stream, i)
    <3>1. \A j \in Int : j <= length => TokenAt(later, j) = TokenAt(stream, j)
      BY <1>1, <1>2 DEF TokenAt
    <3>2. i - 2 \in Int /\ i - 1 \in Int /\ i \in Int /\ i - 2 <= length /\ i - 1 <= length /\ i <= length
      BY <1>1
    <3> QED
      BY <3>1, <3>2 DEF IntentsAt
  <2> QED
    BY <1>3, <1>4, <2>1 DEF PleInv, AddressHolds
<1>11. AddressHolds'
  <2>1. /\ value'.position = length /\ length \in 0..(length + m) /\ (length + m) - length = m
        /\ Len(stream') = length + m /\ stream' = later
    BY <1>1, <1>2, <1>3, <1>4
  <2>2. /\ stream' \in Seq(Token) /\ Len(stream') <= ContextLength
        /\ value'.position \in 0..Len(stream')
    BY <1>2, <1>9, <2>1
  <2>3. address' = [position |-> Len(stream'),
                    history  |-> <<TokenAt(stream', Len(stream') - 1),
                                   TokenAt(stream', Len(stream'))>>]
    <3>1. length + m - 1 = (length + m) - 1
      BY <1>1
    <3> QED
      BY <1>7, <2>1, <3>1
  <2>4. emitted' = [i \in 1..value'.position |-> IntentsAt(stream', i)]
    BY <1>10, <2>1
  <2>5. intents' = [n \in 1..(Len(stream') - value'.position) |->
                      [position |-> value'.position + n - 1,
                       at |-> IntentsAt(stream', value'.position + n)]]
    BY <1>8, <2>1
  <2> QED
    BY <2>2, <2>3, <2>4, <2>5 DEF AddressHolds
<1>12. ValueHolds'
  <2>1. running => staged = StagedAt(0)
    BY <1>4 DEF PleInv, ValueHolds
  <2>2. Len(intents') = m
    BY <1>1, <1>8
  <2>3. 0 \in 0..m
    BY <1>1
  <2> QED
    BY <1>3, <2>1, <2>2, <2>3 DEF PleInv, ValueHolds, StagedAt
<1> QED
  BY <1>11, <1>12 DEF PleInv

\* A run begins with a copy of the history.
LEMMA BeginInv == ASSUME PleInv, Begin PROVE PleInv'
<1>1. /\ UNCHANGED <<address, value, intents, stream, emitted, convolved>>
      /\ staged' = [history |-> value.history, sums |-> << >>]
  BY DEF Begin
<1>2. AddressHolds'
  BY <1>1 DEF PleInv, AddressHolds
<1>3. staged' = StagedAt(0)
  <2>1. [n \in 1..0 |-> TapsAt(value.position + n - 1)] = << >>
    OBVIOUS
  <2>2. value.position \in Nat /\ value.position + 0 = value.position
    BY Waiting DEF PleInv, AddressHolds
  <2>3. value.history = Before(value.position)
    BY DEF PleInv, ValueHolds
  <2> QED
    BY <1>1, <2>1, <2>2, <2>3 DEF StagedAt
<1>4. 0 \in 0..Len(intents)
  BY Waiting DEF PleInv
<1>5. ValueHolds'
  BY <1>1, <1>3, <1>4 DEF PleInv, ValueHolds, StagedAt
<1> QED
  BY <1>2, <1>5 DEF PleInv

\* One token more is staged.
LEMMA ConsumeInv == ASSUME PleInv, ConsumeToken PROVE PleInv'
<1> DEFINE n == Len(staged.sums) + 1
           p == value.position + n - 1
<1>1. /\ UNCHANGED <<address, value, intents, running, stream, emitted, convolved>>
      /\ running /\ n <= Len(intents)
      /\ staged' = [history |-> ShiftIn(staged.history, p),
                    sums |-> Append(staged.sums, Sources(staged.history, p))]
  BY DEF ConsumeToken
<1>2. PICK m \in 0..Len(intents) : staged = StagedAt(m)
  BY <1>1 DEF PleInv, ValueHolds
<1>3. /\ Len(intents) \in Nat /\ value.position \in Nat
  BY Waiting DEF PleInv, AddressHolds
<1>4. /\ n = m + 1 /\ p = value.position + m /\ p \in Nat
      /\ staged.history = Before(p)
  <2>1. Len([k \in 1..m |-> TapsAt(value.position + k - 1)]) = m
    BY <1>3
  <2>2. n = m + 1
    BY <1>2, <2>1 DEF StagedAt
  <2>3. p = value.position + m /\ p \in Nat
    BY <1>3, <2>2
  <2> QED
    BY <1>2, <2>2, <2>3 DEF StagedAt
<1> HIDE DEF p, n
<1>5. staged' = StagedAt(m + 1)
  <2>1. staged'.history = Before(value.position + (m + 1))
    <3>1. ShiftIn(Before(p), p) = Before(p + 1)
      BY <1>4, ShiftInIs
    <3>2. p + 1 = value.position + (m + 1)
      BY <1>3, <1>4
    <3> QED
      BY <1>1, <1>4, <3>1, <3>2
  <2>2. staged'.sums = [k \in 1..(m + 1) |-> TapsAt(value.position + k - 1)]
    <3> DEFINE F(k) == TapsAt(value.position + k - 1)
    <3>1. staged.sums = [k \in 1..m |-> F(k)]
      BY <1>2 DEF StagedAt
    <3>2. staged'.sums = Append(staged.sums, TapsAt(p))
      BY <1>1, <1>4, SourcesIs
    <3>3. value.position + (m + 1) - 1 = p
      BY <1>3, <1>4
    <3>4. TapsAt(p) = F(m + 1)
      BY <3>3
    <3> HIDE DEF F
    <3> QED
      BY <1>3, <3>1, <3>2, <3>4 DEF F
  <2> QED
    BY <1>1, <2>1, <2>2 DEF StagedAt
<1>6. m + 1 \in 0..Len(intents)
  BY <1>1, <1>2, <1>3, <1>4
<1>7. AddressHolds'
  BY <1>1 DEF PleInv, AddressHolds
<1>8. ValueHolds'
  BY <1>1, <1>5, <1>6 DEF PleInv, ValueHolds, StagedAt
<1> QED
  BY <1>7, <1>8 DEF PleInv

\* Nothing but what was staged changes, or nothing at all.
LEMMA FailInv == ASSUME PleInv, Fail \/ UNCHANGED vars PROVE PleInv'
<1>1. /\ UNCHANGED <<address, value, intents, stream, emitted, convolved>>
      /\ running' => running /\ staged' = staged
  BY DEF Fail, vars
<1>2. AddressHolds'
  BY <1>1 DEF PleInv, AddressHolds
<1>3. ValueHolds'
  BY <1>1 DEF PleInv, ValueHolds, StagedAt
<1> QED
  BY <1>2, <1>3 DEF PleInv

\* The end of a run: all that waited is consumed.
LEMMA CommitInv == ASSUME PleInv, Commit PROVE PleInv'
<1> DEFINE length == Len(stream)
           consumed == value.position
           waiting == Len(intents)
<1>1. /\ UNCHANGED <<address, stream>> /\ intents' = << >> /\ ~running' /\ running
      /\ Len(staged.sums) = waiting
      /\ value' = [position |-> consumed + waiting, history |-> staged.history]
      /\ convolved' = convolved \o staged.sums
      /\ emitted' = emitted \o [n \in DOMAIN intents |-> intents[n].at]
  BY DEF Commit
<1>2. /\ length \in Nat /\ waiting \in Nat /\ consumed \in Nat
      /\ waiting = length - consumed /\ DOMAIN intents = 1..waiting
  BY Waiting DEF PleInv, AddressHolds
<1>3. /\ staged.history = Before(length)
      /\ staged.sums = [n \in 1..waiting |-> TapsAt(consumed + n - 1)]
  <2>1. PICK m \in 0..waiting : staged = StagedAt(m)
    BY <1>1 DEF PleInv, ValueHolds
  <2>2. Len([n \in 1..m |-> TapsAt(consumed + n - 1)]) = m
    BY <1>2
  <2>3. m = waiting
    BY <1>1, <2>1, <2>2 DEF StagedAt
  <2> QED
    BY <1>2, <2>1, <2>3 DEF StagedAt
<1>4. emitted' = [i \in 1..length |-> IntentsAt(stream, i)]
  <2> DEFINE f == [i \in 1..length |-> IntentsAt(stream, i)]
  <2>1. emitted = [i \in 1..consumed |-> f[i]]
    BY <1>2 DEF PleInv, AddressHolds
  <2>2. [n \in DOMAIN intents |-> intents[n].at] = [n \in 1..waiting |-> f[consumed + n]]
    <3>1. \A n \in 1..waiting : intents[n].at = IntentsAt(stream, consumed + n)
      BY <1>2 DEF PleInv, AddressHolds
    <3>2. \A n \in 1..waiting : f[consumed + n] = IntentsAt(stream, consumed + n)
      BY <1>2
    <3> QED
      BY <1>2, <3>1, <3>2
  <2>3. f = [i \in 1..(consumed + waiting) |-> f[i]]
    BY <1>2
  <2> HIDE DEF f
  <2>4. [i \in 1..consumed |-> f[i]] \o [n \in 1..waiting |-> f[consumed + n]]
          = [i \in 1..(consumed + waiting) |-> f[i]]
    BY <1>2, JoinPlaces, ZenonT(30)
  <2>5. emitted' = f
    BY <1>1, <2>1, <2>2, <2>3, <2>4
  <2> QED
    BY <2>5 DEF f
<1>5. convolved' = [i \in 1..length |-> TapsAt(i - 1)]
  <2> DEFINE f == [i \in 1..length |-> TapsAt(i - 1)]
  <2>1. convolved = [i \in 1..consumed |-> f[i]]
    BY <1>2 DEF PleInv, ValueHolds
  <2>2. staged.sums = [n \in 1..waiting |-> f[consumed + n]]
    <3>1. \A n \in 1..waiting : /\ f[consumed + n] = TapsAt((consumed + n) - 1)
                                /\ (consumed + n) - 1 = consumed + n - 1
      BY <1>2
    <3> QED
      BY <1>3, <3>1
  <2>3. f = [i \in 1..(consumed + waiting) |-> f[i]]
    BY <1>2
  <2> HIDE DEF f
  <2>4. [i \in 1..consumed |-> f[i]] \o [n \in 1..waiting |-> f[consumed + n]]
          = [i \in 1..(consumed + waiting) |-> f[i]]
    BY <1>2, JoinPlaces, ZenonT(30)
  <2>5. convolved' = f
    BY <1>1, <2>1, <2>2, <2>3, <2>4
  <2> QED
    BY <2>5 DEF f
<1>6. value' = [position |-> length, history |-> Before(length)]
  BY <1>1, <1>2, <1>3
<1>7. AddressHolds'
  <2>1. intents' = [n \in 1..(length - length) |->
                      [position |-> length + n - 1, at |-> IntentsAt(stream, length + n)]]
    BY <1>1, <1>2
  <2>2. value'.position = length /\ length \in 0..length
    BY <1>2, <1>6
  <2> QED
    BY <1>1, <1>4, <2>1, <2>2 DEF PleInv, AddressHolds
<1>8. ValueHolds'
  BY <1>1, <1>5, <1>6 DEF ValueHolds
<1> QED
  BY <1>7, <1>8 DEF PleInv

\* A reset returns to the initial state.
LEMMA ResetInv == ASSUME PleInv, Reset PROVE PleInv'
<1>1. /\ address' = FreshAddress /\ value' = FreshValue /\ intents' = << >>
      /\ stream' = << >> /\ emitted' = << >> /\ convolved' = << >> /\ ~running'
  BY DEF Reset
<1>2. << >> \in Seq(Token) /\ Len(<< >>) = 0
  BY EmptySeq
<1>3. HistoryLength \in Nat \ {0} /\ ContextLength \in Nat
  BY HistoryLengthType, PleAssumption
<1>4. FreshValue = [position |-> 0, history |-> Before(0)]
  BY <1>3 DEF FreshValue, Before, Missing
<1>5. AddressHolds'
  <2>1. [i \in 1..0 |-> IntentsAt(<< >>, i)] = << >>
    OBVIOUS
  <2>2. [n \in 1..0 |-> [position |-> 0 + n - 1, at |-> IntentsAt(<< >>, 0 + n)]] = << >>
    OBVIOUS
  <2>3. address' = [position |-> 0, history |-> <<EosToken, EosToken>>]
    BY <1>1 DEF FreshAddress
  <2>4. value'.position = 0
    BY <1>1 DEF FreshValue
  <2>5. TokenAt(<< >>, 0 - 1) = EosToken /\ TokenAt(<< >>, 0) = EosToken
    BY DEF TokenAt
  <2> QED
    BY <1>1, <1>2, <1>3, <2>1, <2>2, <2>3, <2>4, <2>5 DEF AddressHolds
<1>6. ValueHolds'
  <2>1. [i \in 1..0 |-> TapsAt(i - 1)] = << >>
    OBVIOUS
  <2> QED
    BY <1>1, <1>4, <2>1 DEF ValueHolds
<1> QED
  BY <1>5, <1>6 DEF PleInv

LEMMA Invariance == Spec => []PleInv
<1>1. PleInv /\ [Next]_vars => PleInv'
  BY AddressInv, BeginInv, ConsumeInv, FailInv, CommitInv, ResetInv DEF Next
<1> QED
  BY InitInv, <1>1, PTL DEF Spec
-----------------------------------------------------------------------------
(* The properties. *)

\* The window of a token by the document is the one the address engine hashes.
LEMMA WindowIs ==
    ASSUME AddressHolds, NEW i \in 1..Len(stream)
    PROVE  /\ Intents(Window(i)) = IntentsAt(stream, i)
           /\ \A n \in {2, 3} : SubSeq(Window(i), 1, n) \in [1..n -> Token]
<1> DEFINE a == TokenAt(stream, i - 2)
           b == TokenAt(stream, i - 1)
           c == TokenAt(stream, i)
<1>1. Len(stream) \in Nat /\ stream \in Seq(Token) /\ EosToken \in Token
  BY Waiting, PleAssumption DEF AddressHolds
<1>2. /\ Back(i, 0) = c /\ Back(i, 1) = b /\ Back(i, 2) = a
  BY <1>1 DEF Back, TokenAt
<1>3. a \in Token /\ b \in Token /\ c \in Token
  <2>1. \A j \in 1..Len(stream) : stream[j] \in Token
    BY <1>1, ElementOfSeq
  <2> QED
    BY <1>1, <2>1 DEF TokenAt
<1> HIDE DEF a, b, c
<1>4. Window(i) = <<c, b, IF b = EosToken \/ a = EosToken THEN EosToken ELSE a>>
  <2>1. Window(i)[1] = c
    BY <1>2 DEF Window
  <2>2. Window(i)[2] = b
    <3>1. (\E k \in 1..1 : Back(i, k) = EosToken) <=> b = EosToken
      BY <1>2
    <3> QED
      BY <1>2, <3>1 DEF Window
  <2>3. Window(i)[3] = IF b = EosToken \/ a = EosToken THEN EosToken ELSE a
    <3>1. (\E k \in 1..2 : Back(i, k) = EosToken) <=> b = EosToken \/ a = EosToken
      BY <1>2
    <3> QED
      BY <1>2, <3>1 DEF Window
  <2>4. Window(i) = <<Window(i)[1], Window(i)[2], Window(i)[3]>>
    BY DEF Window
  <2> QED
    BY <2>1, <2>2, <2>3, <2>4
<1>5. Window(i) = Shifted(<<a, b>>, c)
  BY <1>4 DEF Shifted
<1>6. \A n \in {2, 3} : SubSeq(Window(i), 1, n) \in [1..n -> Token]
  <2>1. Window(i) \in [1..3 -> Token]
    BY <1>1, <1>3, <1>4
  <2> SUFFICES ASSUME NEW n \in {2, 3} PROVE SubSeq(Window(i), 1, n) \in [1..n -> Token]
    OBVIOUS
  <2>2. n \in Int /\ 1 \in Int /\ 1 <= n /\ n - 1 + 1 = n
    OBVIOUS
  <2>3. \A j \in 1..n : Window(i)[j] \in Token
    BY <2>1
  <2>4. SubSeq(Window(i), 1, n) \in Seq(Token) /\ Len(SubSeq(Window(i), 1, n)) = n
    BY <2>2, <2>3, SubSeqProperties
  <2> QED
    BY <2>4, LenProperties
<1> QED
  BY <1>5, <1>6 DEF IntentsAt, a, b, c

\* The address of a head is a row of the head's own range, and so of the table.
LEMMA IntentInRange ==
    ASSUME NEW h \in HeadIds, NEW window,
           \A n \in {2, 3} : SubSeq(window, 1, n) \in [1..n -> Token]
    PROVE  LET place == Intents(window)[h]
           IN  /\ place.global >= HeadOffset[h]
               /\ place.global < HeadOffset[h] + HeadVocabSize[h]
               /\ place.global < ActiveRows
               /\ place.member \in 0..(Members - 1) /\ place.row \in 0..(MemberRows - 1)
<1> DEFINE mixed == Hash(SubSeq(window, 1, Order[h]))
           within == mixed % HeadVocabSize[h]
           global == HeadOffset[h] + within
<1>1. /\ HeadOffset[h] \in Nat /\ HeadVocabSize[h] \in Nat \ {0} /\ Order[h] \in {2, 3}
      /\ MemberRows \in Nat \ {0} /\ Members \in Nat \ {0}
      /\ ActiveRows <= MemberRows * Members
  BY PleAssumption DEF ActiveRows
<1>2. ActiveRows \in Nat
  BY PleAssumption DEF ActiveRows, HeadIds
<1>3. mixed \in Nat
  BY <1>1, PleAssumption
<1> HIDE DEF mixed
<1>4. within \in 0..(HeadVocabSize[h] - 1)
  BY <1>1, <1>3
<1> HIDE DEF within
<1>5. /\ global \in Nat /\ global >= HeadOffset[h]
      /\ global < HeadOffset[h] + HeadVocabSize[h] /\ global < ActiveRows
  BY <1>1, <1>2, <1>4, HeadWithinTable
<1> HIDE DEF global
<1>6. global < MemberRows * Members
  <2>1. MemberRows * Members \in Nat
    BY <1>1
  <2> QED
    BY <1>1, <1>2, <1>5, <2>1
<1>7. global \div MemberRows \in 0..(Members - 1) /\ global % MemberRows \in 0..(MemberRows - 1)
  BY <1>1, <1>5, <1>6, RowOfMember
<1>8. Intents(window)[h] = [global |-> global, member |-> global \div MemberRows,
                            row |-> global % MemberRows]
  BY DEF Intents, Intent, global, within, mixed
<1> QED
  BY <1>5, <1>7, <1>8

\* However the stream was cut into chunks, failed, was run again or was reset,
\* every token's addresses are those of its window of the whole stream, in the
\* range of their heads: for any hash, any ranges of the heads and any table.
THEOREM AddressesOfStream == Spec => []ChunksDoNotMatter
<1>1. ASSUME PleInv PROVE ChunksDoNotMatter
  <2>1. /\ Len(stream) \in Nat /\ value.position \in 0..Len(stream)
        /\ DOMAIN intents = 1..(Len(stream) - value.position)
    BY <1>1, Waiting DEF PleInv, AddressHolds
  <2>2. emitted = [i \in 1..value.position |-> IntentsAt(stream, i)]
    BY <1>1 DEF PleInv, AddressHolds
  <2>3. DOMAIN emitted = 1..value.position /\ Len(emitted) = value.position
    BY <2>1, <2>2
  <2>4. ASSUME NEW i \in DOMAIN emitted PROVE emitted[i] = Intents(Window(i))
    <3>1. i \in 1..value.position /\ i \in 1..Len(stream)
      BY <2>1, <2>3
    <3> QED
      BY <1>1, <2>2, <3>1, WindowIs DEF PleInv
  <2>5. ASSUME NEW n \in DOMAIN intents
        PROVE  /\ intents[n].at = Intents(Window(Len(emitted) + n))
               /\ \A h \in HeadIds :
                    LET a == intents[n].at[h]
                    IN  /\ a.global >= HeadOffset[h]
                        /\ a.global < HeadOffset[h] + HeadVocabSize[h]
                        /\ a.global < ActiveRows
                        /\ a.member < Members /\ a.row < MemberRows
    <3>1. value.position + n \in 1..Len(stream) /\ n \in 1..(Len(stream) - value.position)
      BY <2>1
    <3>2. intents[n].at = IntentsAt(stream, value.position + n)
      BY <1>1, <3>1 DEF PleInv, AddressHolds
    <3>3. intents[n].at = Intents(Window(value.position + n))
      BY <1>1, <3>1, <3>2, WindowIs DEF PleInv
    <3>4. ASSUME NEW h \in HeadIds
          PROVE  LET a == intents[n].at[h]
                 IN  /\ a.global >= HeadOffset[h]
                     /\ a.global < HeadOffset[h] + HeadVocabSize[h]
                     /\ a.global < ActiveRows
                     /\ a.member < Members /\ a.row < MemberRows
      <4> DEFINE window == Window(value.position + n)
      <4>1. \A k \in {2, 3} : SubSeq(window, 1, k) \in [1..k -> Token]
        BY <1>1, <3>1, WindowIs DEF PleInv
      <4>2. Members \in Nat /\ MemberRows \in Nat
        BY PleAssumption
      <4> HIDE DEF window
      <4>3. LET a == Intents(window)[h]
            IN  /\ a.global >= HeadOffset[h]
                /\ a.global < HeadOffset[h] + HeadVocabSize[h]
                /\ a.global < ActiveRows
                /\ a.member \in 0..(Members - 1) /\ a.row \in 0..(MemberRows - 1)
        BY <4>1, IntentInRange
      <4> QED
        BY <3>3, <4>2, <4>3 DEF window
    <3> QED
      BY <2>3, <3>3, <3>4
  <2> QED
    BY <2>4, <2>5 DEF ChunksDoNotMatter
<1> QED
  BY <1>1, Invariance, PTL

\* Every output is convolved from its own position and the dilated ones before
\* it, across chunks, failed runs and resets, for any kernel and dilation.
THEOREM TapsAreDilated == Spec => []TapsDilated
<1>1. ASSUME PleInv PROVE TapsDilated
  <2>1. convolved = [i \in 1..value.position |-> TapsAt(i - 1)]
    BY <1>1 DEF PleInv, ValueHolds
  <2>2. DOMAIN convolved = 1..value.position
    BY <2>1
  <2>3. \A i \in DOMAIN convolved : convolved[i] = TapsAt(i - 1)
    BY <2>1
  <2>4. value.position \in Nat /\ Taps \in Nat /\ Dilation \in Nat
    BY <1>1, Waiting, PleAssumption DEF PleInv, AddressHolds
  <2>5. ASSUME NEW i \in DOMAIN convolved, NEW k \in 1..Taps
        PROVE  (i - 1) - ((Taps - k) * Dilation) = i - 1 - (Taps - k) * Dilation
    OBVIOUS
  <2> QED
    BY <2>2, <2>3, <2>5 DEF TapsDilated, TapsAt
<1> QED
  BY <1>1, Invariance, PTL

\* The value stream always expects the intents that wait for it, and the state
\* of the address engine passes its own validation, whatever call failed.
THEOREM StreamsStayAligned == Spec => []StreamsAligned
<1>1. ASSUME PleInv PROVE StreamsAligned
  <2>1. /\ Len(stream) \in Nat /\ value.position \in 0..Len(stream)
        /\ Len(intents) = Len(stream) - value.position
        /\ DOMAIN intents = 1..Len(intents)
    BY <1>1, Waiting DEF PleInv, AddressHolds
  <2>2. /\ address.position = Len(stream)
        /\ address.history = <<TokenAt(stream, Len(stream) - 1), TokenAt(stream, Len(stream))>>
        /\ Len(stream) <= ContextLength
    BY <1>1 DEF PleInv, AddressHolds
  <2>3. Valid(address)
    <3>1. Len(stream) \in {0, 1} => TokenAt(stream, Len(stream) - 1) = EosToken
      BY DEF TokenAt
    <3>2. Len(stream) = 0 => TokenAt(stream, Len(stream)) = EosToken
      BY DEF TokenAt
    <3> QED
      BY <2>2, <3>1, <3>2 DEF Valid
  <2>4. \A n \in DOMAIN intents : intents[n].position = value.position + n - 1
    BY <1>1, <2>1 DEF PleInv, AddressHolds
  <2> QED
    BY <2>1, <2>2, <2>3, <2>4 DEF StreamsAligned
<1> QED
  BY <1>1, Invariance, PTL
=============================================================================
