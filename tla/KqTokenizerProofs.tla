------------------------- MODULE KqTokenizerProofs -------------------------
(***************************************************************************)
(* The tokenizer, for any vocabulary and any text.                         *)
(*                                                                         *)
(* The pretokens.  Each case of the cursor takes what one alternative of   *)
(* the expression takes at its longest, and finds those before it without  *)
(* a match (WordIs to NextIsRegex); so both cut a text at the same places  *)
(* (CutAsRegex).                                                           *)
(*                                                                         *)
(* The merges.  A round replaces every place of the pair of the lowest     *)
(* rank at once.  It is as many single merges as there are places, because *)
(* what it makes is part of pairs of higher ranks only: the merges are in  *)
(* the order they were learnt in (RoundIsSteps).  Merging ends where       *)
(* nothing is left to merge, and single merges end at one place only.      *)
(*                                                                         *)
(* The round trip.  What two tokens merge to is spelled as the two, one    *)
(* behind the other, so merging changes nothing of what is spelled         *)
(* (MergedSpells); the words of the bytes spell the bytes.  Decoding       *)
(* gathers the words of ordinary tokens until a special one or the end,    *)
(* and repairs what it gathered, which changes nothing of a text           *)
(* (RepairedSame) and leaves UTF-8 of any bytes (RepairedWell).            *)
(*                                                                         *)
(* A recursive function is known by what it is at each place, once a       *)
(* function that is so is known to exist (UpwardExists, DownwardExists):   *)
(* by a least place without one, as all induction here.                    *)
(***************************************************************************)
EXTENDS KqTokenizer, SequenceTheorems, FiniteSetTheorems, WellFoundedInduction, TLAPS

\* Every set of naturals that is not empty has a least member.
LEMMA Least ==
    ASSUME NEW S \in SUBSET Nat, S # {}
    PROVE  \E x \in S : \A y \in S : x <= y
  <1>1. IsWellFoundedOn(OpToRel(<, Nat), Nat)
    BY NatLessThanWellFounded
  <1>2. PICK x \in S : \A y \in S : ~(<<y, x>> \in OpToRel(<, Nat))
    BY <1>1, WFMin
  <1>3. \A y \in S : ~(y < x)
    BY <1>2 DEF OpToRel
  <1> QED
    BY <1>3
-----------------------------------------------------------------------------
(* The expression a text is cut by.                                        *)

\* Every bounded set of naturals that is not empty has a greatest member.
LEMMA Greatest ==
    ASSUME NEW S \in SUBSET Nat, S # {}, NEW n \in Nat, \A x \in S : x <= n
    PROVE  \E x \in S : \A y \in S : y <= x
  <1> DEFINE T == {n - x : x \in S}
  <1>1. T \in SUBSET Nat /\ T # {}
    <2>1. ASSUME NEW t \in T PROVE t \in Nat
      <3>1. PICK x \in S : t = n - x
        OBVIOUS
      <3>2. x \in Nat /\ x <= n
        OBVIOUS
      <3> QED
        BY <3>1, <3>2
    <2>2. PICK x \in S : TRUE
      OBVIOUS
    <2>3. n - x \in T
      OBVIOUS
    <2> HIDE DEF T
    <2> QED
      BY <2>1, <2>3
  <1>2. PICK t \in T : \A u \in T : t <= u
    <2> HIDE DEF T
    <2> QED
      BY <1>1, Least
  <1>3. PICK x \in S : t = n - x
    OBVIOUS
  <1>4. ASSUME NEW y \in S PROVE y <= x
    <2>1. n - y \in T
      OBVIOUS
    <2>2. t <= n - y
      BY <1>2, <2>1
    <2> QED
      BY <1>3, <2>2
  <1> QED
    BY <1>4

\* What the length of a stretch says.
LEMMA StretchIs ==
    ASSUME NEW C, NEW points \in Seq(C), NEW at \in 1..Len(points) + 1, NEW class,
           NEW n, n = Stretch(points, at, class)
    PROVE  /\ n \in Nat /\ at + n <= Len(points) + 1
           /\ \A k \in at..at + n - 1 : Is(class, points[k])
           /\ at + n <= Len(points) => ~Is(class, points[at + n])
  <1> DEFINE L == Len(points)
             outside == {k \in at..L : ~Is(class, points[k])}
             end == IF outside = {} THEN L + 1 ELSE CHOOSE k \in outside : \A j \in outside : k <= j
  <1>0. L \in Nat /\ at \in Nat /\ 1 <= at /\ at <= L + 1
    BY LenProperties
  <1>1. n = end - at
    BY Zenon DEF Stretch
  <1>2. CASE outside = {}
    <2>1. end = L + 1
      BY <1>2
    <2>2. \A k \in at..L : Is(class, points[k])
      BY <1>2
    <2> HIDE DEF end, outside, L
    <2> QED
      BY <1>0, <1>1, <2>1, <2>2 DEF L
  <1>3. CASE outside # {}
    <2>1. \E k \in outside : \A j \in outside : k <= j
      <3>1. outside \in SUBSET Nat
        BY <1>0
      <3> HIDE DEF outside
      <3> QED
        BY <1>3, <3>1, Least
    <2>2. end \in outside /\ \A j \in outside : end <= j
      <3> HIDE DEF outside
      <3> QED
        BY <1>3, <2>1
    <2> HIDE DEF end
    <2>3. end \in at..L /\ ~Is(class, points[end])
      BY <2>2
    <2>4. ASSUME NEW k \in at..end - 1 PROVE Is(class, points[k])
      <3>1. k \in at..L /\ ~(end <= k)
        BY <1>0, <2>3
      <3> QED
        BY <2>2, <3>1
    <2> HIDE DEF outside, L
    <2> QED
      BY <1>0, <1>1, <2>3, <2>4 DEF L
  <1> QED
    BY <1>2, <1>3

\* The classes.
LEMMA Classes ==
    ASSUME NEW c
    PROVE  /\ Is("letter", c) <=> IsLetter(c)
           /\ Is("space", c) <=> IsSpace(c)
           /\ Is("crlf", c) <=> IsCrLf(c)
           /\ Is("other", c) <=> IsOther(c)
           /\ Is("continuation", c) <=> IsContinuation(c)
  BY DEF Is, IsLetter, IsSpace, IsCrLf, IsOther, IsContinuation

\* What is of one category is of no other.
LEMMA Exclusive ==
    ASSUME NEW c
    PROVE  /\ IsLetter(c) => ~IsNumber(c) /\ ~IsSpace(c) /\ ~IsCrLf(c) /\ ~IsOther(c) /\ c # 39
                             /\ c # 32
           /\ IsNumber(c) => ~IsSpace(c) /\ ~IsCrLf(c) /\ ~IsOther(c) /\ c # 39 /\ c # 32
           /\ IsCrLf(c) => IsSpace(c) /\ ~IsOther(c)
           /\ IsSpace(c) => ~IsOther(c)
           /\ c = 32 => IsSpace(c) /\ ~IsCrLf(c)
           /\ c = 39 => ~IsSpace(c)
           /\ ~IsLetter(c) /\ ~IsNumber(c) /\ ~IsSpace(c) => IsOther(c)
  <1>1. IsCrLf(c) => IsSpace(c)
    BY DEF IsCrLf, IsSpace
  <1>2. c = 32 => IsSpace(c) /\ ~IsCrLf(c)
    BY DEF IsCrLf, IsSpace
  <1>3. c = 39 => ~IsSpace(c)
    BY DEF IsSpace
  <1>4. IsLetter(c) => ~IsNumber(c) /\ ~IsSpace(c) /\ c # 39
    BY CategoriesAssumption DEF IsLetter, IsNumber
  <1>5. IsNumber(c) => ~IsSpace(c) /\ c # 39
    BY CategoriesAssumption DEF IsNumber
  <1>6. IsOther(c) <=> ~IsSpace(c) /\ ~IsLetter(c) /\ ~IsNumber(c)
    BY DEF IsOther
  <1> QED
    BY <1>1, <1>2, <1>3, <1>4, <1>5, <1>6, Zenon

\* A stretch of a class between two places.
All(points, from, to, class) == \A k \in from..to : Is(class, points[k])

\* The alternatives one by one.
Alternatives(points, at) ==
    LET lengths == 1..Len(points) + 1 - at
        first   == points[at]
    IN  << {n \in lengths : /\ first = 39
                            /\ [k \in 1..n - 1 |-> LowerAscii(points[at + k])]
                                 \in {Endings[s] : s \in DOMAIN Endings}},
           {n \in lengths : \E o \in {0, 1} :
              /\ o < n /\ All(points, at + o, at + n - 1, "letter")
              /\ o = 1 => ~IsCrLf(first) /\ ~IsLetter(first) /\ ~IsNumber(first)},
           {n \in lengths : n = 1 /\ IsNumber(first)},
           {n \in lengths : \E o \in {0, 1}, m \in 1..n :
              /\ o < m /\ (o = 1 => first = 32)
              /\ All(points, at + o, at + m - 1, "other")
              /\ All(points, at + m, at + n - 1, "crlf")},
           {n \in lengths : All(points, at, at + n - 1, "space") /\ IsCrLf(points[at + n - 1])},
           {n \in lengths : /\ All(points, at, at + n - 1, "space")
                            /\ at + n <= Len(points) => IsSpace(points[at + n])},
           {n \in lengths : All(points, at, at + n - 1, "space")} >>

\* A stretch of a class, class by class.
LEMMA AllIs ==
    ASSUME NEW points, NEW from, NEW to
    PROVE  /\ All(points, from, to, "letter") <=> \A k \in from..to : IsLetter(points[k])
           /\ All(points, from, to, "other") <=> \A k \in from..to : IsOther(points[k])
           /\ All(points, from, to, "crlf") <=> \A k \in from..to : IsCrLf(points[k])
           /\ All(points, from, to, "space") <=> \A k \in from..to : IsSpace(points[k])
  BY Classes, Zenon DEF All

\* The alternatives of the expression are what it may match.
LEMMA MatchesAre ==
    ASSUME NEW points, NEW at
    PROVE  Matches(points, at) = Alternatives(points, at)
  BY AllIs, Zenon DEF Matches, Alternatives

\* There are seven of them.
LEMMA AlternativesCount ==
    ASSUME NEW points, NEW at
    PROVE  DOMAIN Alternatives(points, at) = 1..7
  BY DEF Alternatives

\* The alternative that is taken and the length it takes.
LEMMA RegexTakes ==
    ASSUME NEW points, NEW at, NEW a \in 1..7, NEW n \in Int,
           n \in Alternatives(points, at)[a],
           \A m \in Alternatives(points, at)[a] : m \in Int /\ m <= n,
           \A b \in 1..a - 1 : Alternatives(points, at)[b] = {}
    PROVE  RegexLength(points, at) = n
  <1> DEFINE matches == Matches(points, at)
             FirstOf(c) == matches[c] # {} /\ \A b \in 1..c - 1 : matches[b] = {}
             first == CHOOSE c \in DOMAIN matches : FirstOf(c)
             Most(k) == \A m \in matches[first] : m <= k
  <1>1. matches = Alternatives(points, at) /\ DOMAIN matches = 1..7
    <2>1. DOMAIN Alternatives(points, at) = 1..7
      BY AlternativesCount
    <2> QED
      BY <2>1, MatchesAre
  <1>2. RegexLength(points, at) = CHOOSE k \in matches[first] : Most(k)
    BY Zenon DEF RegexLength
  <1> HIDE DEF matches
  <1>3. a \in DOMAIN matches /\ FirstOf(a)
    BY <1>1
  <1>4. first \in DOMAIN matches /\ FirstOf(first)
    BY <1>3
  <1> HIDE DEF first
  <1>5. first = a
    <2>1. first \in 1..7 /\ matches[first] # {} /\ matches[a] # {}
      BY <1>1, <1>3, <1>4
    <2>2. ~(first \in 1..a - 1)
      BY <1>1, <2>1
    <2>3. ~(a \in 1..first - 1)
      BY <1>4, <2>1
    <2> QED
      BY <2>1, <2>2, <2>3
  <1>6. n \in matches[first] /\ Most(n)
    BY <1>1, <1>5
  <1>7. \A k \in matches[first] : Most(k) => k = n
    <2> SUFFICES ASSUME NEW k \in matches[first], Most(k) PROVE k = n
      OBVIOUS
    <2>1. n <= k /\ k <= n /\ k \in Int
      BY <1>1, <1>5, <1>6
    <2> QED
      BY <2>1
  <1> HIDE DEF Most
  <1> QED
    BY <1>2, <1>6, <1>7

\* A contraction is as long as the alternative can be: no ending is the beginning of
\* another.
LEMMA ContractionIs ==
    ASSUME NEW C, NEW points \in Seq(C), NEW at \in 1..Len(points)
    PROVE  LET n == Contraction(points, at)
           IN  IF n = 0 THEN Alternatives(points, at)[1] = {}
               ELSE Alternatives(points, at)[1] = {n} /\ n \in Nat
  <1> DEFINE L == Len(points)
             there(s) == /\ at + Len(Endings[s]) <= L
                         /\ \A k \in DOMAIN Endings[s] :
                              LowerAscii(points[at + k]) = Endings[s][k]
             found == {s \in DOMAIN Endings : there(s)}
             Low(n) == [k \in 1..n - 1 |-> LowerAscii(points[at + k])]
             one == Alternatives(points, at)[1]
             low(k) == LowerAscii(points[at + k])
  <1>0. L \in Nat /\ at \in Nat /\ 1 <= at /\ at <= L
    BY LenProperties
  <1>1. one = {n \in 1..L + 1 - at : /\ points[at] = 39
                                     /\ Low(n) \in {Endings[s] : s \in DOMAIN Endings}}
    BY DEF Alternatives
  <1>2. Contraction(points, at) =
          IF points[at] # 39 \/ found = {} THEN 0
          ELSE 1 + Len(Endings[CHOOSE s \in found : \A r \in found : s <= r])
    BY Zenon DEF Contraction
  <1>3. /\ DOMAIN Endings = 1..7
        /\ \A s \in 1..7 : Len(Endings[s]) \in {1, 2} /\ DOMAIN Endings[s] = 1..Len(Endings[s])
    BY DEF Endings
  <1>4. \A s, r \in 1..7 : Endings[s][1] = Endings[r][1] => s = r
    BY SMTT(30) DEF Endings
  <1>5. \A s \in 1..7 : Endings[s] = [k \in 1..Len(Endings[s]) |-> Endings[s][k]]
    <2> SUFFICES ASSUME NEW s \in 1..7
                 PROVE  Endings[s] = [k \in 1..Len(Endings[s]) |-> Endings[s][k]]
      OBVIOUS
    <2> DEFINE e == Endings[s]
    <2>1. e \in Seq(Nat)
      <3>1. /\ <<115>> \in Seq(Nat) /\ <<116>> \in Seq(Nat) /\ <<114, 101>> \in Seq(Nat)
            /\ <<118, 101>> \in Seq(Nat) /\ <<109>> \in Seq(Nat) /\ <<108, 108>> \in Seq(Nat)
            /\ <<100>> \in Seq(Nat)
        OBVIOUS
      <3> DEFINE A == {<<115>>, <<116>>, <<114, 101>>, <<118, 101>>, <<109>>, <<108, 108>>,
                       <<100>>}
      <3>2. A \subseteq Seq(Nat)
        BY <3>1
      <3>3. e \in A
        BY DEF Endings
      <3> HIDE DEF A, e
      <3> QED
        BY <3>2, <3>3
    <2> HIDE DEF e
    <2>2. e \in [1..Len(e) -> Nat]
      BY <2>1, LenProperties
    <2>3. e = [k \in 1..Len(e) |-> e[k]]
      BY <2>2
    <2> QED
      BY <2>3 DEF e
  <1>6. ASSUME NEW s \in 1..7, there(s), points[at] = 39
        PROVE  1 + Len(Endings[s]) \in one
    <2>1. 1 + Len(Endings[s]) \in 1..L + 1 - at
      <3> DEFINE m == Len(Endings[s])
      <3>1. m \in {1, 2} /\ at + m <= L
        BY <1>3, <1>6
      <3> HIDE DEF m, L
      <3>2. 1 + m \in 1..L + 1 - at
        BY <1>0, <3>1
      <3> QED
        BY <3>2 DEF m, L
    <2>2. Low(1 + Len(Endings[s])) = Endings[s]
      <3> DEFINE m == Len(Endings[s])
      <3>1. m \in Nat /\ (1 + m) - 1 = m /\ DOMAIN Endings[s] = 1..m
        BY <1>3
      <3>2. \A k \in 1..m : low(k) = Endings[s][k]
        BY <1>6, <3>1
      <3>3. Endings[s] = [k \in 1..m |-> Endings[s][k]]
        BY <1>5
      <3> HIDE DEF m
      <3> QED
        BY <3>1, <3>2, <3>3 DEF m
    <2>3. Low(1 + Len(Endings[s])) \in {Endings[r] : r \in DOMAIN Endings}
      BY <1>3, <2>2
    <2>4. points[at] = 39
      BY <1>6
    <2> HIDE DEF L, Low, found, there
    <2> QED
      BY <1>1, <2>1, <2>3, <2>4
  <1>7. ASSUME NEW n \in one
        PROVE  points[at] = 39 /\ \E s \in 1..7 : there(s) /\ n = 1 + Len(Endings[s])
    <2>1. n \in 1..L + 1 - at /\ points[at] = 39
      BY <1>1, <1>7
    <2>2. PICK s \in 1..7 : Low(n) = Endings[s]
      BY <1>1, <1>3, <1>7
    <2>3. n - 1 = Len(Endings[s])
      <3>1. DOMAIN Endings[s] = 1..n - 1 /\ n - 1 \in Nat
        BY <2>1, <2>2
      <3> QED
        BY <1>3, <3>1
    <2>4. n = 1 + Len(Endings[s]) /\ at + Len(Endings[s]) <= L
      <3> DEFINE m == Len(Endings[s])
      <3>1. m \in {1, 2} /\ n - 1 = m
        BY <1>3, <2>3
      <3> HIDE DEF m, L
      <3>2. n = 1 + m /\ at + m <= L
        BY <1>0, <2>1, <3>1
      <3> QED
        BY <3>2 DEF m, L
    <2>5. \A k \in DOMAIN Endings[s] : LowerAscii(points[at + k]) = Endings[s][k]
      BY <2>2
    <2> QED
      BY <2>1, <2>4, <2>5
  <1>8. ASSUME NEW s \in 1..7, NEW r \in 1..7, there(s), there(r) PROVE s = r
    <2>1. 1 \in DOMAIN Endings[s] /\ 1 \in DOMAIN Endings[r]
      <3>1. ASSUME NEW t \in 1..7 PROVE 1 \in DOMAIN Endings[t]
        <4> DEFINE m == Len(Endings[t])
        <4>1. DOMAIN Endings[t] = 1..m /\ m \in {1, 2}
          BY <1>3
        <4> HIDE DEF m
        <4> QED
          BY <4>1
      <3> QED
        BY <3>1
    <2>2. Endings[s][1] = low(1) /\ Endings[r][1] = low(1)
      BY <1>8, <2>1
    <2> HIDE DEF low
    <2> QED
      BY <1>4, <2>2
  <1>9. CASE points[at] # 39 \/ found = {}
    <2>1. Contraction(points, at) = 0
      BY <1>2, <1>9
    <2>2. one = {}
      BY <1>3, <1>7, <1>9
    <2> QED
      BY <2>1, <2>2
  <1>10. CASE points[at] = 39 /\ found # {}
    <2>1. PICK s \in 1..7 : there(s)
      BY <1>3, <1>10
    <2>2. found = {s}
      BY <1>3, <1>8, <2>1
    <2>3. (CHOOSE t \in found : \A r \in found : t <= r) = s
      BY <2>2
    <2>4. Contraction(points, at) = 1 + Len(Endings[s])
      <3> HIDE DEF found
      <3> QED
        BY <1>2, <1>10, <2>3
    <2>5. one = {1 + Len(Endings[s])}
      <3>1. 1 + Len(Endings[s]) \in one
        BY <1>6, <1>10, <2>1
      <3>2. ASSUME NEW n \in one PROVE n = 1 + Len(Endings[s])
        <4>1. PICK t \in 1..7 : there(t) /\ n = 1 + Len(Endings[t])
          BY <1>7
        <4>2. t = s
          BY <1>8, <2>1, <4>1
        <4> QED
          BY <4>1, <4>2
      <3> HIDE DEF one
      <3> QED
        BY <3>1, <3>2
    <2>6. 1 + Len(Endings[s]) \in Nat /\ 1 + Len(Endings[s]) # 0
      BY <1>3
    <2> QED
      BY <2>4, <2>5, <2>6
  <1> QED
    BY <1>9, <1>10

\* A word, with one other code point before it or without.
LEMMA WordIs ==
    ASSUME NEW C, NEW points \in Seq(C), NEW at \in 1..Len(points), NEW o \in {0, 1},
           at + o <= Len(points), IsLetter(points[at + o]),
           o = 1 => ~IsCrLf(points[at]) /\ ~IsLetter(points[at]) /\ ~IsNumber(points[at]),
           NEW n, n = o + Stretch(points, at + o, "letter")
    PROVE  /\ n \in Nat /\ n \in Alternatives(points, at)[2]
           /\ \A m \in Alternatives(points, at)[2] : m \in Int /\ m <= n
  <1> DEFINE L == Len(points)
             s == Stretch(points, at + o, "letter")
             two == Alternatives(points, at)[2]
             letters(p, m) == All(points, at + p, at + m - 1, "letter")
  <1>0. L \in Nat /\ at \in Nat /\ 1 <= at /\ at <= L /\ o \in Nat /\ o <= 1
    BY LenProperties
  <1>1. two = {m \in 1..L + 1 - at : \E p \in {0, 1} :
                 /\ p < m /\ letters(p, m)
                 /\ p = 1 => ~IsCrLf(points[at]) /\ ~IsLetter(points[at]) /\ ~IsNumber(points[at])}
    BY DEF Alternatives
  <1>2. at + o \in 1..L + 1
    BY <1>0
  <1>3. /\ s \in Nat /\ at + o + s <= L + 1
        /\ \A k \in at + o..at + o + s - 1 : Is("letter", points[k])
        /\ at + o + s <= L => ~Is("letter", points[at + o + s])
    BY <1>2, StretchIs
  <1>4. s # 0
    BY <1>0, <1>3, Classes
  <1>5. n = o + s
    OBVIOUS
  <1> HIDE DEF s, letters, L
  <1>6. n \in Nat /\ n \in 1..L + 1 - at /\ o < n
    BY <1>0, <1>3, <1>4, <1>5
  <1>7. letters(o, n)
    <2>1. at + n - 1 = at + o + s - 1
      BY <1>0, <1>3, <1>5
    <2> QED
      BY <1>3, <2>1 DEF letters, All
  <1>8. n \in two
    <2> HIDE DEF two
    <2> QED
      BY <1>1, <1>6, <1>7
  <1>9. ASSUME NEW m \in two PROVE m \in Int /\ m <= n
    <2>1. m \in 1..L + 1 - at
      BY <1>1, <1>9
    <2>2. PICK p \in {0, 1} :
            /\ p < m /\ letters(p, m)
            /\ p = 1 => ~IsCrLf(points[at]) /\ ~IsLetter(points[at]) /\ ~IsNumber(points[at])
      BY <1>1, <1>9
    <2>3. p = o
      <3>1. \A k \in at + p..at + m - 1 : IsLetter(points[k])
        BY <2>2, Classes DEF letters, All
      <3>2. at + p \in at + p..at + m - 1
        BY <1>0, <2>1, <2>2
      <3>3. IsLetter(points[at + p])
        BY <3>1, <3>2
      <3>4. at + 0 = at
        BY <1>0
      <3>5. p = 0 \/ p = 1
        OBVIOUS
      <3>6. o = 0 \/ o = 1
        OBVIOUS
      <3> HIDE DEF two
      <3> QED
        BY <2>2, <3>3, <3>4, <3>5, <3>6
    <2>4. SUFFICES ASSUME ~(m <= n) PROVE FALSE
      BY <2>1
    <2>5. at + o + s <= L /\ at + o + s \in at + p..at + m - 1
      BY <1>0, <1>3, <1>5, <2>1, <2>3, <2>4
    <2> QED
      BY <1>3, <2>2, <2>5 DEF letters, All
  <1> QED
    BY <1>6, <1>8, <1>9

\* Without a letter at either place there is no word.
LEMMA NoWord ==
    ASSUME NEW C, NEW points \in Seq(C), NEW at \in 1..Len(points),
           ~IsLetter(points[at]),
           \/ IsCrLf(points[at]) \/ IsNumber(points[at]) \/ ~Has(points, at + 1, "letter")
    PROVE  Alternatives(points, at)[2] = {}
  <1> DEFINE L == Len(points)
             two == Alternatives(points, at)[2]
             letters(p, m) == All(points, at + p, at + m - 1, "letter")
  <1>0. L \in Nat /\ at \in Nat /\ 1 <= at /\ at <= L
    BY LenProperties
  <1>1. two = {m \in 1..L + 1 - at : \E p \in {0, 1} :
                 /\ p < m /\ letters(p, m)
                 /\ p = 1 => ~IsCrLf(points[at]) /\ ~IsLetter(points[at]) /\ ~IsNumber(points[at])}
    BY DEF Alternatives
  <1>2. SUFFICES ASSUME NEW m \in two PROVE FALSE
    BY <1>1
  <1>3. m \in 1..L + 1 - at
    BY <1>1, <1>2
  <1>4. PICK p \in {0, 1} :
          /\ p < m /\ letters(p, m)
          /\ p = 1 => ~IsCrLf(points[at]) /\ ~IsLetter(points[at]) /\ ~IsNumber(points[at])
    BY <1>1, <1>2
  <1> HIDE DEF two, L
  <1>5. at + p \in at + p..at + m - 1 /\ at + p <= L
    BY <1>0, <1>3, <1>4
  <1>6. Is("letter", points[at + p])
    BY <1>4, <1>5 DEF letters, All
  <1>7. CASE p = 0
    BY <1>0, <1>6, <1>7, Classes
  <1>8. CASE p = 1
    BY <1>4, <1>5, <1>6, <1>8 DEF Has, L
  <1> QED
    BY <1>7, <1>8

\* A number stands for itself.
LEMMA NumberIs ==
    ASSUME NEW C, NEW points \in Seq(C), NEW at \in 1..Len(points)
    PROVE  Alternatives(points, at)[3] = IF IsNumber(points[at]) THEN {1} ELSE {}
  <1>1. Len(points) \in Nat /\ 1 \in 1..Len(points) + 1 - at
    BY LenProperties
  <1>2. Alternatives(points, at)[3]
          = {n \in 1..Len(points) + 1 - at : n = 1 /\ IsNumber(points[at])}
    BY DEF Alternatives
  <1> QED
    BY <1>1, <1>2

\* Whether other code points start at a place, behind a blank or not.
Punctuates(points, at) ==
    IsOther(points[at]) \/ (points[at] = 32 /\ Has(points, at + 1, "other"))

\* They are followed by the line ends behind them.
LEMMA PunctuationIs ==
    ASSUME NEW C, NEW points \in Seq(C), NEW at \in 1..Len(points),
           Punctuates(points, at),
           NEW n, n = Punctuation(points, at)
    PROVE  /\ n \in Nat /\ n \in Alternatives(points, at)[4]
           /\ \A m \in Alternatives(points, at)[4] : m \in Int /\ m <= n
  <1> DEFINE L == Len(points)
             o == IF points[at] = 32 /\ Has(points, at + 1, "other") THEN 1 ELSE 0
             from == IF points[at] = 32 /\ Has(points, at + 1, "other") THEN at + 1 ELSE at
             s == Stretch(points, from, "other")
             line == from + s
             t == Stretch(points, line, "crlf")
             four == Alternatives(points, at)[4]
             others(p, m) == All(points, at + p, at + m - 1, "other")
             ends(m, k) == All(points, at + m, at + k - 1, "crlf")
  <1>0. L \in Nat /\ at \in Nat /\ 1 <= at /\ at <= L
    BY LenProperties
  <1>1. four = {k \in 1..L + 1 - at : \E p \in {0, 1}, m \in 1..k :
                  /\ p < m /\ (p = 1 => points[at] = 32)
                  /\ others(p, m) /\ ends(m, k)}
    BY DEF Alternatives
  <1>2. n = line + t - at
    BY Zenon DEF Punctuation
  <1>3. /\ o \in {0, 1} /\ from = at + o /\ from <= L /\ IsOther(points[from])
        /\ o = 1 => points[at] = 32
        /\ o = 0 => points[at] # 32
    <2>1. CASE points[at] = 32 /\ Has(points, at + 1, "other")
      BY <1>0, <2>1, Classes DEF Has
    <2>2. CASE ~(points[at] = 32 /\ Has(points, at + 1, "other"))
      <3>1. IsOther(points[at])
        BY <2>2 DEF Punctuates
      <3>2. points[at] # 32
        BY <3>1, Exclusive
      <3> QED
        BY <1>0, <2>2, <3>1, <3>2
    <2> QED
      BY <2>1, <2>2
  <1> HIDE DEF o, from
  <1>4. /\ s \in Nat /\ line <= L + 1
        /\ \A k \in from..line - 1 : Is("other", points[k])
        /\ line <= L => ~Is("other", points[line])
    <2>1. from \in 1..L + 1
      BY <1>0, <1>3
    <2> QED
      BY <2>1, StretchIs
  <1> HIDE DEF s
  <1>5. line \in 1..L + 1
    BY <1>0, <1>3, <1>4
  <1>6. s # 0
    BY <1>0, <1>3, <1>4, Classes
  <1> HIDE DEF line
  <1>7. /\ t \in Nat /\ line + t <= L + 1
        /\ \A k \in line..line + t - 1 : Is("crlf", points[k])
        /\ line + t <= L => ~Is("crlf", points[line + t])
    BY <1>5, StretchIs
  <1> HIDE DEF t
  <1>8. line = at + o + s
    BY <1>3 DEF line
  <1> HIDE DEF four, others, ends, L
  <1>9. n \in Nat /\ n \in 1..L + 1 - at
    BY <1>0, <1>2, <1>3, <1>4, <1>6, <1>7, <1>8
  <1>10. n \in four
    <2> DEFINE m == o + s
    <2>1. m \in 1..n /\ o < m
      BY <1>0, <1>2, <1>3, <1>4, <1>6, <1>7, <1>8
    <2>2. others(o, m)
      <3>1. at + m - 1 = line - 1
        BY <1>0, <1>3, <1>4, <1>8
      <3> QED
        BY <1>3, <1>4, <3>1 DEF others, All
    <2>3. ends(m, n)
      <3>1. at + m = line /\ at + n - 1 = line + t - 1
        BY <1>0, <1>2, <1>3, <1>4, <1>7, <1>8
      <3> QED
        BY <1>7, <3>1 DEF ends, All
    <2> HIDE DEF m
    <2> QED
      BY <1>1, <1>3, <1>9, <2>1, <2>2, <2>3
  <1>11. ASSUME NEW k \in four PROVE k \in Int /\ k <= n
    <2>1. k \in 1..L + 1 - at
      BY <1>1, <1>11
    <2>2. PICK p \in {0, 1}, m \in 1..k : /\ p < m /\ (p = 1 => points[at] = 32)
                                         /\ others(p, m) /\ ends(m, k)
      BY <1>1, <1>11
    <2>3. p = o
      <3>1. at + p \in at + p..at + m - 1
        BY <1>0, <2>1, <2>2
      <3>2. IsOther(points[at + p])
        BY <2>2, <3>1, Classes DEF others, All
      <3>3. at + 0 = at
        BY <1>0
      <3>4. (p = 0 \/ p = 1) /\ (o = 0 \/ o = 1)
        BY <1>3
      <3>5. p = 0 => points[at] # 32
        BY <3>2, <3>3, Exclusive
      <3> QED
        BY <1>3, <2>2, <3>4, <3>5
    <2>4. SUFFICES ASSUME ~(k <= n) PROVE FALSE
      BY <2>1
    <2>5. at + n <= L /\ at + n = line + t
      BY <1>0, <1>2, <1>7, <1>3, <1>4, <1>8, <2>1, <2>4
    <2>6. CASE at + m > line
      <3>1. line \in at + p..at + m - 1 /\ line <= L
        BY <1>0, <1>3, <1>4, <1>6, <1>7, <1>8, <2>1, <2>2, <2>3, <2>5, <2>6
      <3> QED
        BY <1>4, <2>2, <3>1 DEF others, All
    <2>7. CASE at + m < line
      <3>1. at + m \in from..line - 1 /\ at + m \in at + m..at + k - 1
        BY <1>0, <1>2, <1>3, <1>4, <1>7, <1>8, <2>1, <2>2, <2>3, <2>4, <2>7
      <3>2. Is("other", points[at + m]) /\ Is("crlf", points[at + m])
        BY <1>4, <2>2, <3>1 DEF ends, All
      <3> QED
        BY <3>2, Classes, Exclusive
    <2>8. CASE at + m = line
      <3>1. line + t \in at + m..at + k - 1 /\ line + t <= L
        BY <1>0, <1>2, <1>3, <1>4, <1>7, <1>8, <2>1, <2>2, <2>4, <2>5, <2>8
      <3> QED
        BY <1>7, <2>2, <3>1 DEF ends, All
    <2> QED
      BY <1>0, <1>5, <2>1, <2>6, <2>7, <2>8
  <1> QED
    BY <1>9, <1>10, <1>11 DEF four

\* Without another code point at either place there are none.
LEMMA NoPunctuation ==
    ASSUME NEW C, NEW points \in Seq(C), NEW at \in 1..Len(points),
           ~Punctuates(points, at)
    PROVE  Alternatives(points, at)[4] = {}
  <1> DEFINE L == Len(points)
             four == Alternatives(points, at)[4]
             others(p, m) == All(points, at + p, at + m - 1, "other")
             ends(m, k) == All(points, at + m, at + k - 1, "crlf")
  <1>0. L \in Nat /\ at \in Nat /\ 1 <= at /\ at <= L
    BY LenProperties
  <1>1. four = {k \in 1..L + 1 - at : \E p \in {0, 1}, m \in 1..k :
                  /\ p < m /\ (p = 1 => points[at] = 32)
                  /\ others(p, m) /\ ends(m, k)}
    BY DEF Alternatives
  <1>2. SUFFICES ASSUME NEW k \in four PROVE FALSE
    BY <1>1
  <1>3. PICK p \in {0, 1}, m \in 1..k : /\ p < m /\ (p = 1 => points[at] = 32)
                                       /\ others(p, m) /\ ends(m, k)
    BY <1>1, <1>2
  <1>4. k \in 1..L + 1 - at
    BY <1>1, <1>2
  <1> HIDE DEF four, L
  <1>5. at + p \in at + p..at + m - 1 /\ at + p <= L
    BY <1>0, <1>3, <1>4
  <1>6. Is("other", points[at + p])
    BY <1>3, <1>5 DEF others, All
  <1>7. CASE p = 0
    BY <1>0, <1>6, <1>7, Classes DEF Punctuates
  <1>8. CASE p = 1
    BY <1>3, <1>5, <1>6, <1>8 DEF Has, Punctuates, L
  <1> QED
    BY <1>7, <1>8

\* White space is cut behind its last line end; without one, and with text behind it,
\* all but its last blank is taken, and the only blank there is.
LEMMA BlankIs ==
    ASSUME NEW C, NEW points \in Seq(C), NEW at \in 1..Len(points),
           IsSpace(points[at]), NEW n, n = Blank(points, at)
    PROVE  /\ n \in Nat
           /\ \E a \in 5..7 : /\ n \in Alternatives(points, at)[a]
                              /\ \A m \in Alternatives(points, at)[a] : m \in Int /\ m <= n
                              /\ \A b \in 5..a - 1 : Alternatives(points, at)[b] = {}
  <1> DEFINE L == Len(points)
             s == Stretch(points, at, "space")
             end == at + s
             crlf == {k \in at..end - 1 : IsCrLf(points[k])}
             last == CHOOSE k \in crlf : \A j \in crlf : j <= k
             five == Alternatives(points, at)[5]
             six == Alternatives(points, at)[6]
             seven == Alternatives(points, at)[7]
             blanks(m) == All(points, at, at + m - 1, "space")
  <1>0. L \in Nat /\ at \in Nat /\ 1 <= at /\ at <= L
    BY LenProperties
  <1>1. /\ five = {m \in 1..L + 1 - at : blanks(m) /\ IsCrLf(points[at + m - 1])}
        /\ six = {m \in 1..L + 1 - at : blanks(m) /\ (at + m <= L => IsSpace(points[at + m]))}
        /\ seven = {m \in 1..L + 1 - at : blanks(m)}
    BY DEF Alternatives
  <1>2. n = IF crlf # {} THEN last - at + 1
            ELSE IF end > L \/ end - at = 1 THEN end - at
            ELSE end - at - 1
    BY Zenon DEF Blank
  <1>3. /\ s \in Nat /\ end <= L + 1
        /\ \A k \in at..end - 1 : Is("space", points[k])
        /\ end <= L => ~Is("space", points[end])
    <2>1. at \in 1..L + 1
      BY <1>0
    <2> QED
      BY <2>1, StretchIs
  <1>4. s # 0
    BY <1>0, <1>3, Classes
  <1>5. \A m \in 1..L + 1 - at : blanks(m) <=> m <= s
    <2> SUFFICES ASSUME NEW m \in 1..L + 1 - at PROVE blanks(m) <=> m <= s
      OBVIOUS
    <2> HIDE DEF s, L
    <2>1. m \in Nat
      BY <1>0
    <2>2. CASE m <= s
      <3>1. \A k \in at..at + m - 1 : k \in at..end - 1
        BY <1>0, <1>3, <2>1, <2>2
      <3> HIDE DEF end
      <3> QED
        BY <1>3, <2>2, <3>1 DEF blanks, All
    <2>3. CASE ~(m <= s)
      <3>1. end \in at..at + m - 1 /\ end <= L
        BY <1>0, <1>3, <2>1, <2>3
      <3> HIDE DEF end
      <3> QED
        BY <1>3, <2>3, <3>1 DEF blanks, All
    <2> QED
      BY <2>2, <2>3
  <1> HIDE DEF s, five, six, seven, blanks, L
  <1>6. CASE crlf # {}
    <2>1. \E k \in crlf : \A j \in crlf : j <= k
      <3>1. crlf \in SUBSET Nat /\ end \in Nat /\ \A j \in crlf : j <= end
        BY <1>0, <1>3
      <3> HIDE DEF crlf, end
      <3> QED
        BY <1>6, <3>1, Greatest
    <2>2. last \in crlf /\ \A j \in crlf : j <= last
      <3> HIDE DEF crlf
      <3> QED
        BY <2>1
    <2> HIDE DEF last
    <2>3. last \in at..end - 1 /\ IsCrLf(points[last])
      BY <2>2
    <2>4. n = last - at + 1
      <3> HIDE DEF crlf, end
      <3> QED
        BY <1>2, <1>6
    <2>5. n \in Nat /\ n \in 1..L + 1 - at /\ n <= s /\ at + n - 1 = last
      BY <1>0, <1>3, <2>3, <2>4
    <2>6. n \in five
      BY <1>1, <1>5, <2>3, <2>5
    <2>7. ASSUME NEW m \in five PROVE m \in Int /\ m <= n
      <3>1. m \in 1..L + 1 - at /\ blanks(m) /\ IsCrLf(points[at + m - 1])
        BY <1>1, <2>7
      <3>2. m <= s
        BY <1>5, <3>1
      <3>3. at + m - 1 \in crlf
        BY <1>0, <1>3, <3>1, <3>2
      <3>4. at + m - 1 <= last
        <4> HIDE DEF crlf
        <4> QED
          BY <2>2, <3>3
      <3> QED
        BY <1>0, <2>3, <2>4, <1>3, <3>1, <3>4
    <2>8. 5 \in 5..7 /\ 5..5 - 1 = {}
      OBVIOUS
    <2> QED
      BY <2>5, <2>6, <2>7, <2>8 DEF five
  <1>7. CASE crlf = {}
    <2>1. five = {}
      <3> SUFFICES ASSUME NEW m \in five PROVE FALSE
        OBVIOUS
      <3>1. m \in 1..L + 1 - at /\ blanks(m) /\ IsCrLf(points[at + m - 1])
        BY <1>1
      <3>2. m <= s
        BY <1>5, <3>1
      <3>3. at + m - 1 \in crlf
        BY <1>0, <1>3, <3>1, <3>2
      <3> QED
        BY <1>7, <3>3
    <2>2. n = IF end > L \/ end - at = 1 THEN end - at ELSE end - at - 1
      <3> HIDE DEF crlf, end
      <3> QED
        BY <1>2, <1>7
    <2>3. end - at = s /\ end \in Nat
      BY <1>0, <1>3
    <2>4. CASE end <= L /\ s = 1
      <3>1. n = 1 /\ 1 \in 1..L + 1 - at
        BY <1>0, <2>2, <2>3, <2>4
      <3>2. six = {}
        <4> SUFFICES ASSUME NEW m \in six PROVE FALSE
          OBVIOUS
        <4>1. m \in 1..L + 1 - at /\ blanks(m) /\ (at + m <= L => IsSpace(points[at + m]))
          BY <1>1
        <4>2. m <= s
          BY <1>5, <4>1
        <4>3. at + m = end
          BY <1>0, <2>4, <4>1, <4>2
        <4> QED
          BY <1>3, <2>4, <4>1, <4>3, Classes
      <3>3. 1 \in seven /\ \A m \in seven : m \in Int /\ m <= 1
        <4>1. 1 <= s
          BY <2>4
        <4>2. 1 \in seven
          BY <1>1, <1>5, <3>1, <4>1
        <4>3. ASSUME NEW m \in seven PROVE m \in Int /\ m <= 1
          <5>1. m \in 1..L + 1 - at /\ blanks(m)
            BY <1>1
          <5>2. m <= s
            BY <1>5, <5>1
          <5> QED
            BY <1>0, <2>4, <5>1, <5>2
        <4> QED
          BY <4>2, <4>3
      <3>4. 7 \in 5..7 /\ \A b \in 5..7 - 1 : b = 5 \/ b = 6
        OBVIOUS
      <3>5. \A b \in 5..7 - 1 : Alternatives(points, at)[b] = {}
        <4>1. Alternatives(points, at)[5] = {} /\ Alternatives(points, at)[6] = {}
          BY <2>1, <3>2 DEF five, six
        <4> QED
          BY <3>4, <4>1
      <3>6. n \in Nat
        BY <3>1
      <3> QED
        BY <3>1, <3>3, <3>4, <3>5, <3>6 DEF seven
    <2>5. CASE ~(end <= L /\ s = 1)
      <3>1. n = IF end > L THEN s ELSE s - 1
        BY <1>0, <2>2, <2>3, <2>5
      <3>2. n \in Nat /\ n \in 1..L + 1 - at /\ n <= s
        BY <1>0, <1>3, <1>4, <2>5, <3>1
      <3>3. at + n <= L => at + n \in at..end - 1
        BY <1>0, <1>3, <1>4, <2>5, <3>1
      <3>4. n \in six
        <4>1. blanks(n)
          BY <1>5, <3>2
        <4>2. at + n <= L => IsSpace(points[at + n])
          <5> HIDE DEF end
          <5> QED
            BY <1>3, <3>3, Classes
        <4> QED
          BY <1>1, <3>2, <4>1, <4>2
      <3>5. ASSUME NEW m \in six PROVE m \in Int /\ m <= n
        <4>1. m \in 1..L + 1 - at /\ blanks(m) /\ (at + m <= L => IsSpace(points[at + m]))
          BY <1>1
        <4>2. m <= s
          BY <1>5, <4>1
        <4>3. CASE end > L
          BY <1>0, <3>1, <4>1, <4>2, <4>3
        <4>4. CASE ~(end > L)
          <5>1. end <= L
            BY <1>0, <2>3, <4>4
          <5>2. m # s
            BY <1>3, <4>1, <5>1, Classes
          <5> QED
            BY <1>0, <1>3, <3>1, <4>1, <4>2, <4>4, <5>2
        <4> QED
          BY <4>3, <4>4
      <3>6. 6 \in 5..7 /\ \A b \in 5..6 - 1 : b = 5
        OBVIOUS
      <3>7. \A b \in 5..6 - 1 : Alternatives(points, at)[b] = {}
        BY <2>1, <3>6 DEF five
      <3> QED
        BY <3>2, <3>4, <3>5, <3>6, <3>7 DEF six
    <2> QED
      BY <2>4, <2>5
  <1> QED
    BY <1>6, <1>7

\* What the cursor takes is the longest match of the first alternative that has one:
\* each of its special cases is one of the seven.
LEMMA NextIsRegex ==
    ASSUME NEW C, NEW points \in Seq(C), NEW at \in 1..Len(points)
    PROVE  /\ NextPretoken(points, at) = RegexLength(points, at)
           /\ NextPretoken(points, at) \in Alternatives(points, at)[1]
                \cup Alternatives(points, at)[2] \cup Alternatives(points, at)[3]
                \cup Alternatives(points, at)[4] \cup Alternatives(points, at)[5]
                \cup Alternatives(points, at)[6] \cup Alternatives(points, at)[7]
  <1> DEFINE c == points[at]
             n == NextPretoken(points, at)
             Alt(a) == Alternatives(points, at)[a]
             Takes(a) == /\ n \in Int /\ n \in Alt(a)
                         /\ \A m \in Alt(a) : m \in Int /\ m <= n
                         /\ \A b \in 1..a - 1 : Alt(b) = {}
  <1>1. SUFFICES \E a \in 1..7 : Takes(a)
    <2>1. PICK a \in 1..7 : Takes(a)
      BY <1>1
    <2>2. RegexLength(points, at) = n
      <3> HIDE DEF n
      <3> QED
        BY <2>1, RegexTakes
    <2>3. n \in Alt(1) \cup Alt(2) \cup Alt(3) \cup Alt(4) \cup Alt(5) \cup Alt(6) \cup Alt(7)
      <3>1. a = 1 \/ a = 2 \/ a = 3 \/ a = 4 \/ a = 5 \/ a = 6 \/ a = 7
        OBVIOUS
      <3> HIDE DEF n, Alt
      <3> QED
        BY <2>1, <3>1
    <2> QED
      BY <2>2, <2>3
  <1>2. n = IF Contraction(points, at) # 0 THEN Contraction(points, at)
            ELSE IF IsLetter(c) THEN Stretch(points, at, "letter")
            ELSE IF ~IsCrLf(c) /\ ~IsNumber(c) /\ Has(points, at + 1, "letter")
                   THEN 1 + Stretch(points, at + 1, "letter")
            ELSE IF IsNumber(c) THEN 1
            ELSE IF IsOther(c) \/ (c = 32 /\ Has(points, at + 1, "other"))
                   THEN Punctuation(points, at)
            ELSE Blank(points, at)
    BY Zenon DEF NextPretoken
  <1>0. Len(points) \in Nat /\ at \in Nat /\ 1 <= at /\ at <= Len(points)
    BY LenProperties
  <1>3. IF Contraction(points, at) = 0 THEN Alt(1) = {}
        ELSE Alt(1) = {Contraction(points, at)} /\ Contraction(points, at) \in Nat
    BY ContractionIs
  <1>4. Alt(3) = IF IsNumber(c) THEN {1} ELSE {}
    BY NumberIs
  <1>5. ~Punctuates(points, at) => Alt(4) = {}
    BY NoPunctuation
  <1>6. /\ \A b \in 1..1 - 1 : FALSE
        /\ \A b \in 1..2 - 1 : b = 1
        /\ \A b \in 1..3 - 1 : b = 1 \/ b = 2
        /\ \A b \in 1..4 - 1 : b = 1 \/ b = 2 \/ b = 3
        /\ \A a \in 5..7 : a \in 1..7 /\ \A b \in 1..a - 1 :
             b = 1 \/ b = 2 \/ b = 3 \/ b = 4 \/ b \in 5..a - 1
    OBVIOUS
  <1>7. {1, 2, 3, 4} \subseteq 1..7
    OBVIOUS
  <1> HIDE DEF n, Alt
  <1>8. CASE Contraction(points, at) # 0
    <2>1. n = Contraction(points, at) /\ n \in Nat /\ Alt(1) = {n}
      BY <1>2, <1>3, <1>8
    <2>2. Takes(1)
      BY <1>6, <2>1
    <2> HIDE DEF Takes
    <2> QED
      BY <1>7, <2>2
  <1>9. CASE Contraction(points, at) = 0 /\ IsLetter(c)
    <2>1. at + 0 = at /\ 0 + Stretch(points, at, "letter") = Stretch(points, at, "letter")
      <3>1. Stretch(points, at, "letter") \in Nat
        <4>1. at \in 1..Len(points) + 1
          BY <1>0
        <4> QED
          BY <4>1, StretchIs
      <3> QED
        BY <1>0, <3>1
    <2>2. n = Stretch(points, at, "letter")
      BY <1>2, <1>9
    <2>3. n \in Nat /\ n \in Alt(2) /\ \A m \in Alt(2) : m \in Int /\ m <= n
      <3>1. 0 \in {0, 1} /\ 0 # 1
        OBVIOUS
      <3>2. at + 0 <= Len(points) /\ IsLetter(points[at + 0])
            /\ n = 0 + Stretch(points, at + 0, "letter")
        BY <1>0, <1>9, <2>1, <2>2
      <3> QED
        BY <3>1, <3>2, WordIs DEF Alt
    <2>4. Takes(2)
      BY <1>3, <1>6, <1>9, <2>3
    <2> HIDE DEF Takes
    <2> QED
      BY <1>7, <2>4
  <1>10. CASE /\ Contraction(points, at) = 0 /\ ~IsLetter(c)
              /\ ~IsCrLf(c) /\ ~IsNumber(c) /\ Has(points, at + 1, "letter")
    <2>1. n = 1 + Stretch(points, at + 1, "letter")
      BY <1>2, <1>10
    <2>2. at + 1 <= Len(points) /\ IsLetter(points[at + 1])
      BY <1>10, Classes DEF Has
    <2>3. n \in Nat /\ n \in Alt(2) /\ \A m \in Alt(2) : m \in Int /\ m <= n
      <3>1. 1 \in {0, 1}
        OBVIOUS
      <3> QED
        BY <1>10, <2>1, <2>2, <3>1, WordIs DEF Alt
    <2>4. Takes(2)
      BY <1>3, <1>6, <1>10, <2>3
    <2> HIDE DEF Takes
    <2> QED
      BY <1>7, <2>4
  <1>11. CASE /\ Contraction(points, at) = 0 /\ ~IsLetter(c)
              /\ ~(~IsCrLf(c) /\ ~IsNumber(c) /\ Has(points, at + 1, "letter"))
    <2>1. Alt(1) = {} /\ Alt(2) = {}
      <3>1. Alt(2) = {}
        BY <1>11, NoWord DEF Alt
      <3> QED
        BY <1>3, <1>11, <3>1
    <2>2. CASE IsNumber(c)
      <3>1. n = 1 /\ Alt(3) = {1}
        BY <1>2, <1>4, <1>11, <2>2
      <3>2. Takes(3)
        BY <1>6, <2>1, <3>1
      <3> HIDE DEF Takes
      <3> QED
        BY <1>7, <3>2
    <2>3. CASE ~IsNumber(c) /\ Punctuates(points, at)
      <3>1. n = Punctuation(points, at)
        BY <1>2, <1>11, <2>3 DEF Punctuates
      <3>2. n \in Nat /\ n \in Alt(4) /\ \A m \in Alt(4) : m \in Int /\ m <= n
        BY <2>3, <3>1, PunctuationIs DEF Alt
      <3>3. Alt(3) = {}
        BY <1>4, <2>3
      <3>4. Takes(4)
        BY <1>6, <2>1, <3>2, <3>3
      <3> HIDE DEF Takes
      <3> QED
        BY <1>7, <3>4
    <2>4. CASE ~IsNumber(c) /\ ~Punctuates(points, at)
      <3>1. n = Blank(points, at)
        BY <1>2, <1>11, <2>4 DEF Punctuates
      <3>2. IsSpace(c)
        BY <1>11, <2>4, Exclusive DEF Punctuates
      <3>3. n \in Nat
        BY <3>1, <3>2, BlankIs
      <3>4. PICK a \in 5..7 : /\ n \in Alt(a)
                              /\ \A m \in Alt(a) : m \in Int /\ m <= n
                              /\ \A b \in 5..a - 1 : Alt(b) = {}
        BY <3>1, <3>2, BlankIs DEF Alt
      <3>5. Alt(3) = {} /\ Alt(4) = {}
        BY <1>4, <1>5, <2>4
      <3>6. \A b \in 1..a - 1 : Alt(b) = {}
        BY <1>6, <2>1, <3>4, <3>5
      <3>7. Takes(a) /\ a \in 1..7
        BY <1>6, <3>3, <3>4, <3>6
      <3> HIDE DEF Takes
      <3> QED
        BY <3>7
    <2> QED
      BY <2>2, <2>3, <2>4
  <1> QED
    BY <1>8, <1>9, <1>10, <1>11

-----------------------------------------------------------------------------
(* Recursion over a sequence.                                              *)

\* From the front: values in a set, each from the one before.
Upward(f, n, base, step) == f = [k \in 0..n |-> IF k = 0 THEN base ELSE step[k][f[k - 1]]]

\* There is such a function.
LEMMA UpwardExists ==
    ASSUME NEW n \in Nat, NEW V, NEW base \in V, NEW step \in [1..n -> [V -> V]]
    PROVE  \E f \in [0..n -> V] : Upward(f, n, base, step)
  <1> DEFINE Fits(f, k) == f \in [0..k -> V] /\ Upward(f, k, base, step)
             without == {k \in 0..n : ~\E f : Fits(f, k)}
  <1>1. SUFFICES ASSUME without # {} PROVE FALSE
    <2>1. n \in 0..n
      OBVIOUS
    <2> QED
      BY <2>1
  <1>2. PICK k \in without : \A j \in without : k <= j
    <2>1. without \in SUBSET Nat
      OBVIOUS
    <2> HIDE DEF without
    <2> QED
      BY <1>1, <2>1, Least
  <1>3. k \in 0..n /\ ~\E f : Fits(f, k)
    OBVIOUS
  <1>4. CASE k = 0
    <2> DEFINE f == [j \in 0..0 |-> base]
    <2>1. f \in [0..0 -> V] /\ Upward(f, 0, base, step)
      BY DEF Upward
    <2> QED
      BY <1>3, <1>4, <2>1
  <1>5. CASE k # 0
    <2>1. k - 1 \in 0..n /\ ~(k <= k - 1) /\ k \in 1..n
      BY <1>3, <1>5
    <2>2. k - 1 \notin without
      <3> HIDE DEF without
      <3> QED
        BY <1>2, <2>1
    <2>3. PICK f : Fits(f, k - 1)
      BY <2>1, <2>2
    <2> DEFINE h == [j \in 0..k |-> IF j = k THEN step[k][f[k - 1]] ELSE f[j]]
    <2>4. f \in [0..k - 1 -> V] /\ f = [j \in 0..k - 1 |-> IF j = 0 THEN base ELSE step[j][f[j - 1]]]
      BY <2>3 DEF Upward
    <2>5. \A j \in 0..k - 1 : f[j] = IF j = 0 THEN base ELSE step[j][f[j - 1]]
      BY <2>4
    <2>6. h = [j \in 0..k |-> h[j]] /\ h[k] = step[k][f[k - 1]] /\ \A j \in 0..k - 1 : h[j] = f[j]
      BY <2>1
    <2>7. \A j \in 0..k : h[j] \in V
      <3>1. f[k - 1] \in V
        BY <2>1, <2>4
      <3>2. h[k] \in V
        BY <2>1, <2>6, <3>1
      <3>3. \A j \in 0..k : j = k \/ j \in 0..k - 1
        BY <2>1
      <3> HIDE DEF h
      <3> QED
        BY <2>4, <2>6, <3>2, <3>3
    <2> HIDE DEF h
    <2>8. ASSUME NEW j \in 0..k PROVE h[j] = IF j = 0 THEN base ELSE step[j][h[j - 1]]
      <3>1. CASE j = k
        <4>1. k - 1 \in 0..k - 1 /\ j # 0
          BY <2>1, <3>1
        <4> QED
          BY <2>6, <3>1, <4>1
      <3>2. CASE j # k
        <4>1. j \in 0..k - 1 /\ (j # 0 => j - 1 \in 0..k - 1)
          BY <2>1, <3>2
        <4> QED
          BY <2>5, <2>6, <4>1
      <3> QED
        BY <3>1, <3>2
    <2>9. Upward(h, k, base, step)
      BY <2>6, <2>8, Zenon DEF Upward
    <2>10. h \in [0..k -> V]
      BY <2>6, <2>7
    <2> QED
      BY <1>3, <2>9, <2>10
  <1> QED
    BY <1>4, <1>5

\* From the back: values in a set, each from one behind it.
Downward(f, n, base, jump, step) ==
    f = [k \in 1..n + 1 |-> IF k > n THEN base ELSE step[k][f[jump[k]]]]

\* There is such a function.
LEMMA DownwardExists ==
    ASSUME NEW n \in Nat, NEW V, NEW base \in V, NEW jump, NEW step \in [1..n -> [V -> V]],
           \A k \in 1..n : jump[k] \in k + 1..n + 1
    PROVE  \E f \in [1..n + 1 -> V] : Downward(f, n, base, jump, step)
  <1> DEFINE Fits(f, d) ==
               /\ f \in [n + 1 - d..n + 1 -> V]
               /\ \A k \in n + 1 - d..n + 1 :
                    f[k] = IF k > n THEN base ELSE step[k][f[jump[k]]]
             without == {d \in 0..n : ~\E f : Fits(f, d)}
  <1>1. SUFFICES without = {}
    <2>1. n \in 0..n /\ n + 1 - n = 1
      OBVIOUS
    <2>2. PICK f : Fits(f, n)
      BY <1>1, <2>1
    <2>3. f \in [1..n + 1 -> V] /\ \A k \in 1..n + 1 :
            f[k] = IF k > n THEN base ELSE step[k][f[jump[k]]]
      BY <2>1, <2>2
    <2>4. f = [k \in 1..n + 1 |-> f[k]]
      BY <2>3
    <2>5. Downward(f, n, base, jump, step)
      BY <2>3, <2>4, Zenon DEF Downward
    <2> QED
      BY <2>3, <2>5
  <1>2. SUFFICES ASSUME without # {} PROVE FALSE
    OBVIOUS
  <1>3. PICK d \in without : \A e \in without : d <= e
    <2>1. without \in SUBSET Nat
      OBVIOUS
    <2> HIDE DEF without
    <2> QED
      BY <1>2, <2>1, Least
  <1>4. d \in 0..n /\ ~\E f : Fits(f, d)
    OBVIOUS
  <1>5. CASE d = 0
    <2> DEFINE f == [j \in n + 1..n + 1 |-> base]
    <2>1. n + 1 - 0 = n + 1
      OBVIOUS
    <2>2. f \in [n + 1..n + 1 -> V]
      OBVIOUS
    <2>3. \A k \in n + 1..n + 1 : k > n /\ f[k] = base
      OBVIOUS
    <2> HIDE DEF f
    <2>4. Fits(f, 0)
      BY <2>1, <2>2, <2>3
    <2> QED
      BY <1>4, <1>5, <2>4
  <1>6. CASE d # 0
    <2>1. d - 1 \in 0..n /\ ~(d <= d - 1)
      BY <1>4, <1>6
    <2>2. d - 1 \notin without
      <3> HIDE DEF without
      <3> QED
        BY <1>3, <2>1
    <2>3. PICK f : Fits(f, d - 1)
      BY <2>1, <2>2
    <2> DEFINE c == n + 1 - d
               h == [j \in c..n + 1 |-> IF j = c THEN step[c][f[jump[c]]] ELSE f[j]]
    <2>4. c \in 1..n /\ n + 1 - (d - 1) = c + 1
      BY <1>4, <1>6
    <2> HIDE DEF c
    <2>5. f \in [c + 1..n + 1 -> V]
          /\ \A k \in c + 1..n + 1 : f[k] = IF k > n THEN base ELSE step[k][f[jump[k]]]
      BY <2>3, <2>4
    <2>6. /\ h = [j \in c..n + 1 |-> h[j]] /\ h[c] = step[c][f[jump[c]]]
          /\ \A j \in c + 1..n + 1 : h[j] = f[j]
      BY <2>4
    <2>7. jump[c] \in c + 1..n + 1
      BY <2>4
    <2>8. \A j \in c..n + 1 : j = c \/ j \in c + 1..n + 1
      BY <2>4
    <2>9. h[c] \in V
      <3>1. f[jump[c]] \in V
        BY <2>5, <2>7
      <3> HIDE DEF h
      <3> QED
        BY <2>4, <2>6, <3>1
    <2> HIDE DEF h
    <2>10. h \in [c..n + 1 -> V]
      BY <2>5, <2>6, <2>8, <2>9
    <2>11. ASSUME NEW k \in c..n + 1 PROVE h[k] = IF k > n THEN base ELSE step[k][h[jump[k]]]
      <3>1. CASE k = c
        <4>1. ~(c > n)
          BY <2>4
        <4>2. h[jump[c]] = f[jump[c]]
          BY <2>6, <2>7
        <4>3. h[c] = step[c][h[jump[c]]]
          BY <2>6, <4>2
        <4> QED
          BY <3>1, <4>1, <4>3
      <3>2. CASE k # c
        <4>1. k \in c + 1..n + 1
          BY <2>8, <3>2
        <4>2. ~(k > n) => jump[k] \in c + 1..n + 1
          BY <2>4, <4>1
        <4> QED
          BY <2>5, <2>6, <4>1, <4>2
      <3> QED
        BY <3>1, <3>2
    <2>12. Fits(h, d)
      BY <2>10, <2>11 DEF c
    <2> QED
      BY <1>4, <2>12
  <1> QED
    BY <1>5, <1>6

\* What holds of nought and of each successor holds of all.
LEMMA Inductive ==
    ASSUME NEW S \in SUBSET Nat, 0 \in S, \A n \in S : n + 1 \in S
    PROVE  S = Nat
  <1> DEFINE rest == Nat \ S
  <1>1. SUFFICES ASSUME rest # {} PROVE FALSE
    OBVIOUS
  <1>2. PICK x \in rest : \A y \in rest : x <= y
    <2>1. rest \in SUBSET Nat
      OBVIOUS
    <2> HIDE DEF rest
    <2> QED
      BY <1>1, <2>1, Least
  <1>3. x \in Nat /\ x \notin S /\ x # 0
    OBVIOUS
  <1>4. x - 1 \in Nat /\ ~(x <= x - 1) /\ (x - 1) + 1 = x
    BY <1>3
  <1>5. x - 1 \in S
    BY <1>2, <1>4
  <1> QED
    BY <1>3, <1>4, <1>5

\* What holds of a place when it holds of all behind it holds of every place.
LEMMA FromBack ==
    ASSUME NEW n \in Nat, NEW S,
           \A k \in 1..n + 1 : (\A j \in k + 1..n + 1 : j \in S) => k \in S
    PROVE  \A k \in 1..n + 1 : k \in S
  <1> DEFINE bad == {d \in 0..n : n + 1 - d \notin S}
  <1>1. ASSUME bad # {} PROVE FALSE
    <2>1. bad \in SUBSET Nat
      OBVIOUS
    <2>2. PICK d \in bad : \A e \in bad : d <= e
      <3> HIDE DEF bad
      <3> QED
        BY <1>1, <2>1, Least
    <2> DEFINE k == n + 1 - d
    <2>3. d \in 0..n /\ k \notin S /\ k \in 1..n + 1
      BY <2>2
    <2>4. ASSUME NEW j \in k + 1..n + 1 PROVE j \in S
      <3>1. n + 1 - j \in 0..n /\ n + 1 - (n + 1 - j) = j /\ ~(d <= n + 1 - j)
        BY <2>3
      <3> HIDE DEF k
      <3> QED
        BY <2>2, <3>1
    <2> HIDE DEF k
    <2> QED
      BY <2>3, <2>4
  <1> TAKE k \in 1..n + 1
  <1>2. n + 1 - k \in 0..n /\ n + 1 - (n + 1 - k) = k
    OBVIOUS
  <1> QED
    BY <1>1, <1>2
-----------------------------------------------------------------------------
(* Sequences.                                                              *)

\* What a concatenation and a part of a sequence are made of.
Concat(c, a, b) ==
    /\ Len(c) = Len(a) + Len(b) /\ Len(a) \in Nat /\ Len(b) \in Nat
    /\ \A j \in 1..Len(a) : c[j] = a[j]
    /\ \A j \in 1..Len(b) : c[Len(a) + j] = b[j]

\* What is between two places of a sequence.
PieceBetween(c, s, m, n) ==
    Len(c) = n + 1 - m /\ \A j \in 1..n + 1 - m : c[j] = s[m + j - 1]

\* A concatenation is made of its two parts.
LEMMA ConcatIs ==
    ASSUME NEW E, NEW a \in Seq(E), NEW b \in Seq(E)
    PROVE  a \o b \in Seq(E) /\ Concat(a \o b, a, b)
  BY DEF Concat

\* A subsequence is a part of the sequence.
LEMMA PartIs ==
    ASSUME NEW E, NEW s \in Seq(E), NEW m \in 1..Len(s) + 1, NEW n \in m - 1..Len(s)
    PROVE  SubSeq(s, m, n) \in Seq(E) /\ PieceBetween(SubSeq(s, m, n), s, m, n)
  BY DEF PieceBetween

\* Appending is concatenating a sequence of one.
LEMMA AppendIs ==
    ASSUME NEW E, NEW a \in Seq(E), NEW c \in E, NEW b \in Seq(E)
    PROVE  /\ Append(a, c) = a \o <<c>>
           /\ Append(a, c) \o b = a \o (<<c>> \o b)
  <1>1. Append(a, c) = a \o <<c>>
    OBVIOUS
  <1> DEFINE d == <<c>>
  <1>2. d \in Seq(E)
    OBVIOUS
  <1> HIDE DEF d
  <1>3. (a \o d) \o b = a \o (d \o b)
    BY <1>2
  <1> QED
    BY <1>1, <1>3 DEF d

\* Sequences that agree everywhere are the same.
LEMMA SameIs ==
    ASSUME NEW E, NEW a \in Seq(E), NEW b \in Seq(E), Len(a) = Len(b),
           \A j \in 1..Len(a) : a[j] = b[j]
    PROVE  a = b
  OBVIOUS
-----------------------------------------------------------------------------
(* A fold over a sequence, by a function on pairs.                         *)

\* The fold of the community modules, as a function of places.
Folded(s, base, op) ==
    LET f[n \in 0..Len(s)] == IF n = 0 THEN base ELSE op[f[n - 1]][s[n]]
    IN  f[Len(s)]

\* A step that takes the values of a set to such values.
FoldOver(V, E, op) == op \in [V -> [E -> V]]

\* The results on the way.
Partials(f, V, s, base, op) ==
    /\ f \in [0..Len(s) -> V] /\ f[0] = base /\ Folded(s, base, op) = f[Len(s)]
    /\ \A k \in 1..Len(s) : f[k] = op[f[k - 1]][s[k]]

\* A fold is the last of its partial results.
LEMMA FoldedIs ==
    ASSUME NEW V, NEW E, NEW op, FoldOver(V, E, op), NEW base \in V, NEW s \in Seq(E)
    PROVE  \E f : Partials(f, V, s, base, op)
  <1> DEFINE step == [k \in 1..Len(s) |-> [x \in V |-> op[x][s[k]]]]
             Body(f) == [n \in 0..Len(s) |-> IF n = 0 THEN base ELSE op[f[n - 1]][s[n]]]
             F == CHOOSE f : f = Body(f)
  <1>1. Len(s) \in Nat /\ step \in [1..Len(s) -> [V -> V]]
    BY DEF FoldOver
  <1>2. PICK f \in [0..Len(s) -> V] : Upward(f, Len(s), base, step)
    <2> HIDE DEF step
    <2> QED
      BY <1>1, UpwardExists
  <1>3. \A k \in 0..Len(s) : k # 0 => step[k][f[k - 1]] = op[f[k - 1]][s[k]]
    <2> TAKE k \in 0..Len(s)
    <2>1. k # 0 => k \in 1..Len(s) /\ k - 1 \in 0..Len(s)
      BY <1>1
    <2> QED
      BY <1>2, <2>1
  <1>4. f = Body(f)
    <2>1. f = [k \in 0..Len(s) |-> IF k = 0 THEN base ELSE step[k][f[k - 1]]]
      BY <1>2 DEF Upward
    <2>2. \A k \in 0..Len(s) : f[k] = IF k = 0 THEN base ELSE op[f[k - 1]][s[k]]
      <3> HIDE DEF step
      <3> QED
        BY <1>3, <2>1
    <2>3. f = [k \in 0..Len(s) |-> f[k]]
      BY <1>2
    <2> QED
      BY <2>2, <2>3
  <1>5. F = Body(F)
    <2> HIDE DEF Body
    <2> QED
      BY <1>4
  <1>6. F = f
    <2>1. ASSUME NEW k \in Nat PROVE k \in 0..Len(s) => F[k] = f[k]
      <3> DEFINE S == {j \in Nat : j \in 0..Len(s) => F[j] = f[j]}
      <3>1. 0 \in S
        BY <1>1, <1>4, <1>5
      <3>2. ASSUME NEW j \in S PROVE j + 1 \in S
        <4>1. CASE j + 1 \in 0..Len(s)
          <5>1. j \in 0..Len(s) /\ j + 1 # 0 /\ (j + 1) - 1 = j
            BY <4>1
          <5>2. F[j] = f[j]
            BY <5>1
          <5>3. F[j + 1] = op[F[j]][s[j + 1]]
            BY <1>5, <4>1, <5>1
          <5>4. f[j + 1] = op[f[j]][s[j + 1]]
            BY <1>4, <4>1, <5>1
          <5>5. op[F[j]][s[j + 1]] = op[f[j]][s[j + 1]]
            BY <5>2, Zenon
          <5>6. F[j + 1] = f[j + 1]
            BY ONLY <5>3, <5>4, <5>5, Zenon
          <5> QED
            BY <5>6
        <4> QED
          BY <4>1
      <3>3. S = Nat
        <4>1. S \in SUBSET Nat
          OBVIOUS
        <4> HIDE DEF S
        <4> QED
          BY <3>1, <3>2, <4>1, Inductive
      <3> QED
        BY <3>3
    <2>2. F = [k \in 0..Len(s) |-> F[k]]
      BY <1>5
    <2>3. f = [k \in 0..Len(s) |-> f[k]]
      BY <1>2
    <2>4. \A k \in 0..Len(s) : F[k] = f[k]
      BY <2>1
    <2> QED
      BY <2>2, <2>3, <2>4
  <1>7. Folded(s, base, op) = F[Len(s)]
    BY Zenon DEF Folded
  <1>8. f[0] = base
    BY <1>1, <1>4
  <1>9. ASSUME NEW k \in 1..Len(s) PROVE f[k] = op[f[k - 1]][s[k]]
    <2>1. k \in 0..Len(s) /\ k # 0
      BY <1>1
    <2> QED
      BY <1>4, <2>1
  <1> QED
    BY <1>6, <1>7, <1>8, <1>9 DEF Partials

\* Of nothing it is the base, and of something one step more.
LEMMA FoldedEmpty ==
    ASSUME NEW V, NEW E, NEW op, FoldOver(V, E, op), NEW base \in V
    PROVE  Folded(<< >>, base, op) = base
  <1>1. << >> \in Seq(E) /\ Len(<< >>) = 0
    OBVIOUS
  <1>2. PICK f : Partials(f, V, << >>, base, op)
    BY <1>1, FoldedIs
  <1> QED
    BY <1>1, <1>2 DEF Partials

\* A fold stays in the set its steps stay in.
LEMMA FoldedType ==
    ASSUME NEW V, NEW E, NEW op, FoldOver(V, E, op), NEW base \in V, NEW s \in Seq(E)
    PROVE  Folded(s, base, op) \in V
  <1>1. Len(s) \in 0..Len(s)
    OBVIOUS
  <1>2. PICK f : Partials(f, V, s, base, op)
    BY FoldedIs
  <1> QED
    BY <1>1, <1>2 DEF Partials

\* The fold of two sequences goes on where that of the first has come.
LEMMA FoldedConcat ==
    ASSUME NEW V, NEW E, NEW op, FoldOver(V, E, op), NEW base \in V,
           NEW s \in Seq(E), NEW t \in Seq(E)
    PROVE  Folded(s \o t, base, op) = Folded(t, Folded(s, base, op), op)
  <1> DEFINE m == Len(s)
             n == Len(t)
             u == s \o t
  <1>1. /\ m \in Nat /\ n \in Nat /\ u \in Seq(E) /\ Len(u) = m + n
        /\ \A k \in 1..m : u[k] = s[k]
        /\ \A k \in 1..n : u[m + k] = t[k]
    OBVIOUS
  <1> HIDE DEF u
  <1>2. PICK f : Partials(f, V, u, base, op)
    BY <1>1, FoldedIs
  <1>3. PICK g : Partials(g, V, s, base, op)
    BY FoldedIs
  <1>4. g[m] \in V
    BY <1>1, <1>3 DEF Partials
  <1>5. PICK h : Partials(h, V, t, g[m], op)
    BY <1>4, FoldedIs
  <1>2a. /\ f[0] = base /\ Folded(u, base, op) = f[m + n]
         /\ \A k \in 1..m + n : f[k] = op[f[k - 1]][u[k]]
    BY <1>1, <1>2 DEF Partials
  <1>3a. /\ g[0] = base /\ Folded(s, base, op) = g[m]
         /\ \A k \in 1..m : g[k] = op[g[k - 1]][s[k]]
    BY <1>3 DEF Partials
  <1>5a. /\ h[0] = g[m] /\ Folded(t, g[m], op) = h[n]
         /\ \A k \in 1..n : h[k] = op[h[k - 1]][t[k]]
    BY <1>5 DEF Partials
  <1> HIDE DEF m, n
  <1>6. \A k \in Nat : k \in 0..m => f[k] = g[k]
    <2> DEFINE S == {k \in Nat : k \in 0..m => f[k] = g[k]}
    <2>1. 0 \in S
      BY <1>2a, <1>3a
    <2>2. ASSUME NEW k \in S PROVE k + 1 \in S
      <3> k \in Nat
        OBVIOUS
      <3>1. CASE k + 1 \in 0..m
        <4>1. k \in 0..m /\ k + 1 \in 1..m /\ k + 1 \in 1..m + n /\ (k + 1) - 1 = k
          <5> HIDE DEF S
          <5> QED
            BY <1>1, <3>1
        <4>2. f[k + 1] = op[f[k]][u[k + 1]]
          BY <1>2a, <4>1
        <4>3. g[k + 1] = op[g[k]][s[k + 1]]
          BY <1>3a, <4>1
        <4>4. f[k] = g[k] /\ u[k + 1] = s[k + 1]
          BY <1>1, <4>1
        <4> QED
          BY <4>2, <4>3, <4>4
      <3> QED
        BY <3>1
    <2>3. S = Nat
      <3>1. S \in SUBSET Nat
        OBVIOUS
      <3> HIDE DEF S
      <3> QED
        BY <2>1, <2>2, <3>1, Inductive
    <2> QED
      BY <2>3
  <1>7. f[m] = g[m]
    BY <1>1, <1>6
  <1>8. \A k \in Nat : k \in 0..n => f[m + k] = h[k]
    <2> DEFINE S == {k \in Nat : k \in 0..n => f[m + k] = h[k]}
    <2>1. 0 \in S
      <3>1. m + 0 = m
        BY <1>1
      <3> QED
        BY <1>5a, <1>7, <3>1
    <2>2. ASSUME NEW k \in S PROVE k + 1 \in S
      <3> k \in Nat
        OBVIOUS
      <3>1. CASE k + 1 \in 0..n
        <4>1. /\ k \in 0..n /\ k + 1 \in 1..n /\ m + (k + 1) \in 1..m + n
              /\ (m + (k + 1)) - 1 = m + k /\ (k + 1) - 1 = k
          <5> HIDE DEF S
          <5> QED
            BY <1>1, <3>1
        <4>2. f[m + (k + 1)] = op[f[m + k]][u[m + (k + 1)]]
          BY <1>2a, <4>1
        <4>3. h[k + 1] = op[h[k]][t[k + 1]]
          BY <1>5a, <4>1
        <4>4. f[m + k] = h[k] /\ u[m + (k + 1)] = t[k + 1]
          BY <1>1, <4>1
        <4> QED
          BY <4>2, <4>3, <4>4
      <3> QED
        BY <3>1
    <2>3. S = Nat
      <3>1. S \in SUBSET Nat
        OBVIOUS
      <3> HIDE DEF S
      <3> QED
        BY <2>1, <2>2, <3>1, Inductive
    <2> QED
      BY <2>3
  <1>9. f[m + n] = h[n]
    BY <1>1, <1>8
  <1> QED
    BY <1>2a, <1>3a, <1>5a, <1>9 DEF u

\* One element more is one step more.
LEMMA FoldedAppend ==
    ASSUME NEW V, NEW E, NEW op, FoldOver(V, E, op), NEW base \in V,
           NEW s \in Seq(E), NEW e \in E
    PROVE  Folded(Append(s, e), base, op) = op[Folded(s, base, op)][e]
  <1> DEFINE t == <<e>>
             v == Folded(s, base, op)
  <1>1. Append(s, e) = s \o t /\ t \in Seq(E) /\ Len(t) = 1 /\ t[1] = e
    OBVIOUS
  <1>2. v \in V
    BY FoldedType
  <1> HIDE DEF t, v
  <1>3. PICK f : Partials(f, V, t, v, op)
    BY <1>1, <1>2, FoldedIs
  <1>3a. f[0] = v /\ Folded(t, v, op) = f[1] /\ \A k \in 1..1 : f[k] = op[f[k - 1]][t[k]]
    BY <1>1, <1>3 DEF Partials
  <1>4. f[1] = op[f[0]][t[1]]
    <2>1. 1 \in 1..1 /\ 1 - 1 = 0
      OBVIOUS
    <2> QED
      BY <1>3a, <2>1
  <1>5. Folded(s \o t, base, op) = Folded(t, v, op)
    BY <1>1, FoldedConcat DEF v
  <1> QED
    BY <1>1, <1>3a, <1>4, <1>5 DEF v

\* The step that concatenates.
Cat(E) == [p \in Seq(E) |-> [x \in Seq(E) |-> p \o x]]

\* What Lists!FlattenSeq computes, of sequences that are there.
LEMMA CatFolds == ASSUME NEW E PROVE FoldOver(Seq(E), Seq(E), Cat(E)) /\ << >> \in Seq(E)
  <1>1. ASSUME NEW p \in Seq(E), NEW x \in Seq(E) PROVE p \o x \in Seq(E)
    OBVIOUS
  <1> QED
    BY <1>1 DEF FoldOver, Cat

\* Flattening is folding with concatenation.
LEMMA FlattenIsFold ==
    ASSUME NEW E, NEW s \in Seq(Seq(E))
    PROVE  Lists!FlattenSeq(s) = Folded(s, << >>, Cat(E))
  <1> DEFINE n == Len(s)
             Body(f) == [i \in 1..n |-> IF i = 1 THEN s[i] ELSE f[i - 1] \o s[i]]
             F == CHOOSE f : f = Body(f)
             g == Folded(s, << >>, Cat(E))
  <1>1. PICK f : Partials(f, Seq(E), s, << >>, Cat(E))
    BY CatFolds, FoldedIs
  <1>2. /\ n \in Nat /\ f \in [0..n -> Seq(E)] /\ f[0] = << >> /\ g = f[n]
        /\ \A k \in 1..n : f[k] = Cat(E)[f[k - 1]][s[k]]
    BY <1>1 DEF Partials
  <1>3. \A k \in 1..n : f[k - 1] \in Seq(E) /\ s[k] \in Seq(E) /\ f[k] = f[k - 1] \o s[k]
    <2> TAKE k \in 1..n
    <2>1. k - 1 \in 0..n
      BY <1>2
    <2>2. f[k - 1] \in Seq(E)
      BY <1>2, <2>1
    <2>3. s[k] \in Seq(E)
      OBVIOUS
    <2>4. Cat(E)[f[k - 1]][s[k]] = f[k - 1] \o s[k]
      BY <2>2, <2>3 DEF Cat
    <2> QED
      BY <1>2, <2>2, <2>3, <2>4
  <1>4. CASE n = 0
    <2>1. s = << >>
      BY <1>4
    <2>2. Lists!FlattenSeq(s) = s
      BY <1>4 DEF Lists!FlattenSeq
    <2> QED
      BY <1>2, <1>4, <2>1, <2>2
  <1>5. CASE n # 0
    <2> DEFINE h == [i \in 1..n |-> f[i]]
    <2>1. h = Body(h)
      <3>1. ASSUME NEW i \in 1..n PROVE h[i] = IF i = 1 THEN s[i] ELSE h[i - 1] \o s[i]
        <4>1. CASE i = 1
          <5>1. f[i - 1] = << >>
            BY <1>2, <4>1
          <5>2. << >> \o s[i] = s[i]
            BY <1>3
          <5> QED
            BY <1>3, <4>1, <5>1, <5>2
        <4>2. CASE i # 1
          <5>1. i - 1 \in 1..n
            BY <4>2
          <5> QED
            BY <1>3, <4>2, <5>1
        <4> QED
          BY <4>1, <4>2
      <3> HIDE DEF h
      <3>2. h = [i \in 1..n |-> h[i]]
        BY DEF h
      <3> QED
        BY <3>1, <3>2
    <2>2. F = Body(F)
      <3> HIDE DEF Body, h
      <3> QED
        BY <2>1
    <2>3. \A k \in Nat : k \in 1..n => F[k] = f[k]
      <3> DEFINE S == {k \in Nat : k \in 1..n => F[k] = f[k]}
      <3>1. 0 \in S
        OBVIOUS
      <3>2. ASSUME NEW k \in S PROVE k + 1 \in S
        <4> k \in Nat
          OBVIOUS
        <4>1. CASE k + 1 \in 1..n
          <5>1. F[k + 1] = IF k + 1 = 1 THEN s[k + 1] ELSE F[(k + 1) - 1] \o s[k + 1]
            <6> HIDE DEF F, S
            <6> QED
              BY <2>2, <4>1
          <5>2. f[k + 1] = f[(k + 1) - 1] \o s[k + 1] /\ s[k + 1] \in Seq(E)
            BY <1>3, <4>1
          <5>3. (k + 1) - 1 = k
            OBVIOUS
          <5>4. CASE k = 0
            <6>1. f[(k + 1) - 1] = << >>
              BY <1>2, <5>4
            <6>2. << >> \o s[k + 1] = s[k + 1]
              BY <5>2
            <6> HIDE DEF F
            <6> QED
              BY <5>1, <5>2, <5>4, <6>1, <6>2
          <5>5. CASE k # 0
            <6>1. k \in 1..n /\ k + 1 # 1
              <7> HIDE DEF S, F
              <7> QED
                BY <1>2, <4>1, <5>5
            <6>2. F[k] = f[k]
              BY <6>1
            <6> HIDE DEF F, S
            <6>3. F[k + 1] = F[k] \o s[k + 1]
              BY <5>1, <5>3, <6>1
            <6>4. F[k + 1] = f[k + 1]
              BY <5>2, <5>3, <6>2, <6>3
            <6> QED
              BY <6>4 DEF S
          <5> QED
            BY <5>4, <5>5
        <4> QED
          BY <4>1
      <3>3. S = Nat
        <4>1. S \in SUBSET Nat
          OBVIOUS
        <4> HIDE DEF S
        <4> QED
          BY <3>1, <3>2, <4>1, Inductive
      <3> QED
        BY <3>3
    <2>4. F[n] = f[n]
      <3>1. n \in 1..n
        BY <1>2, <1>5
      <3> HIDE DEF F
      <3> QED
        BY <1>2, <2>3, <3>1
    <2>5. Lists!FlattenSeq(s) = F[n]
      BY <1>5, Zenon DEF Lists!FlattenSeq
    <2> HIDE DEF F
    <2> QED
      BY <1>2, <2>4, <2>5
  <1> QED
    BY <1>4, <1>5

\* A fold of concatenations puts what it starts from before the rest.
LEMMA CatFoldsFrom ==
    ASSUME NEW E, NEW s \in Seq(Seq(E)), NEW b \in Seq(E)
    PROVE  Folded(s, b, Cat(E)) = b \o Folded(s, << >>, Cat(E))
  <1> DEFINE n == Len(s)
  <1>1. PICK f : Partials(f, Seq(E), s, b, Cat(E))
    BY CatFolds, FoldedIs
  <1>2. PICK g : Partials(g, Seq(E), s, << >>, Cat(E))
    BY CatFolds, FoldedIs
  <1>3. /\ n \in Nat /\ f \in [0..n -> Seq(E)] /\ f[0] = b /\ Folded(s, b, Cat(E)) = f[n]
        /\ \A k \in 1..n : f[k] = Cat(E)[f[k - 1]][s[k]]
    BY <1>1 DEF Partials
  <1>4. /\ g \in [0..n -> Seq(E)] /\ g[0] = << >> /\ Folded(s, << >>, Cat(E)) = g[n]
        /\ \A k \in 1..n : g[k] = Cat(E)[g[k - 1]][s[k]]
    BY <1>2 DEF Partials
  <1> HIDE DEF n
  <1> DEFINE S == {k \in Nat : k \in 0..n => f[k] = b \o g[k]}
  <1>5. 0 \in S
    <2>1. b \o << >> = b
      OBVIOUS
    <2> QED
      BY <1>3, <1>4, <2>1
  <1>6. ASSUME NEW k \in S PROVE k + 1 \in S
    <2> k \in Nat
      OBVIOUS
    <2>1. CASE k + 1 \in 0..n
      <3>1. k \in 0..n /\ k + 1 \in 1..n /\ (k + 1) - 1 = k
        <4> HIDE DEF S
        <4> QED
          BY <1>3, <2>1
      <3>2. f[k] = b \o g[k]
        BY <3>1
      <3> HIDE DEF S
      <3>3. f[k] \in Seq(E) /\ g[k] \in Seq(E) /\ s[k + 1] \in Seq(E)
        <4>1. f[k] \in Seq(E) /\ g[k] \in Seq(E)
          BY <1>3, <1>4, <3>1
        <4>2. s[k + 1] \in Seq(E)
          BY <3>1 DEF n
        <4> QED
          BY <4>1, <4>2
      <3>4. f[k + 1] = f[k] \o s[k + 1]
        <4>1. Cat(E)[f[k]][s[k + 1]] = f[k] \o s[k + 1]
          BY <3>3 DEF Cat
        <4> QED
          BY <1>3, <3>1, <4>1
      <3>5. g[k + 1] = g[k] \o s[k + 1]
        <4>1. Cat(E)[g[k]][s[k + 1]] = g[k] \o s[k + 1]
          BY <3>3 DEF Cat
        <4> QED
          BY <1>4, <3>1, <4>1
      <3>6. (b \o g[k]) \o s[k + 1] = b \o (g[k] \o s[k + 1])
        <4> HIDE DEF n
        <4> DEFINE p == g[k]
                   q == s[k + 1]
        <4>1. p \in Seq(E) /\ q \in Seq(E)
          BY <3>3
        <4> HIDE DEF p, q
        <4>2. (b \o p) \o q = b \o (p \o q)
          BY <4>1
        <4> QED
          BY <4>2 DEF p, q
      <3>7. f[k + 1] = b \o g[k + 1]
        BY <3>2, <3>4, <3>5, <3>6
      <3> QED
        BY <3>7 DEF S
    <2> QED
      BY <2>1
  <1>7. S = Nat
    <2>1. S \in SUBSET Nat
      OBVIOUS
    <2> HIDE DEF S
    <2> QED
      BY <1>5, <1>6, <2>1, Inductive
  <1>8. f[n] = b \o g[n]
    <2>1. n \in S
      <3> HIDE DEF S
      <3> QED
        BY <1>3, <1>7
    <2> QED
      BY <1>3, <2>1
  <1> QED
    BY <1>3, <1>4, <1>8

\* Sequences put one behind the other: of none, of one, of some and others.
LEMMA Flattened ==
    ASSUME NEW E
    PROVE  /\ Lists!FlattenSeq(<< >>) = << >>
           /\ \A x \in Seq(E) : Lists!FlattenSeq(<<x>>) = x
           /\ \A s \in Seq(Seq(E)) : Lists!FlattenSeq(s) \in Seq(E)
           /\ \A s, t \in Seq(Seq(E)) :
                Lists!FlattenSeq(s \o t) = Lists!FlattenSeq(s) \o Lists!FlattenSeq(t)
  <1>0. FoldOver(Seq(E), Seq(E), Cat(E))
    BY CatFolds
  <1>1. << >> \in Seq(Seq(E)) /\ << >> \in Seq(E)
    OBVIOUS
  <1>2. Folded(<< >>, << >>, Cat(E)) = << >>
    BY <1>0, <1>1, FoldedEmpty
  <1>3. Lists!FlattenSeq(<< >>) = << >>
    BY <1>1, <1>2, FlattenIsFold
  <1>4. ASSUME NEW x \in Seq(E) PROVE Lists!FlattenSeq(<<x>>) = x
    <2>1. <<x>> = Append(<< >>, x) /\ <<x>> \in Seq(Seq(E))
      OBVIOUS
    <2>2. Folded(Append(<< >>, x), << >>, Cat(E)) = Cat(E)[Folded(<< >>, << >>, Cat(E))][x]
      <3> DEFINE z == << >>
                 V == Seq(E)
                 op == Cat(E)
      <3>1. z \in Seq(V) /\ z \in V /\ FoldOver(V, V, op) /\ x \in V
        BY <1>0, <1>1
      <3> HIDE DEF z, V, op
      <3>2. Folded(Append(z, x), z, op) = op[Folded(z, z, op)][x]
        BY <3>1, FoldedAppend
      <3> QED
        BY <3>2 DEF z, op
    <2>3. Cat(E)[<< >>][x] = << >> \o x
      BY <1>1 DEF Cat
    <2>4. << >> \o x = x
      OBVIOUS
    <2> QED
      BY <1>2, <2>1, <2>2, <2>3, <2>4, FlattenIsFold
  <1>5. ASSUME NEW s \in Seq(Seq(E)) PROVE Lists!FlattenSeq(s) \in Seq(E)
    <2>1. Folded(s, << >>, Cat(E)) \in Seq(E)
      BY <1>0, <1>1, FoldedType
    <2> QED
      BY <2>1, FlattenIsFold
  <1>6. ASSUME NEW s \in Seq(Seq(E)), NEW t \in Seq(Seq(E))
        PROVE  Lists!FlattenSeq(s \o t) = Lists!FlattenSeq(s) \o Lists!FlattenSeq(t)
    <2>1. s \o t \in Seq(Seq(E))
      OBVIOUS
    <2>2. Folded(s \o t, << >>, Cat(E)) = Folded(t, Folded(s, << >>, Cat(E)), Cat(E))
      <3> DEFINE z == << >>
                 V == Seq(E)
                 op == Cat(E)
      <3>1. s \in Seq(V) /\ t \in Seq(V) /\ z \in V /\ FoldOver(V, V, op)
        BY <1>0, <1>1
      <3> HIDE DEF z, V, op
      <3>2. Folded(s \o t, z, op) = Folded(t, Folded(s, z, op), op)
        BY <3>1, FoldedConcat
      <3> QED
        BY <3>2 DEF z, op
    <2>3. Folded(s, << >>, Cat(E)) \in Seq(E)
      BY <1>0, <1>1, FoldedType
    <2> QED
      BY <2>1, <2>2, <2>3, FlattenIsFold, CatFoldsFrom
  <1> QED
    BY <1>3, <1>4, <1>5, <1>6

\* One code point more, composed with the one before where both are known.
NfcStep(before, c) ==
    LET pair == <<before[Len(before)], c>>
    IN  IF /\ before # << >> /\ pair \in DOMAIN Compose
           /\ pair[1] \notin Unassigned /\ pair[2] \notin Unassigned
          THEN Append(SubSeq(before, 1, Len(before) - 1), Compose[pair])
          ELSE Append(before, c)

\* The normal form of code points is code points.
LEMMA NfcIs ==
    ASSUME NEW V, Codes \subseteq V, NEW text \in Seq(V)
    PROVE  Nfc9(text) \in Seq(V)
  <1> DEFINE n == Len(text)
             U == Seq(V)
             step == [k \in 1..n |-> [before \in U |-> NfcStep(before, text[k])]]
             known(c) == c \notin Unassigned
             Body(f) == [k \in 0..n |->
                           IF k = 0 THEN << >>
                           ELSE LET before == f[k - 1]
                                    pair   == <<before[Len(before)], text[k]>>
                                IN  IF /\ before # << >> /\ pair \in DOMAIN Compose
                                       /\ known(pair[1]) /\ known(pair[2])
                                      THEN Append(SubSeq(before, 1, Len(before) - 1), Compose[pair])
                                      ELSE Append(before, text[k])]
             F == CHOOSE f : f = Body(f)
  <1>1. n \in Nat /\ << >> \in U
    OBVIOUS
  <1>2. ASSUME NEW before \in U, NEW c \in V PROVE NfcStep(before, c) \in U
    <2> DEFINE pair == <<before[Len(before)], c>>
    <2>1. CASE /\ before # << >> /\ pair \in DOMAIN Compose
               /\ pair[1] \notin Unassigned /\ pair[2] \notin Unassigned
      <3>1. Compose[pair] \in V
        BY <2>1, TextAssumption
      <3>2. SubSeq(before, 1, Len(before) - 1) \in Seq(V)
        BY <2>1
      <3>3. Append(SubSeq(before, 1, Len(before) - 1), Compose[pair]) \in Seq(V)
        BY <3>1, <3>2
      <3>4. NfcStep(before, c) = Append(SubSeq(before, 1, Len(before) - 1), Compose[pair])
        BY <2>1, Zenon DEF NfcStep
      <3> QED
        BY <3>3, <3>4
    <2>2. CASE ~(/\ before # << >> /\ pair \in DOMAIN Compose
                 /\ pair[1] \notin Unassigned /\ pair[2] \notin Unassigned)
      <3>1. NfcStep(before, c) = Append(before, c)
        BY <2>2, Zenon DEF NfcStep
      <3> QED
        BY <3>1
    <2> QED
      BY <2>1, <2>2
  <1>3. step \in [1..n -> [U -> U]]
    <2>1. \A k \in 1..n : text[k] \in V
      OBVIOUS
    <2> HIDE DEF U
    <2> QED
      BY <1>2, <2>1
  <1>4. PICK f \in [0..n -> U] : Upward(f, n, << >>, step)
    <2> HIDE DEF step, U
    <2> QED
      BY <1>1, <1>3, UpwardExists
  <1>5. ASSUME NEW g, NEW k \in 0..n
        PROVE  Body(g)[k] = IF k = 0 THEN << >> ELSE NfcStep(g[k - 1], text[k])
    BY Zenon DEF NfcStep
  <1>6. f = Body(f)
    <2>1. f = [k \in 0..n |-> IF k = 0 THEN << >> ELSE step[k][f[k - 1]]]
      BY <1>4 DEF Upward
    <2>2. ASSUME NEW k \in 0..n PROVE f[k] = Body(f)[k]
      <3>1. k # 0 => k \in 1..n /\ k - 1 \in 0..n
        BY <1>1
      <3>2. k # 0 => step[k][f[k - 1]] = NfcStep(f[k - 1], text[k])
        BY <1>4, <3>1
      <3>3. f[k] = IF k = 0 THEN << >> ELSE step[k][f[k - 1]]
        <4> HIDE DEF step
        <4> QED
          BY <2>1
      <3> HIDE DEF step, Body
      <3> QED
        BY <1>5, <3>2, <3>3
    <2>3. f = [k \in 0..n |-> f[k]]
      BY <1>4
    <2>4. Body(f) = [k \in 0..n |-> Body(f)[k]]
      OBVIOUS
    <2> HIDE DEF Body
    <2> QED
      BY <2>2, <2>3, <2>4
  <1>7. F = Body(F)
    <2> HIDE DEF Body
    <2> QED
      BY <1>6
  <1>8. Nfc9(text) = F[n]
    BY Zenon DEF Nfc9
  <1> HIDE DEF F
  <1>9. ASSUME NEW k \in 0..n PROVE F[k] = IF k = 0 THEN << >> ELSE NfcStep(F[k - 1], text[k])
    <2> HIDE DEF Body
    <2> QED
      BY <1>5, <1>7
  <1> DEFINE S == {k \in Nat : k \in 0..n => F[k] \in U}
  <1> HIDE DEF n, U, Body
  <1>10. 0 \in S
    BY <1>1, <1>9
  <1>11. ASSUME NEW k \in S PROVE k + 1 \in S
    <2> k \in Nat
      OBVIOUS
    <2>1. CASE k + 1 \in 0..n
      <3>1. k \in 0..n /\ k + 1 \in 1..n /\ (k + 1) - 1 = k /\ k + 1 # 0
        <4> HIDE DEF S
        <4> QED
          BY <1>1, <2>1
      <3>2. F[k] \in U
        BY <3>1
      <3>3. text[k + 1] \in V
        BY <3>1 DEF n
      <3> HIDE DEF S
      <3>4. F[k + 1] = NfcStep(F[k], text[k + 1])
        BY <1>9, <2>1, <3>1
      <3>5. F[k + 1] \in U
        BY <1>2, <3>2, <3>3, <3>4
      <3> QED
        BY <3>5 DEF S
    <2> QED
      BY <2>1
  <1>12. S = Nat
    <2>1. S \in SUBSET Nat
      OBVIOUS
    <2> HIDE DEF S
    <2> QED
      BY <1>10, <1>11, <2>1, Inductive
  <1>13. n \in 0..n
    BY <1>1
  <1> QED
    BY <1>1, <1>8, <1>12, <1>13 DEF U

\* The special token found at a place is there, all of it.
LEMMA SpecialAtIs ==
    ASSUME NEW V, NEW text \in Seq(V), NEW at \in 1..Len(text)
    PROVE  LET s == SpecialAt(text, at)
           IN  /\ s \in 0..Len(Special)
               /\ s # 0 => /\ Len(Special[s].text) \in Nat /\ Len(Special[s].text) > 1
                           /\ at + Len(Special[s].text) - 1 <= Len(text)
  <1> DEFINE len(k) == Len(Special[k].text)
             there == {k \in DOMAIN Special :
                         /\ at + Len(Special[k].text) - 1 <= Len(text)
                         /\ SubSeq(text, at, at + Len(Special[k].text) - 1)
                              = Special[k].text}
             Best0(k) == \A j \in there : \/ len(k) > len(j)
                                          \/ len(k) = len(j) /\ k <= j
  <1>1. Special \in Seq([text : Seq(Codes), skipped : BOOLEAN])
    BY VocabularyAssumption
  <1>2. DOMAIN Special = 1..Len(Special) /\ Len(Special) \in Nat
    BY <1>1
  <1>3. \A k \in DOMAIN Special : len(k) \in Nat /\ len(k) > 1
    <2> TAKE k \in DOMAIN Special
    <2>1. Special[k].text \in Seq(Codes)
      <3>1. Special[k] \in [text : Seq(Codes), skipped : BOOLEAN]
        <4> DEFINE E == [text : Seq(Codes), skipped : BOOLEAN]
        <4>1. Special \in Seq(E) /\ k \in DOMAIN Special
          BY <1>1
        <4> HIDE DEF E
        <4>2. Special[k] \in E
          BY <4>1
        <4> QED
          BY <4>2 DEF E
      <3> QED
        BY <3>1
    <2> QED
      BY <2>1, VocabularyAssumption
  <1>4. CASE there = {}
    <2>1. SpecialAt(text, at) = 0
      BY <1>4, Zenon DEF SpecialAt
    <2> QED
      BY <1>2, <2>1
  <1>5. CASE there # {}
    <2> DEFINE lens == {len(k) : k \in there}
    <2>1. PICK n \in lens : \A m \in lens : m <= n
      <3>1. lens \in SUBSET Nat /\ lens # {}
        BY <1>3, <1>5
      <3>2. \A m \in lens : m <= Len(text)
        <4>1. \A k \in there : len(k) <= Len(text)
          <5> TAKE k \in there
          <5>1. len(k) \in Nat /\ at + len(k) - 1 <= Len(text)
            BY <1>3
          <5> HIDE DEF len
          <5> QED
            BY <5>1
        <4> HIDE DEF there, len
        <4> QED
          BY <4>1
      <3>3. Len(text) \in Nat
        OBVIOUS
      <3> HIDE DEF lens
      <3> QED
        BY <3>1, <3>2, <3>3, Greatest
    <2> DEFINE longest == {k \in there : len(k) = n}
    <2>2. longest \in SUBSET Nat /\ longest # {}
      <3>1. PICK k \in there : len(k) = n
        BY <2>1
      <3>2. there \in SUBSET Nat
        BY <1>2
      <3> HIDE DEF there, len
      <3> QED
        BY <3>1, <3>2
    <2>3. PICK s \in longest : \A j \in longest : s <= j
      <3> HIDE DEF longest
      <3> QED
        BY <2>2, Least
    <2>4. s \in there /\ Best0(s)
      <3>1. s \in there /\ len(s) = n
        BY <2>3
      <3>2. ASSUME NEW j \in there PROVE len(s) > len(j) \/ (len(s) = len(j) /\ s <= j)
        <4>1. len(j) \in lens /\ len(j) \in Nat /\ n \in Nat
          BY <1>3, <2>1
        <4>2. len(j) <= n
          BY <2>1, <4>1
        <4>3. len(j) = n => s <= j
          BY <2>3
        <4> HIDE DEF len, there, lens, longest
        <4> QED
          BY <3>1, <4>1, <4>2, <4>3
      <3> HIDE DEF there, len
      <3> QED
        BY <3>1, <3>2
    <2>5. SpecialAt(text, at) = CHOOSE k \in there : Best0(k)
      BY <1>5, Zenon DEF SpecialAt
    <2>6. SpecialAt(text, at) \in there
      <3> HIDE DEF there, Best0
      <3> QED
        BY <2>4, <2>5
    <2> QED
      BY <1>2, <1>3, <2>6
  <1> QED
    BY <1>4, <1>5

\* The segments of a text of code points.
SegmentSet(V) == [ordinary : Seq(V), special : 0..Len(Special)]

\* A text has such segments, and code points stay code points in them.
LEMMA SegmentsAre ==
    ASSUME NEW V, NEW text \in Seq(V)
    PROVE  Segments(text) \in Seq(SegmentSet(V))
  <1> DEFINE n == Len(text)
             U == Seq(SegmentSet(V))
             places(at) == {k \in at..n : SpecialAt(text, k) # 0}
             next(at) == CHOOSE k \in places(at) : \A j \in places(at) : k <= j
             s(at) == SpecialAt(text, next(at))
             last(at) == <<[ordinary |-> SubSeq(text, at, n), special |-> 0]>>
             one(at) == <<[ordinary |-> SubSeq(text, at, next(at) - 1), special |-> s(at)]>>
             jump == [at \in 1..n |-> IF places(at) = {} THEN n + 1
                                      ELSE next(at) + Len(Special[s(at)].text)]
             step == [at \in 1..n |-> [x \in U |-> IF places(at) = {} THEN last(at)
                                                   ELSE one(at) \o x]]
             Body(f) == [at \in 1..n + 1 |->
                           IF places(at) = {} THEN last(at)
                           ELSE one(at) \o f[next(at) + Len(Special[s(at)].text)]]
             F == CHOOSE f : f = Body(f)
  <1>1. n \in Nat
    OBVIOUS
  <1>2. \A at \in 1..n + 1 : last(at) \in U
    <2> TAKE at \in 1..n + 1
    <2>1. SubSeq(text, at, n) \in Seq(V)
      OBVIOUS
    <2>2. 0 \in 0..Len(Special)
      BY VocabularyAssumption
    <2> QED
      BY <2>1, <2>2 DEF SegmentSet
  <1>3. ASSUME NEW at \in 1..n + 1, places(at) # {}
        PROVE  /\ next(at) \in at..n /\ one(at) \in U /\ at \in 1..n
               /\ next(at) + Len(Special[s(at)].text) \in at + 1..n + 1
    <2>1. places(at) \in SUBSET Nat
      OBVIOUS
    <2>2. PICK k \in places(at) : \A j \in places(at) : k <= j
      <3> HIDE DEF places
      <3> QED
        BY <1>3, <2>1, Least
    <2>3. next(at) \in places(at)
      <3> HIDE DEF places
      <3> QED
        BY <2>2
    <2>4. next(at) \in at..n /\ next(at) \in 1..n /\ s(at) # 0
      <3> HIDE DEF next
      <3> QED
        BY <2>3
    <2> HIDE DEF next
    <2>5. /\ s(at) \in 0..Len(Special)
          /\ Len(Special[s(at)].text) \in Nat /\ Len(Special[s(at)].text) > 1
          /\ next(at) + Len(Special[s(at)].text) - 1 <= n
      BY <2>4, SpecialAtIs
    <2>6. SubSeq(text, at, next(at) - 1) \in Seq(V)
      BY <2>4
    <2> DEFINE l == Len(Special[s(at)].text)
    <2>8. at \in 1..n /\ next(at) + l \in at + 1..n + 1
      <3> HIDE DEF s, l
      <3> QED
        BY <1>1, <2>4, <2>5, SMTT(30) DEF l
    <2> HIDE DEF s
    <2>7. one(at) \in U
      BY <2>5, <2>6 DEF SegmentSet
    <2> QED
      BY <2>4, <2>7, <2>8
  <1>4. places(n + 1) = {}
    BY <1>1
  <1> HIDE DEF places, next, s, last, one, U, n
  <1>5. \A at \in 1..n : jump[at] \in at + 1..n + 1
    BY <1>1, <1>3
  <1>6. step \in [1..n -> [U -> U]]
    <2>1. ASSUME NEW at \in 1..n, NEW x \in U
          PROVE  (IF places(at) = {} THEN last(at) ELSE one(at) \o x) \in U
      <3>1. at \in 1..n + 1
        BY <1>1
      <3>2. CASE places(at) = {}
        BY <1>2, <3>1, <3>2
      <3>3. CASE places(at) # {}
        <4>1. one(at) \in U
          BY <1>3, <3>1, <3>3
        <4>2. one(at) \o x \in U
          BY <4>1 DEF U
        <4> QED
          BY <3>3, <4>2
      <3> QED
        BY <3>2, <3>3
    <2> QED
      BY <2>1
  <1>7. last(n + 1) \in U
    BY <1>1, <1>2
  <1>8. PICK f \in [1..n + 1 -> U] : Downward(f, n, last(n + 1), jump, step)
    <2> HIDE DEF jump, step
    <2> QED
      BY <1>1, <1>5, <1>6, <1>7, DownwardExists
  <1>9. f = Body(f)
    <2>1. f = [k \in 1..n + 1 |-> IF k > n THEN last(n + 1) ELSE step[k][f[jump[k]]]]
      BY <1>8 DEF Downward
    <2>2. ASSUME NEW k \in 1..n + 1 PROVE f[k] = Body(f)[k]
      <3>1. CASE k > n
        <4>1. k = n + 1
          BY <1>1, <3>1
        <4> QED
          BY <1>4, <2>1, <3>1, <4>1
      <3>2. CASE ~(k > n)
        <4>1. k \in 1..n
          BY <1>1, <3>2
        <4>2. jump[k] \in 1..n + 1
          BY <1>1, <1>5, <4>1
        <4>3. f[jump[k]] \in U
          BY <1>8, <4>2
        <4>4. step[k][f[jump[k]]] = IF places(k) = {} THEN last(k) ELSE one(k) \o f[jump[k]]
          BY <4>1, <4>3
        <4>5. places(k) # {} => jump[k] = next(k) + Len(Special[s(k)].text)
          BY <4>1
        <4>6. f[k] = step[k][f[jump[k]]]
          <5> HIDE DEF step, jump
          <5> QED
            BY <2>1, <3>2
        <4> HIDE DEF step, jump
        <4> QED
          BY <4>4, <4>5, <4>6
      <3> QED
        BY <3>1, <3>2
    <2>3. f = [k \in 1..n + 1 |-> f[k]]
      BY <1>8
    <2>4. Body(f) = [k \in 1..n + 1 |-> Body(f)[k]]
      OBVIOUS
    <2> HIDE DEF Body
    <2> QED
      BY <2>2, <2>3, <2>4
  <1>10. F = Body(F)
    <2> HIDE DEF Body
    <2> QED
      BY <1>9
  <1>11. Segments(text) = F[1]
    BY Zenon DEF Segments, places, next, s, last, one, n
  <1> HIDE DEF F
  <1> DEFINE S == {k \in 1..n + 1 : F[k] \in U}
  <1>12. ASSUME NEW k \in 1..n + 1, \A j \in k + 1..n + 1 : j \in S PROVE k \in S
    <2>1. F[k] = IF places(k) = {} THEN last(k)
                 ELSE one(k) \o F[next(k) + Len(Special[s(k)].text)]
      BY <1>10
    <2>2. CASE places(k) = {}
      BY <1>2, <2>1, <2>2
    <2>3. CASE places(k) # {}
      <3>1. next(k) + Len(Special[s(k)].text) \in S /\ one(k) \in U
        BY <1>3, <1>12, <2>3
      <3>2. F[k] = one(k) \o F[next(k) + Len(Special[s(k)].text)]
        BY <2>1, <2>3
      <3>3. F[k] \in U
        BY <3>1, <3>2 DEF U
      <3> QED
        BY <3>3
    <2> QED
      BY <2>2, <2>3
  <1>13. \A k \in 1..n + 1 : k \in S
    <2> HIDE DEF S
    <2> QED
      BY <1>1, <1>12, FromBack
  <1> QED
    BY <1>1, <1>11, <1>13 DEF U

\* A segment of a text, and the pieces it is cut into, are code points.
LEMMA SegmentIs ==
    ASSUME NEW V, NEW text \in Seq(V), NEW k \in DOMAIN Segments(text)
    PROVE  /\ Segments(text)[k].ordinary \in Seq(V)
           /\ Segments(text)[k].special \in 0..Len(Special)
  <1> DEFINE E == SegmentSet(V)
             s == Segments(text)
  <1>1. s \in Seq(E) /\ k \in DOMAIN s
    BY SegmentsAre
  <1> HIDE DEF E, s
  <1>2. s[k] \in E
    BY <1>1
  <1> QED
    BY <1>2 DEF E, s, SegmentSet

\* What the hand-written matcher takes fits.
LEMMA NextFits ==
    ASSUME NEW C, NEW points \in Seq(C), NEW at \in 1..Len(points)
    PROVE  NextPretoken(points, at) \in 1..Len(points) + 1 - at
  <1> DEFINE n == NextPretoken(points, at)
  <1>1. \A a \in 1..7 : \A m \in Alternatives(points, at)[a] : m \in 1..Len(points) + 1 - at
    BY DEF Alternatives
  <1>2. PICK a \in 1..7 : n \in Alternatives(points, at)[a]
    <2>1. n \in Alternatives(points, at)[1]
                \cup Alternatives(points, at)[2] \cup Alternatives(points, at)[3]
                \cup Alternatives(points, at)[4] \cup Alternatives(points, at)[5]
                \cup Alternatives(points, at)[6] \cup Alternatives(points, at)[7]
      BY NextIsRegex
    <2>2. 1 \in 1..7 /\ 2 \in 1..7 /\ 3 \in 1..7 /\ 4 \in 1..7 /\ 5 \in 1..7 /\ 6 \in 1..7 /\ 7 \in 1..7
      OBVIOUS
    <2> HIDE DEF n
    <2> QED
      BY <2>1, <2>2
  <1> QED
    BY <1>1, <1>2

\* The texts that are encoded, given or rendered: code points and bytes that are
\* none, and none of those in the stretches that are cut.
CallText ==
    call.kind = "encode" =>
      /\ call.source \in Seq(Points)
      /\ Segments(call.source) \in Seq(SegmentSet(Codes))

\* The cursor cuts where the expression does: each pretoken is the longest match of
\* the first alternative that has one.
LEMMA CutAsRegex ==
    ASSUME NEW C, NEW points \in Seq(C)
    PROVE  Pretokens(points) = Cut(points, [at \in DOMAIN points |-> RegexLength(points, at)])
  <1>1. DOMAIN points = 1..Len(points)
    OBVIOUS
  <1>2. \A at \in DOMAIN points : NextPretoken(points, at) = RegexLength(points, at)
    BY <1>1, NextIsRegex
  <1>3. [at \in DOMAIN points |-> NextPretoken(points, at)]
          = [at \in DOMAIN points |-> RegexLength(points, at)]
    BY <1>2, Zenon
  <1> QED
    BY <1>3 DEF Pretokens

\* So it is of every segment of a text that is encoded.
LEMMA TextGivesRegex ==
    ASSUME CallText
    PROVE  PretokensAsRegex
  <1> SUFFICES ASSUME call.kind = "encode", NEW k \in DOMAIN Segments(call.source)
               PROVE  LET points == Nfc9(Segments(call.source)[k].ordinary)
                      IN  Pretokens(points)
                            = Cut(points, [at \in DOMAIN points |-> RegexLength(points, at)])
    BY Zenon DEF PretokensAsRegex
  <1>1. call.source \in Seq(Points)
    BY DEF CallText
  <1>2. Segments(call.source)[k].ordinary \in Seq(Points)
    BY <1>1, SegmentIs
  <1>3. Codes \subseteq Points
    BY DEF Points
  <1> DEFINE points == Nfc9(Segments(call.source)[k].ordinary)
  <1>4. points \in Seq(Points)
    BY <1>2, <1>3, NfcIs
  <1> HIDE DEF points
  <1>5. Pretokens(points) = Cut(points, [at \in DOMAIN points |-> RegexLength(points, at)])
    BY <1>4, CutAsRegex
  <1> QED
    BY <1>5 DEF points

-----------------------------------------------------------------------------
(* Byte pair encoding.                                                     *)

\* What the table says of a pair.
Rank(p)   == tokenizer.merge[p].rank
Result(p) == tokenizer.merge[p].result

\* A table of merges: no two have one rank, and none makes what another of its
\* rank or a lower one uses.
MergeTable ==
    /\ \A p \in DOMAIN tokenizer.merge : Rank(p) \in Nat /\ Result(p) \in Nat
    /\ \A p, q \in DOMAIN tokenizer.merge : Rank(p) = Rank(q) => p = q
    /\ \A p, q \in DOMAIN tokenizer.merge :
         Result(p) = q[1] \/ Result(p) = q[2] => Rank(p) < Rank(q)

\* k is the place where a pair merges first.
FirstOf(s, k) ==
    /\ k \in Mergeable(s)
    /\ \A j \in Mergeable(s) : \/ RankAt(s, k) < RankAt(s, j)
                               \/ RankAt(s, k) = RankAt(s, j) /\ k <= j

\* The best place is the first one, and there is only one.
LEMMA BestIs ==
    ASSUME MergeTable, NEW s \in Seq(Nat), Mergeable(s) # {}
    PROVE  FirstOf(s, Best(s))
  <1> DEFINE ranks == {RankAt(s, k) : k \in Mergeable(s)}
  <1>1. Mergeable(s) \in SUBSET Nat
    BY DEF Mergeable
  <1>2. \A k \in Mergeable(s) : RankAt(s, k) \in Nat
    BY DEF Mergeable, MergeTable, RankAt, Rank
  <1>3. PICK r \in ranks : \A q \in ranks : r <= q
    <2>1. ranks \in SUBSET Nat /\ ranks # {}
      BY <1>2
    <2> HIDE DEF ranks
    <2> QED
      BY <2>1, Least
  <1> DEFINE places == {k \in Mergeable(s) : RankAt(s, k) = r}
  <1>4. PICK k \in places : \A j \in places : k <= j
    <2>1. places \in SUBSET Nat /\ places # {}
      BY <1>1, <1>3
    <2> HIDE DEF places
    <2> QED
      BY <2>1, Least
  <1>5. FirstOf(s, k)
    <2>1. k \in Mergeable(s) /\ RankAt(s, k) = r
      BY <1>4
    <2>2. ASSUME NEW j \in Mergeable(s)
          PROVE  RankAt(s, k) < RankAt(s, j) \/ (RankAt(s, k) = RankAt(s, j) /\ k <= j)
      <3>1. r <= RankAt(s, j) /\ RankAt(s, j) \in Nat /\ r \in Nat
        BY <1>2, <1>3
      <3>2. RankAt(s, j) = r => k <= j
        BY <1>4
      <3> QED
        BY <2>1, <3>1, <3>2
    <2> QED
      BY <2>1, <2>2 DEF FirstOf
  <1> QED
    BY <1>5 DEF FirstOf, Best

\* No other place comes first.
LEMMA BestUnique ==
    ASSUME MergeTable, NEW s \in Seq(Nat), NEW k, FirstOf(s, k)
    PROVE  Best(s) = k
  <1>1. k \in Mergeable(s) /\ Mergeable(s) # {}
    BY DEF FirstOf
  <1>2. FirstOf(s, Best(s))
    BY <1>1, BestIs
  <1> DEFINE j == Best(s)
  <1>3. j \in Mergeable(s)
    BY <1>2 DEF FirstOf
  <1>4. RankAt(s, k) \in Nat /\ RankAt(s, j) \in Nat /\ k \in Nat /\ j \in Nat
    BY <1>1, <1>3 DEF Mergeable, MergeTable, RankAt, Rank
  <1>5. RankAt(s, k) < RankAt(s, j) \/ (RankAt(s, k) = RankAt(s, j) /\ k <= j)
    BY <1>3 DEF FirstOf
  <1>6. RankAt(s, j) < RankAt(s, k) \/ (RankAt(s, j) = RankAt(s, k) /\ j <= k)
    BY <1>1, <1>2 DEF FirstOf
  <1> HIDE DEF j
  <1>7. j = k
    BY <1>4, <1>5, <1>6
  <1> QED
    BY <1>7 DEF j

\* The textbook's step.
OneStep(s) ==
    IF Mergeable(s) = {} THEN s
    ELSE SubSeq(s, 1, Best(s) - 1) \o <<Result(PairAt(s, Best(s)))>>
           \o SubSeq(s, Best(s) + 2, Len(s))

\* It makes a sequence shorter by one, as long as anything merges.
LEMMA OneStepIs ==
    ASSUME MergeTable, NEW s \in Seq(Nat)
    PROVE  /\ OneStep(s) \in Seq(Nat)
           /\ Mergeable(s) # {} => Len(OneStep(s)) = Len(s) - 1
  <1>1. CASE Mergeable(s) = {}
    BY <1>1 DEF OneStep
  <1>2. CASE Mergeable(s) # {}
    <2> DEFINE k == Best(s)
               r == Result(PairAt(s, k))
    <2>1. k \in 1..Len(s) - 1 /\ PairAt(s, k) \in DOMAIN tokenizer.merge
      BY <1>2, BestIs DEF FirstOf, Mergeable
    <2>2. r \in Nat
      BY <2>1 DEF MergeTable
    <2> HIDE DEF k, r
    <2>3. SubSeq(s, 1, k - 1) \in Seq(Nat) /\ Len(SubSeq(s, 1, k - 1)) = k - 1
      BY <2>1
    <2>4. SubSeq(s, k + 2, Len(s)) \in Seq(Nat) /\ Len(SubSeq(s, k + 2, Len(s))) = Len(s) - k - 1
      BY <2>1
    <2> DEFINE a == SubSeq(s, 1, k - 1)
               c == SubSeq(s, k + 2, Len(s))
               t == a \o <<r>> \o c
    <2> HIDE DEF a, c
    <2>5. a \in Seq(Nat) /\ Len(a) = k - 1 /\ c \in Seq(Nat) /\ Len(c) = Len(s) - k - 1
      BY <2>3, <2>4 DEF a, c
    <2>6. t \in Seq(Nat) /\ Len(t) = Len(s) - 1
      <3> DEFINE b == a \o <<r>>
      <3>1. b \in Seq(Nat) /\ Len(b) = k
        BY <2>1, <2>2, <2>5
      <3> HIDE DEF b
      <3>2. b \o c \in Seq(Nat) /\ Len(b \o c) = Len(b) + Len(c)
        BY <2>5, <3>1, ConcatProperties
      <3>3. Len(s) \in Nat /\ k \in Nat
        BY <2>1
      <3> QED
        <4>1. Len(b \o c) = Len(s) - 1
          BY <2>5, <3>1, <3>2, <3>3
        <4> QED
          BY <3>2, <4>1, Zenon DEF b
    <2>7. OneStep(s) = t
      BY <1>2, Zenon DEF OneStep, a, c, k, r
    <2> QED
      BY <2>6, <2>7
  <1> QED
    BY <1>1, <1>2

\* Taken any number of times.
Ticks(n) == [k \in 1..n |-> 0]

\* One merge, as a step.
StepOp == [s \in Seq(Nat) |-> [x \in {0} |-> OneStep(s)]]

\* So many merges, one after the other.
Iter(s, n) == Folded(Ticks(n), s, StepOp)

\* Merging once is a step to fold with.
LEMMA StepFolds == ASSUME MergeTable PROVE FoldOver(Seq(Nat), {0}, StepOp)
  <1>1. \A s \in Seq(Nat) : OneStep(s) \in Seq(Nat)
    BY OneStepIs
  <1> QED
    BY <1>1 DEF FoldOver, StepOp

\* A sequence that counts.
LEMMA TicksAre == ASSUME NEW n \in Nat PROVE Ticks(n) \in Seq({0}) /\ Len(Ticks(n)) = n
  BY DEF Ticks

\* Symbols stay symbols however often they are merged.
LEMMA IterType ==
    ASSUME MergeTable, NEW s \in Seq(Nat), NEW n \in Nat
    PROVE  Iter(s, n) \in Seq(Nat)
  <1> DEFINE V == Seq(Nat)
             E == {0}
             t == Ticks(n)
  <1>1. FoldOver(V, E, StepOp) /\ t \in Seq(E) /\ s \in V
    BY StepFolds, TicksAre
  <1> HIDE DEF V, E, t
  <1>2. Folded(t, s, StepOp) \in V
    BY <1>1, FoldedType
  <1> QED
    BY <1>2 DEF V, t, Iter

\* Merging in two goes is merging in one.
LEMMA IterSum ==
    ASSUME MergeTable, NEW s \in Seq(Nat), NEW m \in Nat, NEW n \in Nat
    PROVE  Iter(s, m + n) = Iter(Iter(s, m), n)
  <1> DEFINE V == Seq(Nat)
             E == {0}
             t == Ticks(m)
             u == Ticks(n)
  <1>1. FoldOver(V, E, StepOp) /\ t \in Seq(E) /\ u \in Seq(E) /\ s \in V
    BY StepFolds, TicksAre
  <1>2. Ticks(m + n) = t \o u
    <2>1. m + n \in Nat
      OBVIOUS
    <2>2. Ticks(m + n) \in Seq({0}) /\ t \in Seq({0}) /\ u \in Seq({0})
      BY <2>1, TicksAre
    <2>3. Len(Ticks(m + n)) = m + n /\ Len(t) = m /\ Len(u) = n
      BY <2>1, TicksAre
    <2>4. \A k \in 1..m + n : Ticks(m + n)[k] = 0 /\ (t \o u)[k] = 0
      <3> TAKE k \in 1..m + n
      <3>1. Ticks(m + n)[k] = 0
        BY DEF Ticks
      <3>2. \A j \in 1..m : t[j] = 0
        BY DEF Ticks
      <3>3. \A j \in 1..n : u[j] = 0
        BY DEF Ticks
      <3> HIDE DEF t, u
      <3>4. (t \o u)[k] = 0
        BY <2>2, <2>3, <3>2, <3>3
      <3> QED
        BY <3>1, <3>4
    <2> DEFINE w == Ticks(m + n)
               v == t \o u
    <2> HIDE DEF t, u
    <2>5. v \in Seq({0}) /\ Len(v) = m + n
      BY <2>2, <2>3, SMTT(30)
    <2>6. w \in Seq({0}) /\ Len(w) = m + n /\ \A k \in 1..m + n : w[k] = v[k]
      BY <2>2, <2>3, <2>4
    <2> HIDE DEF w, v
    <2>7. w = v
      BY <2>5, <2>6
    <2> QED
      BY <2>7 DEF w, v
  <1> HIDE DEF V, E, t, u
  <1>3. Folded(t \o u, s, StepOp) = Folded(u, Folded(t, s, StepOp), StepOp)
    BY <1>1, FoldedConcat
  <1> QED
    BY <1>2, <1>3 DEF Iter, t, u

\* Merging no time, and once.
LEMMA IterOne ==
    ASSUME MergeTable, NEW s \in Seq(Nat)
    PROVE  Iter(s, 0) = s /\ Iter(s, 1) = OneStep(s)
  <1> DEFINE V == Seq(Nat)
             E == {0}
             z == << >>
  <1>1. FoldOver(V, E, StepOp) /\ z \in Seq(E) /\ s \in V /\ 0 \in E
    BY StepFolds
  <1>2. Ticks(0) = z /\ Ticks(1) = Append(z, 0)
    BY DEF Ticks
  <1>3. StepOp[s][0] = OneStep(s)
    BY DEF StepOp
  <1>4. Folded(z, s, StepOp) = s
    <2> HIDE DEF V, E
    <2> QED
      BY <1>1, FoldedEmpty
  <1> HIDE DEF V, E, z
  <1>5. Folded(Append(z, 0), s, StepOp) = StepOp[Folded(z, s, StepOp)][0]
    BY <1>1, FoldedAppend
  <1> QED
    BY <1>2, <1>3, <1>4, <1>5 DEF Iter

\* Where nothing merges nothing changes any more.
LEMMA IterFinal ==
    ASSUME MergeTable, NEW s \in Seq(Nat), Mergeable(s) = {}, NEW n \in Nat
    PROVE  Iter(s, n) = s
  <1> DEFINE S == {k \in Nat : Iter(s, k) = s}
  <1>1. 0 \in S
    BY IterOne
  <1>2. ASSUME NEW k \in S PROVE k + 1 \in S
    <2>1. k \in Nat /\ Iter(s, k) = s
      OBVIOUS
    <2>2. Iter(s, k + 1) = Iter(Iter(s, k), 1)
      BY <2>1, IterSum
    <2>3. Iter(s, 1) = OneStep(s)
      BY IterOne
    <2>4. OneStep(s) = s
      BY DEF OneStep
    <2>5. k + 1 \in Nat
      BY <2>1
    <2> HIDE DEF S
    <2>6. Iter(s, k + 1) = s
      BY <2>1, <2>2, <2>3, <2>4
    <2> QED
      BY <2>5, <2>6 DEF S
  <1>3. S = Nat
    <2>1. S \in SUBSET Nat
      OBVIOUS
    <2> HIDE DEF S
    <2> QED
      BY <1>1, <1>2, <2>1, Inductive
  <1> QED
    BY <1>3

\* As many steps as there are symbols are enough.
LEMMA IterEnds ==
    ASSUME MergeTable, NEW s \in Seq(Nat)
    PROVE  Mergeable(Iter(s, Len(s))) = {}
  <1> DEFINE S == {k \in Nat : Mergeable(Iter(s, k)) = {} \/ Len(Iter(s, k)) = Len(s) - k}
  <1>1. 0 \in S
    BY IterOne
  <1>2. ASSUME NEW k \in S PROVE k + 1 \in S
    <2> k \in Nat
      OBVIOUS
    <2> DEFINE t == Iter(s, k)
    <2>1. Mergeable(t) = {} \/ Len(t) = Len(s) - k
      OBVIOUS
    <2>2. t \in Seq(Nat)
      BY IterType
    <2>3. Iter(s, k + 1) = Iter(t, 1)
      BY IterSum
    <2> HIDE DEF t, S
    <2>4. Iter(t, 1) = OneStep(t)
      BY <2>2, IterOne
    <2>5. CASE Mergeable(t) = {}
      <3>1. OneStep(t) = t
        BY <2>5 DEF OneStep
      <3> QED
        BY <2>3, <2>4, <2>5, <3>1 DEF S
    <2>6. CASE Mergeable(t) # {}
      <3>1. Len(OneStep(t)) = Len(t) - 1
        BY <2>2, <2>6, OneStepIs
      <3>2. Len(s) \in Nat
        OBVIOUS
      <3>3. Len(Iter(s, k + 1)) = Len(s) - (k + 1)
        BY <2>1, <2>3, <2>4, <2>6, <3>1, <3>2
      <3> QED
        BY <3>3 DEF S
    <2> QED
      BY <2>5, <2>6
  <1>3. S = Nat
    <2>1. S \in SUBSET Nat
      OBVIOUS
    <2> HIDE DEF S
    <2> QED
      BY <1>1, <1>2, <2>1, Inductive
  <1> DEFINE n == Len(s)
             t == Iter(s, n)
  <1>4. n \in Nat
    OBVIOUS
  <1>5. t \in Seq(Nat)
    BY <1>4, IterType
  <1>6. Mergeable(t) = {} \/ Len(t) = n - n
    BY <1>3, <1>4
  <1> HIDE DEF n, t
  <1>7. Len(t) = 0 => Mergeable(t) = {}
    BY DEF Mergeable
  <1>8. Mergeable(t) = {}
    BY <1>4, <1>6, <1>7
  <1> QED
    BY <1>8 DEF n, t

\* So the textbook's result is where its steps lead.
LEMMA MergedOnceIs ==
    ASSUME MergeTable, NEW symbols \in Seq(Nat)
    PROVE  MergedOnce(symbols) = Iter(symbols, Len(symbols))
  <1> DEFINE L == Len(symbols)
             Body(f) == [n \in 0..L |->
                IF n = 0 THEN symbols
                ELSE LET s == f[n - 1]
                         k == Best(s)
                     IN  IF Mergeable(s) = {} THEN s
                         ELSE SubSeq(s, 1, k - 1)
                                \o <<tokenizer.merge[PairAt(s, k)].result>>
                                \o SubSeq(s, k + 2, Len(s))]
             F == CHOOSE f : f = Body(f)
             g == [n \in 0..L |-> Iter(symbols, n)]
  <1>1. L \in Nat
    OBVIOUS
  <1>2. ASSUME NEW f, NEW n \in 0..L
        PROVE  Body(f)[n] = IF n = 0 THEN symbols ELSE OneStep(f[n - 1])
    BY Zenon DEF OneStep, Result
  <1>3. g = Body(g)
    <2>1. ASSUME NEW n \in 0..L PROVE g[n] = Body(g)[n]
      <3>1. CASE n = 0
        <4>1. g[n] = symbols
          BY <1>1, <3>1, IterOne
        <4> HIDE DEF Body, g
        <4> QED
          BY <1>2, <3>1, <4>1
      <3>2. CASE n # 0
        <4>1. n - 1 \in Nat /\ n - 1 \in 0..L /\ (n - 1) + 1 = n /\ 1 \in Nat
          BY <1>1, <3>2
        <4>2. Iter(symbols, (n - 1) + 1) = Iter(Iter(symbols, n - 1), 1)
          BY <4>1, IterSum
        <4>3. Iter(Iter(symbols, n - 1), 1) = OneStep(Iter(symbols, n - 1))
          <5>1. Iter(symbols, n - 1) \in Seq(Nat)
            BY <4>1, IterType
          <5> QED
            BY <5>1, IterOne
        <4>4. g[n] = OneStep(g[n - 1])
          BY <4>1, <4>2, <4>3
        <4> HIDE DEF Body, g
        <4> QED
          BY <1>2, <3>2, <4>4
      <3> QED
        BY <3>1, <3>2
    <2>2. g = [n \in 0..L |-> g[n]]
      OBVIOUS
    <2>3. Body(g) = [n \in 0..L |-> Body(g)[n]]
      OBVIOUS
    <2> HIDE DEF Body, g
    <2> QED
      BY <2>1, <2>2, <2>3
  <1>4. F = Body(F)
    <2> HIDE DEF Body, g
    <2> QED
      BY <1>3
  <1>5. MergedOnce(symbols) = F[L]
    BY Zenon DEF MergedOnce
  <1> HIDE DEF F
  <1> DEFINE S == {n \in Nat : n \in 0..L => F[n] = Iter(symbols, n)}
  <1>6. 0 \in S
    <2>1. F[0] = symbols
      <3>1. 0 \in 0..L
        BY <1>1
      <3>2. Body(F)[0] = symbols
        <4> HIDE DEF Body
        <4> QED
          BY <1>2, <3>1
      <3> HIDE DEF Body
      <3> QED
        BY <1>4, <3>2
    <2> QED
      BY <2>1, IterOne
  <1>7. ASSUME NEW n \in S PROVE n + 1 \in S
    <2> n \in Nat
      OBVIOUS
    <2>1. CASE n + 1 \in 0..L
      <3>1. n \in 0..L /\ (n + 1) - 1 = n /\ n + 1 # 0
        <4> HIDE DEF S
        <4> QED
          BY <1>1, <2>1
      <3>2. F[n] = Iter(symbols, n)
        BY <3>1
      <3> HIDE DEF S
      <3>3. F[n + 1] = OneStep(F[n])
        <4>1. Body(F)[n + 1] = OneStep(F[n])
          <5> HIDE DEF Body
          <5> QED
            BY <1>2, <2>1, <3>1
        <4> HIDE DEF Body
        <4> QED
          BY <1>4, <4>1
      <3>4. Iter(symbols, n + 1) = Iter(Iter(symbols, n), 1)
        BY IterSum
      <3>5. Iter(symbols, n) \in Seq(Nat)
        BY IterType
      <3>6. F[n + 1] = Iter(symbols, n + 1)
        BY <3>2, <3>3, <3>4, <3>5, IterOne
      <3> QED
        BY <3>6 DEF S
    <2> QED
      BY <2>1
  <1>8. S = Nat
    <2>1. S \in SUBSET Nat
      OBVIOUS
    <2> HIDE DEF S
    <2> QED
      BY <1>6, <1>7, <2>1, Inductive
  <1>9. L \in S /\ L \in 0..L
    <2> HIDE DEF S
    <2> QED
      BY <1>1, <1>8
  <1>10. F[L] = Iter(symbols, L)
    BY <1>9
  <1> QED
    BY <1>5, <1>10

\* What one round makes of the symbols from each place on.
Replaces(f, s, p) ==
    /\ f \in [1..Len(s) + 1 -> Seq(Nat)]
    /\ Replace(s, p) = f[1] /\ f[Len(s) + 1] = << >>
    /\ \A k \in 1..Len(s) :
         f[k] = IF k < Len(s) /\ PairAt(s, k) = p THEN <<Result(p)>> \o f[k + 2]
                ELSE <<s[k]>> \o f[k + 1]

\* The function that replaces exists, and takes what is behind each place.
LEMMA ReplaceIs ==
    ASSUME NEW s \in Seq(Nat), NEW p, Result(p) \in Nat
    PROVE  \E f : Replaces(f, s, p)
  <1> DEFINE n == Len(s)
             U == Seq(Nat)
             here(k) == k < n /\ PairAt(s, k) = p
             one(k) == IF here(k) THEN <<Result(p)>> ELSE <<s[k]>>
             jump == [k \in 1..n |-> IF here(k) THEN k + 2 ELSE k + 1]
             step == [k \in 1..n |-> [x \in U |-> one(k) \o x]]
             Body(f) == [k \in 1..n + 1 |->
                           IF k > n THEN << >>
                           ELSE IF k < n /\ PairAt(s, k) = p
                                  THEN <<tokenizer.merge[p].result>> \o f[k + 2]
                           ELSE <<s[k]>> \o f[k + 1]]
             F == CHOOSE f : f = Body(f)
  <1>1. n \in Nat /\ << >> \in U
    OBVIOUS
  <1>2. ASSUME NEW k \in 1..n PROVE one(k) \in U /\ \A x \in U : one(k) \o x \in U
    <2>1. s[k] \in Nat
      OBVIOUS
    <2>2. one(k) \in U
      BY <2>1
    <2> HIDE DEF one
    <2>3. \A x \in U : one(k) \o x \in U
      BY <2>2
    <2> QED
      BY <2>2, <2>3
  <1> HIDE DEF here, one, U, n
  <1>3. \A k \in 1..n : jump[k] \in k + 1..n + 1
    <2> TAKE k \in 1..n
    <2>1. here(k) => k < n
      BY DEF here
    <2> QED
      BY <1>1, <2>1
  <1>4. step \in [1..n -> [U -> U]]
    BY <1>2
  <1>5. PICK f \in [1..n + 1 -> U] : Downward(f, n, << >>, jump, step)
    <2> HIDE DEF jump, step
    <2> QED
      BY <1>1, <1>3, <1>4, DownwardExists
  <1>6. ASSUME NEW g, NEW k \in 1..n + 1
        PROVE  Body(g)[k] = IF k > n THEN << >>
                            ELSE IF here(k) THEN <<Result(p)>> \o g[k + 2]
                            ELSE <<s[k]>> \o g[k + 1]
    BY Zenon DEF here, Result
  <1>7. f = Body(f)
    <2>1. f = [k \in 1..n + 1 |-> IF k > n THEN << >> ELSE step[k][f[jump[k]]]]
      BY <1>5 DEF Downward
    <2>2. ASSUME NEW k \in 1..n + 1 PROVE f[k] = Body(f)[k]
      <3>1. CASE k > n
        BY <1>6, <2>1, <3>1
      <3>2. CASE ~(k > n)
        <4>1. k \in 1..n
          BY <1>1, <3>2
        <4>2. jump[k] \in 1..n + 1
          BY <1>1, <1>3, <4>1
        <4>3. f[jump[k]] \in U
          BY <1>5, <4>2
        <4>4. step[k][f[jump[k]]] = one(k) \o f[jump[k]]
          BY <4>1, <4>3
        <4>5. jump[k] = IF here(k) THEN k + 2 ELSE k + 1
          BY <4>1
        <4>6. f[k] = step[k][f[jump[k]]]
          <5> HIDE DEF step, jump
          <5> QED
            BY <2>1, <3>2
        <4> HIDE DEF step, jump, Body
        <4>7. f[k] = IF here(k) THEN <<Result(p)>> \o f[k + 2] ELSE <<s[k]>> \o f[k + 1]
          BY <4>4, <4>5, <4>6, Zenon DEF one
        <4> QED
          BY <1>6, <3>2, <4>7
      <3> QED
        BY <3>1, <3>2
    <2>3. f = [k \in 1..n + 1 |-> f[k]]
      BY <1>5
    <2>4. Body(f) = [k \in 1..n + 1 |-> Body(f)[k]]
      OBVIOUS
    <2> HIDE DEF Body
    <2> QED
      BY <2>2, <2>3, <2>4
  <1>8. F = Body(F)
    <2> HIDE DEF Body
    <2> QED
      BY <1>7
  <1>9. Replace(s, p) = F[1]
    BY Zenon DEF Replace, n
  <1>10. F = [k \in 1..n + 1 |-> F[k]]
    <2>1. Body(F) = [k \in 1..n + 1 |-> Body(F)[k]]
      OBVIOUS
    <2> HIDE DEF F, Body
    <2> QED
      BY <1>8, <2>1
  <1>11. ASSUME NEW k \in 1..n + 1
         PROVE  F[k] = IF k > n THEN << >>
                       ELSE IF here(k) THEN <<Result(p)>> \o F[k + 2]
                       ELSE <<s[k]>> \o F[k + 1]
    <2> HIDE DEF F, Body
    <2> QED
      BY <1>6, <1>8
  <1> HIDE DEF F, Body
  <1> DEFINE S == {k \in 1..n + 1 : F[k] \in U}
  <1>12. ASSUME NEW k \in 1..n + 1, \A j \in k + 1..n + 1 : j \in S PROVE k \in S
    <2>1. CASE k > n
      BY <1>1, <1>11, <2>1
    <2>2. CASE ~(k > n)
      <3>1. k \in 1..n
        BY <1>1, <2>2
      <3>2. here(k) => k < n
        BY DEF here
      <3>3. here(k) => k + 2 \in k + 1..n + 1
        BY <1>1, <3>1, <3>2
      <3>4. k + 1 \in k + 1..n + 1
        BY <1>1, <3>1
      <3>5. F[k] = IF here(k) THEN one(k) \o F[k + 2] ELSE one(k) \o F[k + 1]
        BY <1>11, <2>2 DEF one
      <3>6. F[k] \in U
        BY <1>2, <1>12, <3>1, <3>3, <3>4, <3>5
      <3> QED
        BY <3>6
    <2> QED
      BY <2>1, <2>2
  <1>13. \A k \in 1..n + 1 : k \in S
    <2> HIDE DEF S
    <2> QED
      BY <1>1, <1>12, FromBack
  <1>14. F \in [1..n + 1 -> U]
    BY <1>10, <1>13
  <1>15. F[n + 1] = << >>
    <2>1. n + 1 \in 1..n + 1 /\ n + 1 > n
      BY <1>1
    <2> QED
      BY <1>11, <2>1
  <1>16. ASSUME NEW k \in 1..n
         PROVE  F[k] = IF here(k) THEN <<Result(p)>> \o F[k + 2] ELSE <<s[k]>> \o F[k + 1]
    <2>1. k \in 1..n + 1 /\ ~(k > n)
      BY <1>1
    <2> QED
      BY <1>11, <2>1
  <1>17. Replaces(F, s, p)
    BY <1>9, <1>14, <1>15, <1>16 DEF Replaces, here, n, U
  <1> QED
    BY <1>17

\* A round in progress: what is done, and the symbols from a place on.
Going(s, q, k) == q \o SubSeq(s, k, Len(s))

\* What it is made of.
LEMMA GoingIs ==
    ASSUME NEW s \in Seq(Nat), NEW q \in Seq(Nat), NEW k \in 1..Len(s) + 1
    PROVE  /\ Going(s, q, k) \in Seq(Nat)
           /\ Len(q) \in Nat /\ Len(s) \in Nat
           /\ Len(Going(s, q, k)) = Len(q) + Len(s) + 1 - k
           /\ \A j \in 1..Len(q) : Going(s, q, k)[j] = q[j]
           /\ \A j \in 1..Len(s) + 1 - k : Going(s, q, k)[Len(q) + j] = s[k + j - 1]
  <1> DEFINE r == SubSeq(s, k, Len(s))
             n == Len(s) + 1 - k
  <1>1. r \in Seq(Nat) /\ Len(r) = n /\ \A j \in 1..n : r[j] = s[k + j - 1]
    OBVIOUS
  <1>2. n \in Nat /\ Len(q) \in Nat /\ Len(s) \in Nat
    OBVIOUS
  <1> HIDE DEF r, n
  <1>3. /\ q \o r \in Seq(Nat) /\ Len(q \o r) = Len(q) + n
        /\ \A j \in 1..Len(q) : (q \o r)[j] = q[j]
        /\ \A j \in 1..n : (q \o r)[Len(q) + j] = r[j]
    <2>1. q \o r \in Seq(Nat) /\ Concat(q \o r, q, r)
      BY <1>1, ConcatIs
    <2> QED
      BY <1>1, <2>1 DEF Concat
  <1>4. Len(q) + n = Len(q) + Len(s) + 1 - k
    BY <1>2 DEF n
  <1> QED
    BY <1>1, <1>2, <1>3, <1>4, Zenon DEF Going, r, n

\* All that is done, up to and with the border, merges later than the pair.
Clean(s, q, k, p) ==
    \A j \in Mergeable(Going(s, q, k)) :
      j <= Len(q) => Rank(p) < RankAt(Going(s, q, k), j)

\* No pair of the symbols merges before this one.
Lowest(s, p) ==
    p \in DOMAIN tokenizer.merge /\ \A j \in Mergeable(s) : Rank(p) <= RankAt(s, j)

\* What merges behind the border merges in the symbols.
LEMMA BehindIs ==
    ASSUME NEW s \in Seq(Nat), NEW q \in Seq(Nat), NEW k \in 1..Len(s) + 1, NEW j \in Nat,
           j > Len(q), NEW i, i = k + (j - Len(q)) - 1
    PROVE  j \in Mergeable(Going(s, q, k)) <=>
             i \in Mergeable(s) /\ PairAt(Going(s, q, k), j) = PairAt(s, i)
  <1> DEFINE t == Going(s, q, k)
             n == Len(q)
             L == Len(s)
  <1>1. /\ t \in Seq(Nat) /\ n \in Nat /\ L \in Nat /\ Len(t) = n + L + 1 - k
        /\ \A m \in 1..L + 1 - k : t[n + m] = s[k + m - 1]
    BY GoingIs
  <1> HIDE DEF t, n, L
  <1>2. k \in 1..L + 1 /\ j > n /\ i = k + (j - n) - 1
    BY DEF L, n
  <1>3. j \in 1..Len(t) - 1 <=> i \in 1..L - 1
    BY <1>1, <1>2
  <1>4. ASSUME j \in 1..Len(t) - 1 PROVE PairAt(t, j) = PairAt(s, i)
    <2>1. j - n \in 1..L + 1 - k /\ j + 1 - n \in 1..L + 1 - k
      BY <1>1, <1>2, <1>4
    <2>2. n + (j - n) = j /\ n + (j + 1 - n) = j + 1 /\ k + (j + 1 - n) - 1 = i + 1
      <3>1. j \in Nat /\ n \in Nat /\ k \in Nat
        BY <1>1
      <3>2. i = k + (j - n) - 1
        BY <1>2
      <3> QED
        BY ONLY <3>1, <3>2
    <2>3. t[j] = s[i]
      BY <1>1, <1>2, <2>1, <2>2
    <2>4. t[j + 1] = s[i + 1]
      <3> DEFINE m == j + 1 - n
      <3>1. m \in 1..L + 1 - k /\ n + m = j + 1 /\ k + m - 1 = i + 1
        BY <2>1, <2>2
      <3> HIDE DEF m
      <3>2. t[n + m] = s[k + m - 1]
        BY <1>1, <3>1
      <3> QED
        BY <3>1, <3>2
    <2> QED
      BY <2>3, <2>4 DEF PairAt
  <1>5. j \in Mergeable(t) <=> j \in 1..Len(t) - 1 /\ PairAt(t, j) \in DOMAIN tokenizer.merge
    BY DEF Mergeable
  <1>6. i \in Mergeable(s) <=> i \in 1..L - 1 /\ PairAt(s, i) \in DOMAIN tokenizer.merge
    BY DEF Mergeable, L
  <1>7. j \in Mergeable(t) <=> i \in Mergeable(s) /\ PairAt(t, j) = PairAt(s, i)
    BY <1>3, <1>4, <1>5, <1>6
  <1> QED
    BY <1>7 DEF t

\* A symbol that does not start the pair is passed by.
LEMMA PassBy ==
    ASSUME MergeTable, NEW s \in Seq(Nat), NEW q \in Seq(Nat), NEW k \in 1..Len(s), NEW p,
           Lowest(s, p), Clean(s, q, k, p), ~(k < Len(s) /\ PairAt(s, k) = p)
    PROVE  /\ Going(s, Append(q, s[k]), k + 1) = Going(s, q, k)
           /\ Clean(s, Append(q, s[k]), k + 1, p)
  <1> DEFINE t == Going(s, q, k)
             r == Append(q, s[k])
             u == Going(s, r, k + 1)
             n == Len(q)
             L == Len(s)
  <1>1. s[k] \in Nat
    OBVIOUS
  <1>2. r \in Seq(Nat) /\ Len(r) = n + 1 /\ r[n + 1] = s[k] /\ \A j \in 1..n : r[j] = q[j]
    BY <1>1
  <1>3. k \in 1..L + 1 /\ k + 1 \in 1..L + 1 /\ L \in Nat /\ n \in Nat
    OBVIOUS
  <1>4. /\ t \in Seq(Nat) /\ Len(t) = n + L + 1 - k
        /\ \A j \in 1..n : t[j] = q[j]
        /\ \A j \in 1..L + 1 - k : t[n + j] = s[k + j - 1]
    BY <1>3, GoingIs
  <1>5. /\ u \in Seq(Nat) /\ Len(u) = Len(r) + L + 1 - (k + 1)
        /\ \A j \in 1..Len(r) : u[j] = r[j]
        /\ \A j \in 1..L + 1 - (k + 1) : u[Len(r) + j] = s[k + 1 + j - 1]
    <2> HIDE DEF r
    <2> QED
      BY <1>2, <1>3, GoingIs
  <1> HIDE DEF t, r, u, n, L
  <1>6. Len(u) = Len(t) /\ Len(t) \in Nat
    BY <1>2, <1>3, <1>4, <1>5
  <1>7. ASSUME NEW j \in 1..Len(t) PROVE u[j] = t[j]
    <2>1. CASE j \in 1..n
      <3>1. j \in 1..Len(r)
        BY <1>2, <1>3, <2>1
      <3> QED
        BY <1>2, <1>4, <1>5, <2>1, <3>1
    <2>2. CASE j = n + 1
      <3>1. j \in 1..Len(r) /\ 1 \in 1..L + 1 - k /\ k + 1 - 1 = k
        BY <1>2, <1>3, <1>4, <2>2
      <3>2. t[n + 1] = s[k]
        BY <1>4, <3>1
      <3> QED
        BY <1>2, <1>5, <2>2, <3>1, <3>2
    <2>3. CASE j \notin 1..n /\ j # n + 1
      <3> DEFINE i == j - n
      <3>1. i \in 1..L + 1 - k /\ i - 1 \in 1..L + 1 - (k + 1) /\ n + i = j /\ Len(r) + (i - 1) = j
            /\ k + 1 + (i - 1) - 1 = k + i - 1
        BY <1>2, <1>3, <1>4, <2>3
      <3> HIDE DEF i
      <3>2. t[n + i] = s[k + i - 1]
        BY <1>4, <3>1
      <3>3. u[Len(r) + (i - 1)] = s[k + 1 + (i - 1) - 1]
        BY <1>5, <3>1
      <3> QED
        BY <3>1, <3>2, <3>3
    <2> QED
      BY <2>1, <2>2, <2>3
  <1>8. u = t
    BY <1>4, <1>5, <1>6, <1>7, SameIs
  <1>9. ASSUME NEW j \in Mergeable(t), j <= Len(r) PROVE Rank(p) < RankAt(t, j)
    <2>1. j \in Nat /\ j \in 1..Len(t) - 1
      BY DEF Mergeable
    <2>2. CASE j <= n
      BY <2>2 DEF Clean, t, n
    <2>3. CASE ~(j <= n)
      <3>1. j = n + 1 /\ j > n
        BY <1>2, <1>3, <1>9, <2>1, <2>3
      <3>2. k + (j - n) - 1 = k
        BY <1>3, <3>1
      <3>3. k \in Mergeable(s) /\ PairAt(t, j) = PairAt(s, k)
        <4>1. j \in Mergeable(t)
          BY <1>9
        <4> HIDE DEF t
        <4>2. t = Going(s, q, k) /\ k \in 1..Len(s) + 1 /\ j > Len(q) /\ k = k + (j - Len(q)) - 1
          BY <1>3, <3>1, <3>2 DEF t, n, L
        <4>3. s \in Seq(Nat) /\ q \in Seq(Nat) /\ j \in Nat
          BY <2>1
        <4> QED
          BY ONLY <4>1, <4>2, <4>3, BehindIs
      <3>4. PairAt(s, k) # p /\ PairAt(s, k) \in DOMAIN tokenizer.merge
        BY <3>3 DEF Mergeable
      <3>5. Rank(p) <= RankAt(s, k) /\ RankAt(s, k) = Rank(PairAt(s, k)) /\ RankAt(t, j) = RankAt(s, k)
        BY <3>3 DEF Lowest, RankAt, Rank
      <3>6. /\ p \in DOMAIN tokenizer.merge /\ Rank(p) \in Nat /\ Rank(PairAt(s, k)) \in Nat
            /\ Rank(p) # Rank(PairAt(s, k))
        BY <3>4 DEF Lowest, MergeTable
      <3> QED
        BY <3>5, <3>6
    <2> QED
      BY <2>2, <2>3
  <1>10. Clean(s, r, k + 1, p)
    BY <1>8, <1>9 DEF Clean, u
  <1> QED
    BY <1>8, <1>10 DEF t, r, u

\* The first pair behind the border is the textbook's next one.
LEMMA TakeUp ==
    ASSUME MergeTable, NEW s \in Seq(Nat), NEW q \in Seq(Nat), NEW k \in 1..Len(s), NEW p,
           Lowest(s, p), Clean(s, q, k, p), k < Len(s), PairAt(s, k) = p
    PROVE  /\ OneStep(Going(s, q, k)) = Going(s, Append(q, Result(p)), k + 2)
           /\ Clean(s, Append(q, Result(p)), k + 2, p)
  <1> DEFINE t == Going(s, q, k)
             c == Result(p)
             r == Append(q, c)
             u == Going(s, r, k + 2)
             n == Len(q)
             L == Len(s)
  <1>1. c \in Nat /\ p \in DOMAIN tokenizer.merge /\ Rank(p) \in Nat
    BY DEF Lowest, MergeTable
  <1> HIDE DEF c
  <1>2. r \in Seq(Nat) /\ Len(r) = n + 1 /\ r[n + 1] = c /\ \A j \in 1..n : r[j] = q[j]
    BY <1>1
  <1>3. k \in 1..L + 1 /\ k + 2 \in 1..L + 1 /\ L \in Nat /\ n \in Nat /\ k < L
    OBVIOUS
  <1>4. /\ t \in Seq(Nat) /\ Len(t) = n + L + 1 - k
        /\ \A j \in 1..n : t[j] = q[j]
        /\ \A j \in 1..L + 1 - k : t[n + j] = s[k + j - 1]
    BY <1>3, GoingIs
  <1>5. /\ u \in Seq(Nat) /\ Len(u) = Len(r) + L + 1 - (k + 2)
        /\ \A j \in 1..Len(r) : u[j] = r[j]
        /\ \A j \in 1..L + 1 - (k + 2) : u[Len(r) + j] = s[k + 2 + j - 1]
    <2> HIDE DEF r
    <2> QED
      BY <1>2, <1>3, GoingIs
  <1> HIDE DEF t, r, u, n, L
  <1>6. n + 1 \in Mergeable(t) /\ PairAt(t, n + 1) = p
    <2>1. n + 1 \in Nat /\ n + 1 > n /\ k + (n + 1 - n) - 1 = k
      BY <1>3
    <2>2. k \in Mergeable(s)
      BY <1>1, <1>3 DEF Mergeable, L
    <2>3. PairAt(t, n + 1) = PairAt(s, k)
      <3>1. 1 \in 1..L + 1 - k /\ 2 \in 1..L + 1 - k /\ k + 1 - 1 = k /\ k + 2 - 1 = k + 1
            /\ (n + 1) + 1 = n + 2
        BY <1>3
      <3>2. t[n + 1] = s[k] /\ t[n + 2] = s[k + 1]
        BY <1>4, <3>1
      <3> QED
        BY <3>1, <3>2 DEF PairAt
    <2> QED
      <3>1. /\ t = Going(s, q, k) /\ k \in 1..Len(s) + 1 /\ n + 1 > Len(q)
            /\ k = k + ((n + 1) - Len(q)) - 1
        BY <1>3, <2>1 DEF t, n, L
      <3> QED
        BY <2>1, <2>2, <2>3, <3>1, BehindIs
  <1>7. FirstOf(t, n + 1)
    <2>1. RankAt(t, n + 1) = Rank(p)
      BY <1>6 DEF RankAt, Rank
    <2>2. ASSUME NEW j \in Mergeable(t)
          PROVE  \/ RankAt(t, n + 1) < RankAt(t, j)
                 \/ RankAt(t, n + 1) = RankAt(t, j) /\ n + 1 <= j
      <3>1. j \in Nat /\ RankAt(t, j) \in Nat
        BY DEF Mergeable, MergeTable, RankAt, Rank
      <3>2. CASE j <= n
        BY <2>1, <3>2 DEF Clean, t, n
      <3>3. CASE ~(j <= n)
        <4> DEFINE i == k + (j - n) - 1
        <4>1. j > n /\ n + 1 <= j
          BY <1>3, <3>1, <3>3
        <4>2. i \in Mergeable(s) /\ PairAt(t, j) = PairAt(s, i)
          <5>1. t = Going(s, q, k) /\ k \in 1..Len(s) + 1 /\ j > Len(q) /\ i = k + (j - Len(q)) - 1
            BY <1>3, <4>1 DEF t, n, L
          <5> HIDE DEF i
          <5> QED
            BY <3>1, <5>1, BehindIs
        <4> HIDE DEF i
        <4>3. Rank(p) <= RankAt(s, i) /\ RankAt(t, j) = RankAt(s, i)
          BY <4>2 DEF Lowest, RankAt, Rank
        <4> QED
          BY <1>1, <2>1, <3>1, <4>1, <4>3
      <3> QED
        BY <3>2, <3>3
    <2> QED
      BY <1>6, <2>2 DEF FirstOf
  <1>8. Best(t) = n + 1 /\ Mergeable(t) # {}
    BY <1>4, <1>6, <1>7, BestUnique
  <1>9. OneStep(t) = u
    <2> DEFINE a == SubSeq(t, 1, n)
               b == SubSeq(t, n + 3, Len(t))
    <2>1. OneStep(t) = a \o <<c>> \o b
      <3>1. (n + 1) - 1 = n /\ (n + 1) + 2 = n + 3
        BY <1>3
      <3>2. OneStep(t) = SubSeq(t, 1, Best(t) - 1) \o <<Result(PairAt(t, Best(t)))>>
                           \o SubSeq(t, Best(t) + 2, Len(t))
        BY <1>8, Zenon DEF OneStep
      <3> QED
        BY <1>6, <1>8, <3>1, <3>2 DEF c
    <2>2. a \in Seq(Nat) /\ Len(a) = n /\ \A j \in 1..n : a[j] = t[j]
      BY <1>3, <1>4
    <2> DEFINE m == L + 1 - (k + 2)
    <2>3. m \in Nat /\ Len(t) = n + 2 + m /\ Len(u) = n + 1 + m
      BY <1>2, <1>3, <1>4, <1>5
    <2>4. b \in Seq(Nat) /\ Len(b) = m /\ \A j \in 1..m : b[j] = t[n + 2 + j]
      <3>1. n + 3 \in 1..Len(t) + 1 /\ Len(t) \in Nat
        BY <1>3, <2>3
      <3> HIDE DEF m
      <3>2. b \in Seq(Nat) /\ Len(b) = m
        <4>1. Len(t) \in n + 3 - 1..Len(t) /\ Len(t) + 1 - (n + 3) = m
          BY <1>3, <2>3, <3>1
        <4> QED
          <5>1. t \in Seq(Nat) /\ n + 3 \in 1..Len(t) + 1 /\ Len(t) \in n + 3 - 1..Len(t)
            BY <1>4, <3>1, <4>1
          <5>2. b \in Seq(Nat) /\ PieceBetween(b, t, n + 3, Len(t))
            BY <5>1, PartIs
          <5> QED
            BY <4>1, <5>2 DEF PieceBetween
      <3>3. ASSUME NEW j \in 1..m PROVE b[j] = t[n + 2 + j]
        <4>1. b[j] = t[(n + 3) + j - 1]
          BY <1>3, <1>4, <2>3, <3>1, <3>2
        <4>2. (n + 3) + j - 1 = n + 2 + j
          BY <1>3, <2>3
        <4> QED
          BY <4>1, <4>2
      <3> QED
        BY <3>2, <3>3
    <2> HIDE DEF a, b
    <2>5. ASSUME NEW j \in 1..m PROVE u[n + 1 + j] = b[j]
      <3>1. j \in 1..L + 1 - (k + 2) /\ j + 2 \in 1..L + 1 - k
            /\ n + (j + 2) = n + 2 + j /\ k + (j + 2) - 1 = k + 2 + j - 1
        BY <1>3
      <3>2. u[Len(r) + j] = s[k + 2 + j - 1]
        BY <1>5, <3>1
      <3>3. t[n + (j + 2)] = s[k + (j + 2) - 1]
        BY <1>4, <3>1
      <3> QED
        BY <1>2, <2>4, <3>1, <3>2, <3>3
    <2> HIDE DEF m
    <2> DEFINE d == a \o <<c>>
    <2>6. d \in Seq(Nat) /\ Len(d) = n + 1 /\ d[n + 1] = c /\ \A j \in 1..n : d[j] = t[j]
      BY <1>1, <1>3, <2>2, SMTT(30)
    <2> HIDE DEF d
    <2>7. /\ d \o b \in Seq(Nat) /\ Len(d \o b) = n + 1 + m
          /\ \A j \in 1..n + 1 : (d \o b)[j] = d[j]
          /\ \A j \in 1..m : (d \o b)[n + 1 + j] = b[j]
      <3>1. d \o b \in Seq(Nat) /\ Concat(d \o b, d, b)
        BY <2>4, <2>6, ConcatIs
      <3> QED
        BY <2>4, <2>6, <3>1 DEF Concat
    <2>8. ASSUME NEW j \in 1..n + 1 + m PROVE u[j] = (d \o b)[j]
      <3>1. CASE j \in 1..n
        <4>1. j \in 1..Len(r) /\ j \in 1..n + 1
          BY <1>2, <1>3, <3>1
        <4> QED
          BY <1>2, <1>4, <1>5, <2>6, <2>7, <3>1, <4>1
      <3>2. CASE j = n + 1
        <4>1. j \in 1..Len(r) /\ j \in 1..n + 1
          BY <1>2, <1>3, <3>2
        <4> QED
          BY <1>2, <1>5, <2>6, <2>7, <3>2, <4>1
      <3>3. CASE j \notin 1..n /\ j # n + 1
        <4> DEFINE i == j - n - 1
        <4>1. i \in 1..m /\ n + 1 + i = j
          BY <1>3, <2>3, <3>3
        <4> HIDE DEF i
        <4> QED
          BY <2>5, <2>7, <4>1
      <3> QED
        BY <3>1, <3>2, <3>3
    <2>9. u = d \o b
      <3> DEFINE v == d \o b
      <3>1. v \in Seq(Nat) /\ Len(v) = n + 1 + m /\ \A j \in 1..n + 1 + m : u[j] = v[j]
        BY <2>7, <2>8
      <3> HIDE DEF v
      <3>2. u = v
        BY <1>5, <2>3, <3>1, SameIs
      <3> QED
        BY <3>2 DEF v
    <2> QED
      BY <2>1, <2>9 DEF d
  <1>10. ASSUME NEW j \in Mergeable(u), j <= Len(r) PROVE Rank(p) < RankAt(u, j)
    <2>1. j \in Nat /\ j \in 1..Len(u) - 1 /\ PairAt(u, j) \in DOMAIN tokenizer.merge
      BY DEF Mergeable
    <2>2. RankAt(u, j) = Rank(PairAt(u, j)) /\ Rank(PairAt(u, j)) \in Nat
      BY <2>1 DEF MergeTable, RankAt, Rank
    <2>3. CASE j < n
      <3>1. j \in 1..n /\ j + 1 \in 1..n /\ j \in 1..Len(r) /\ j + 1 \in 1..Len(r)
        BY <1>2, <1>3, <2>1, <2>3
      <3>2. u[j] = t[j] /\ u[j + 1] = t[j + 1]
        BY <1>2, <1>4, <1>5, <3>1
      <3>3. PairAt(u, j) = PairAt(t, j)
        BY <3>2 DEF PairAt
      <3>4. j \in 1..Len(t) - 1
        BY <1>3, <1>4, <3>1, SMTT(30)
      <3>5. j \in Mergeable(t)
        BY <2>1, <3>3, <3>4 DEF Mergeable
      <3>6. Rank(p) < RankAt(t, j)
        BY <1>3, <2>1, <2>3, <3>5 DEF Clean, t, n
      <3> QED
        BY <3>3, <3>6 DEF RankAt
    <2>4. CASE ~(j < n)
      <3>1. j = n \/ j = n + 1
        <4>1. j <= n + 1 /\ j \in Nat
          BY <1>2, <1>10, <2>1
        <4> QED
          BY <1>3, <2>4, <4>1
      <3>2. u[n + 1] = c
        <4>1. n + 1 \in 1..Len(r)
          BY <1>2, <1>3
        <4> QED
          BY <1>2, <1>5, <4>1
      <3>3. PairAt(u, j)[1] = c \/ PairAt(u, j)[2] = c
        BY <3>1, <3>2 DEF PairAt
      <3>4. Rank(p) < Rank(PairAt(u, j))
        BY <1>1, <2>1, <3>3 DEF MergeTable, c
      <3> QED
        BY <2>2, <3>4
    <2> QED
      BY <2>3, <2>4
  <1>11. Clean(s, r, k + 2, p)
    BY <1>10 DEF Clean, u
  <1> QED
    BY <1>9, <1>11 DEF t, r, u, c

\* Some pair is still to come.
Comes(s, k, p) == \E j \in k..Len(s) - 1 : PairAt(s, j) = p

\* One round is some of the textbook's steps, and one at least.
LEMMA RoundIsSteps ==
    ASSUME MergeTable, NEW s \in Seq(Nat), NEW p, Lowest(s, p), Comes(s, 1, p)
    PROVE  \E m \in Nat : m >= 1 /\ Replace(s, p) = Iter(s, m)
  <1> DEFINE L == Len(s)
  <1>1. L \in Nat /\ Result(p) \in Nat
    BY DEF Lowest, MergeTable
  <1>2. PICK f : Replaces(f, s, p)
    BY <1>1, ReplaceIs
  <1>3. /\ f \in [1..L + 1 -> Seq(Nat)]
        /\ Replace(s, p) = f[1] /\ f[L + 1] = << >>
        /\ \A k \in 1..L :
             f[k] = IF k < L /\ PairAt(s, k) = p THEN <<Result(p)>> \o f[k + 2]
                    ELSE <<s[k]>> \o f[k + 1]
    BY <1>2 DEF Replaces
  <1> DEFINE Steps(q, k) ==
               \E m \in Nat : /\ q \o f[k] = Iter(Going(s, q, k), m)
                              /\ Comes(s, k, p) => m >= 1
             S == {k \in 1..L + 1 : \A q \in Seq(Nat) : Clean(s, q, k, p) => Steps(q, k)}
  <1>4. ASSUME NEW k \in 1..L + 1, \A j \in k + 1..L + 1 : j \in S PROVE k \in S
    <2> SUFFICES ASSUME NEW q \in Seq(Nat), Clean(s, q, k, p) PROVE Steps(q, k)
      OBVIOUS
    <2>1. Going(s, q, k) \in Seq(Nat)
      BY GoingIs
    <2>2. CASE k = L + 1
      <3>1. ~Comes(s, k, p)
        BY <1>1, <2>2 DEF Comes
      <3>2. Going(s, q, k) = q \o << >>
        <4>1. SubSeq(s, L + 1, L) = << >>
          BY <1>1
        <4> QED
          BY <2>2, <4>1 DEF Going
      <3>3. q \o f[k] = Iter(Going(s, q, k), 0)
        BY <1>3, <2>1, <2>2, <3>2, IterOne
      <3> QED
        BY <3>1, <3>3
    <2>3. CASE k # L + 1 /\ k < L /\ PairAt(s, k) = p
      <3> DEFINE r == Append(q, Result(p))
                 t == Going(s, q, k)
                 u == Going(s, r, k + 2)
      <3>1. k \in 1..L /\ k + 2 \in 1..L + 1 /\ k + 2 \in k + 1..L + 1
        BY <1>1, <2>3
      <3>2. r \in Seq(Nat) /\ OneStep(t) = u /\ Clean(s, r, k + 2, p)
        BY <1>1, <2>3, <3>1, TakeUp
      <3>3. k + 2 \in S
        BY <1>4, <3>1
      <3> HIDE DEF r, t, u
      <3>4. Steps(r, k + 2)
        BY <3>2, <3>3
      <3>5. PICK m \in Nat : r \o f[k + 2] = Iter(Going(s, r, k + 2), m)
        BY <3>4
      <3>6. u \in Seq(Nat) /\ t \in Seq(Nat)
        BY <2>1, <3>1, <3>2, GoingIs DEF t, u
      <3>7. Iter(t, 1 + m) = Iter(u, m)
        <4>1. Iter(t, 1 + m) = Iter(Iter(t, 1), m)
          BY <3>6, IterSum
        <4>2. Iter(t, 1) = u
          BY <3>2, <3>6, IterOne
        <4> QED
          BY <4>1, <4>2
      <3>8. q \o f[k] = r \o f[k + 2]
        <4>1. f[k] = <<Result(p)>> \o f[k + 2]
          BY <1>3, <2>3, <3>1
        <4>2. f[k + 2] \in Seq(Nat)
          BY <1>3, <3>1
        <4> DEFINE x == f[k + 2]
                   c == Result(p)
        <4> HIDE DEF x, c
        <4>3. q \o (<<c>> \o x) = Append(q, c) \o x
          <5>1. c \in Nat /\ x \in Seq(Nat) /\ q \in Seq(Nat)
            BY <1>1, <4>2 DEF x, c
          <5> QED
            BY ONLY <5>1, AppendIs, SMTT(30)
        <4> QED
          BY <4>1, <4>3 DEF x, c, r
      <3>9. 1 + m \in Nat /\ 1 + m >= 1
        OBVIOUS
      <3>10. q \o f[k] = Iter(Going(s, q, k), 1 + m)
        BY <3>5, <3>7, <3>8 DEF t, u
      <3> QED
        BY <3>9, <3>10
    <2>4. CASE k # L + 1 /\ ~(k < L /\ PairAt(s, k) = p)
      <3> DEFINE r == Append(q, s[k])
      <3>1. k \in 1..L /\ k + 1 \in 1..L + 1 /\ k + 1 \in k + 1..L + 1
        BY <1>1, <2>4
      <3>2. s[k] \in Nat
        BY <3>1
      <3>3. r \in Seq(Nat)
        BY <3>2
      <3>4. Going(s, r, k + 1) = Going(s, q, k) /\ Clean(s, r, k + 1, p)
        BY <2>4, <3>1, PassBy
      <3>5. k + 1 \in S
        BY <1>4, <3>1
      <3> HIDE DEF r
      <3>6. Steps(r, k + 1)
        BY <3>3, <3>4, <3>5
      <3>7. PICK m \in Nat : /\ r \o f[k + 1] = Iter(Going(s, r, k + 1), m)
                             /\ Comes(s, k + 1, p) => m >= 1
        BY <3>6
      <3>8. Comes(s, k, p) => Comes(s, k + 1, p)
        <4> SUFFICES ASSUME NEW j \in k..L - 1, PairAt(s, j) = p PROVE Comes(s, k + 1, p)
          BY DEF Comes
        <4>1. j # k
          BY <1>1, <2>4, <3>1
        <4>2. j \in k + 1..L - 1
          BY <1>1, <3>1, <4>1
        <4> QED
          BY <4>2 DEF Comes
      <3>9. q \o f[k] = r \o f[k + 1]
        <4>1. f[k] = <<s[k]>> \o f[k + 1]
          BY <1>3, <2>4, <3>1
        <4>2. f[k + 1] \in Seq(Nat)
          BY <1>3, <3>1
        <4> DEFINE x == f[k + 1]
                   c == s[k]
        <4> HIDE DEF x, c
        <4>3. q \o (<<c>> \o x) = Append(q, c) \o x
          <5>1. c \in Nat /\ x \in Seq(Nat) /\ q \in Seq(Nat)
            BY <3>2, <4>2 DEF x, c
          <5> QED
            BY ONLY <5>1, AppendIs, SMTT(30)
        <4> QED
          BY <4>1, <4>3 DEF x, c, r
      <3> QED
        BY <3>4, <3>7, <3>8, <3>9
    <2> QED
      BY <1>1, <2>2, <2>3, <2>4
  <1>5. \A k \in 1..L + 1 : k \in S
    <2> HIDE DEF S
    <2> QED
      BY <1>1, <1>4, FromBack
  <1> DEFINE z == << >>
  <1>6. z \in Seq(Nat) /\ Len(z) = 0
    OBVIOUS
  <1>7. 1 \in S
    <2>1. 1 \in 1..L + 1
      BY <1>1
    <2> HIDE DEF S
    <2> QED
      BY <1>5, <2>1
  <1>8. Clean(s, z, 1, p)
    BY <1>6 DEF Clean, Mergeable
  <1>9. Going(s, z, 1) = s
    <2>1. SubSeq(s, 1, L) = s
      OBVIOUS
    <2> QED
      BY <2>1 DEF Going
  <1>10. z \o f[1] = Replace(s, p)
    <2>1. f[1] \in Seq(Nat)
      <3>1. 1 \in 1..L + 1
        BY <1>1
      <3> QED
        BY <1>3, <3>1
    <2> QED
      BY <1>3, <2>1
  <1> HIDE DEF z
  <1>11. Steps(z, 1)
    BY <1>6, <1>7, <1>8
  <1>12. PICK m \in Nat : z \o f[1] = Iter(Going(s, z, 1), m) /\ (Comes(s, 1, p) => m >= 1)
    BY <1>11
  <1> QED
    BY <1>9, <1>10, <1>12

\* A round of kq_bpe_piece.
Round(s) == IF Mergeable(s) = {} THEN s ELSE Replace(s, PairAt(s, Best(s)))

\* A round is one merge after another, at least one of them.
LEMMA RoundIs ==
    ASSUME MergeTable, NEW s \in Seq(Nat), Mergeable(s) # {}
    PROVE  \E m \in Nat : m >= 1 /\ Round(s) = Iter(s, m)
  <1> DEFINE b == Best(s)
             p == PairAt(s, b)
  <1>1. FirstOf(s, b)
    BY BestIs
  <1>2. b \in 1..Len(s) - 1 /\ p \in DOMAIN tokenizer.merge /\ b \in Mergeable(s)
    BY <1>1 DEF FirstOf, Mergeable
  <1>3. Lowest(s, p)
    <2>1. ASSUME NEW j \in Mergeable(s) PROVE Rank(p) <= RankAt(s, j)
      <3>1. PairAt(s, j) \in DOMAIN tokenizer.merge
        BY DEF Mergeable
      <3>2. RankAt(s, b) = Rank(p) /\ RankAt(s, b) \in Nat /\ RankAt(s, j) \in Nat
        BY <1>2, <3>1 DEF MergeTable, RankAt, Rank
      <3>3. RankAt(s, b) < RankAt(s, j) \/ RankAt(s, b) = RankAt(s, j)
        BY <1>1 DEF FirstOf
      <3> HIDE DEF b, p
      <3> QED
        BY <3>2, <3>3
    <2> QED
      BY <1>2, <2>1 DEF Lowest
  <1>4. Comes(s, 1, p)
    BY <1>2 DEF Comes
  <1>5. Round(s) = Replace(s, p)
    BY Zenon DEF Round
  <1> HIDE DEF p
  <1> QED
    BY <1>3, <1>4, <1>5, RoundIsSteps

\* Symbols stay symbols.
LEMMA RoundType ==
    ASSUME MergeTable, NEW s \in Seq(Nat)
    PROVE  Round(s) \in Seq(Nat)
  <1>1. CASE Mergeable(s) = {}
    BY <1>1 DEF Round
  <1>2. CASE Mergeable(s) # {}
    BY <1>2, RoundIs, IterType
  <1> QED
    BY <1>1, <1>2

\* What the rounds come to.
LEMMA MergedIs ==
    ASSUME MergeTable, NEW symbols \in Seq(Nat)
    PROVE  \E f : /\ f[0] = symbols /\ Merged(symbols) = f[Len(symbols)]
                  /\ \A n \in 1..Len(symbols) : f[n] = Round(f[n - 1])
  <1> DEFINE L == Len(symbols)
             U == Seq(Nat)
             step == [n \in 1..L |-> [s \in U |-> Round(s)]]
             Body(f) == [n \in 0..L |->
                IF n = 0 THEN symbols
                ELSE LET s == f[n - 1]
                     IN  IF Mergeable(s) = {} THEN s
                         ELSE Replace(s, PairAt(s, Best(s)))]
             F == CHOOSE f : f = Body(f)
  <1>1. L \in Nat /\ step \in [1..L -> [U -> U]]
    BY RoundType
  <1>2. PICK f \in [0..L -> U] : Upward(f, L, symbols, step)
    <2> HIDE DEF step
    <2> QED
      BY <1>1, UpwardExists
  <1>3. ASSUME NEW g, NEW n \in 0..L
        PROVE  Body(g)[n] = IF n = 0 THEN symbols ELSE Round(g[n - 1])
    BY Zenon DEF Round
  <1>4. f = Body(f)
    <2>1. f = [n \in 0..L |-> IF n = 0 THEN symbols ELSE step[n][f[n - 1]]]
      BY <1>2 DEF Upward
    <2>2. ASSUME NEW n \in 0..L PROVE f[n] = Body(f)[n]
      <3>1. n # 0 => n \in 1..L /\ n - 1 \in 0..L
        BY <1>1
      <3>2. n # 0 => step[n][f[n - 1]] = Round(f[n - 1])
        BY <1>2, <3>1
      <3>3. f[n] = IF n = 0 THEN symbols ELSE step[n][f[n - 1]]
        <4> HIDE DEF step
        <4> QED
          BY <2>1
      <3>4. Body(f)[n] = IF n = 0 THEN symbols ELSE Round(f[n - 1])
        <4> HIDE DEF Body
        <4> QED
          BY <1>3
      <3>5. CASE n = 0
        BY ONLY <3>3, <3>4, <3>5
      <3>6. CASE n # 0
        <4> HIDE DEF step, Body
        <4> QED
          BY ONLY <3>2, <3>3, <3>4, <3>6
      <3> HIDE DEF step, Body
      <3> QED
        BY ONLY <3>5, <3>6
    <2>3. f = [n \in 0..L |-> f[n]]
      BY <1>2
    <2>4. Body(f) = [n \in 0..L |-> Body(f)[n]]
      OBVIOUS
    <2> HIDE DEF Body
    <2> QED
      BY <2>2, <2>3, <2>4
  <1>5. F = Body(F)
    <2> HIDE DEF Body
    <2> QED
      BY <1>4
  <1>6. Merged(symbols) = F[L]
    BY Zenon DEF Merged
  <1> HIDE DEF F
  <1>7. F[0] = symbols
    <2>1. 0 \in 0..L
      BY <1>1
    <2>2. Body(F)[0] = symbols
      <3> HIDE DEF Body
      <3> QED
        BY <1>3, <2>1
    <2> HIDE DEF Body
    <2> QED
      BY <1>5, <2>2
  <1>8. ASSUME NEW n \in 1..L PROVE F[n] = Round(F[n - 1])
    <2>1. n \in 0..L /\ n # 0
      BY <1>1
    <2>2. Body(F)[n] = Round(F[n - 1])
      <3> HIDE DEF Body
      <3> QED
        BY <1>3, <2>1
    <2> HIDE DEF Body
    <2> QED
      BY <1>5, <2>2
  <1> QED
    BY <1>6, <1>7, <1>8

\* All occurrences at once, round by round, or one pair at a time: the result is
\* the same.
LEMMA MergedAsOnce ==
    ASSUME MergeTable, NEW symbols \in Seq(Nat)
    PROVE  Merged(symbols) = MergedOnce(symbols)
  <1> DEFINE L == Len(symbols)
  <1>1. PICK f : /\ f[0] = symbols /\ Merged(symbols) = f[L]
                 /\ \A n \in 1..L : f[n] = Round(f[n - 1])
    BY MergedIs
  <1>2. L \in Nat
    OBVIOUS
  <1> DEFINE Led(k) == \E m \in Nat : /\ f[k] = Iter(symbols, m)
                                      /\ m >= k \/ Mergeable(f[k]) = {}
             S == {k \in Nat : k <= L => Led(k)}
  <1> HIDE DEF L
  <1>3. 0 \in S
    BY <1>1, IterOne
  <1>4. ASSUME NEW k \in S PROVE k + 1 \in S
    <2> k \in Nat
      OBVIOUS
    <2> SUFFICES ASSUME k + 1 <= L PROVE Led(k + 1)
      OBVIOUS
    <2>1. k <= L /\ k + 1 \in 1..L /\ (k + 1) - 1 = k
      BY <1>2
    <2>2. Led(k)
      BY <2>1
    <2>3. PICK m \in Nat : f[k] = Iter(symbols, m) /\ (m >= k \/ Mergeable(f[k]) = {})
      BY <2>2
    <2>4. f[k + 1] = Round(f[k])
      BY <1>1, <2>1
    <2>5. f[k] \in Seq(Nat)
      BY <2>3, IterType
    <2>6. CASE Mergeable(f[k]) = {}
      <3>1. f[k + 1] = f[k]
        BY <2>4, <2>6 DEF Round
      <3> QED
        BY <2>3, <2>6, <3>1
    <2>7. CASE Mergeable(f[k]) # {}
      <3>1. PICK n \in Nat : n >= 1 /\ Round(f[k]) = Iter(f[k], n)
        BY <2>5, <2>7, RoundIs
      <3>2. Iter(symbols, m + n) = Iter(Iter(symbols, m), n)
        BY IterSum
      <3>3. m + n \in Nat /\ m + n >= k + 1
        BY <2>3, <2>7, <3>1
      <3>4. f[k + 1] = Iter(symbols, m + n)
        BY <2>3, <2>4, <3>1, <3>2
      <3> QED
        BY <3>3, <3>4
    <2> QED
      BY <2>6, <2>7
  <1>5. S = Nat
    <2>1. S \in SUBSET Nat
      OBVIOUS
    <2> HIDE DEF S
    <2> QED
      BY <1>3, <1>4, <2>1, Inductive
  <1>6. Led(L)
    <2>1. L \in S /\ L <= L
      <3> HIDE DEF S
      <3> QED
        BY <1>2, <1>5
    <2> QED
      BY <2>1
  <1>7. PICK m \in Nat : f[L] = Iter(symbols, m) /\ (m >= L \/ Mergeable(f[L]) = {})
    BY <1>6
  <1>8. MergedOnce(symbols) = Iter(symbols, L)
    BY MergedOnceIs DEF L
  <1>9. Iter(symbols, L) \in Seq(Nat) /\ Mergeable(Iter(symbols, L)) = {}
    BY <1>2, IterType, IterEnds DEF L
  <1>10. CASE m >= L
    <2>1. m - L \in Nat /\ L + (m - L) = m
      BY <1>2, <1>10
    <2>2. Iter(symbols, L + (m - L)) = Iter(Iter(symbols, L), m - L)
      BY <1>2, <2>1, IterSum
    <2>3. Iter(Iter(symbols, L), m - L) = Iter(symbols, L)
      BY <1>9, <2>1, IterFinal
    <2> QED
      BY <1>1, <1>7, <1>8, <2>1, <2>2, <2>3 DEF L
  <1>11. CASE ~(m >= L)
    <2>1. L - m \in Nat /\ m + (L - m) = L /\ Mergeable(f[L]) = {}
      BY <1>2, <1>7, <1>11
    <2>2. Iter(symbols, m + (L - m)) = Iter(Iter(symbols, m), L - m)
      BY <1>2, <2>1, IterSum
    <2>3. Iter(symbols, m) \in Seq(Nat) /\ Mergeable(Iter(symbols, m)) = {}
      BY <1>7, <2>1, IterType
    <2>4. Iter(Iter(symbols, m), L - m) = Iter(symbols, m)
      BY <2>1, <2>3, IterFinal
    <2> QED
      BY <1>1, <1>7, <1>8, <2>1, <2>2, <2>4 DEF L
  <1> QED
    BY <1>10, <1>11

-----------------------------------------------------------------------------
(* The tables of an open tokenizer.                                        *)

\* What an accepted container has been found to say, and what is built from it.
Acceptable ==
    LET tokens == Vocabulary.tokens
        merges == Vocabulary.merges
    IN  /\ Len(tokens) = ModelVocabulary
        /\ \A id \in 0..TokenizerLength - 1 : IdsOf(tokens, tokens[id + 1]) = {id}
        /\ \A k \in DOMAIN Special : tokens[BaseVocabulary + k] = Special[k].text
        /\ \A b \in ByteValues : IdsOf(tokens, <<ByteToUnicode(b)>>) # {}
        /\ \A k \in DOMAIN merges : IsMerge(tokens, merges[k])
        /\ \A k \in DOMAIN merges : \A j \in 1..k - 1 :
             PairOf(tokens, merges[j]) # PairOf(tokens, merges[k])

\* The pair of a merge, and the merge of a pair.
PairAmong(k) == PairOf(Vocabulary.tokens, Vocabulary.merges[k])
RankAmong(pair) == CHOOSE k \in DOMAIN Vocabulary.merges : PairAmong(k) = pair

\* The tables that are built from the vocabulary.
Tables ==
    LET tokens == Vocabulary.tokens
        merges == Vocabulary.merges
    IN  [tokens |-> tokens,
         byte   |-> [b \in ByteValues |-> IdOf(tokens, <<ByteToUnicode(b)>>)],
         merge  |-> [pair \in {PairAmong(k) : k \in DOMAIN merges} |->
                       [rank   |-> RankAmong(pair),
                        result |-> IdOf(tokens, tokens[pair[1] + 1]
                                                  \o tokens[pair[2] + 1])]]]

\* A container that is accepted has an acceptable vocabulary, and the tables are built
\* from it.
LEMMA CompatibleIs ==
    ASSUME Compatible
    PROVE  Acceptable /\ Built = Tables
  <1>1. /\ Items("tokenizer.ggml.tokens") = Vocabulary.tokens
        /\ Items("tokenizer.ggml.merges") = Vocabulary.merges
    BY Zenon DEF Compatible
  <1>2. Len(Vocabulary.tokens) = ModelVocabulary
    <2>1. IsArrayOf("tokenizer.ggml.tokens", "STRING", ModelVocabulary)
      BY Zenon DEF Compatible
    <2>2. Len(Items("tokenizer.ggml.tokens")) = ModelVocabulary
      BY <2>1, Zenon DEF IsArrayOf, Items
    <2> QED
      BY <1>1, <2>2, Zenon
  <1>3. Acceptable
    BY <1>1, <1>2, Zenon DEF Compatible, Acceptable
  <1>4. Built = Tables
    BY <1>1, Zenon DEF Built, Tables, PairAmong, RankAmong
  <1> QED
    BY <1>3, <1>4

\* The ids that are not special tokens.
Ordinary == 0..BaseVocabulary - 1

\* All ids of the tokenizer.
Known == 0..TokenizerLength - 1

\* The special tokens are behind all others, each at its place in the table.
LEMMA OrdinaryIs ==
    /\ BaseVocabulary \in Nat /\ TokenizerLength \in Nat /\ BaseVocabulary <= TokenizerLength
    /\ \A id \in Known : IsSpecial(id) <=> id \notin Ordinary
    /\ Ordinary \subseteq Known
    /\ \A id \in Known : IsSpecial(id) =>
         id - BaseVocabulary + 1 \in DOMAIN Special /\ id + 1 = BaseVocabulary + (id - BaseVocabulary + 1)
  <1>1. BaseVocabulary \in Nat /\ Special \in Seq([text : Seq(Codes), skipped : BOOLEAN])
    BY VocabularyAssumption
  <1>2. Len(Special) \in Nat /\ DOMAIN Special = 1..Len(Special)
    BY <1>1, LenProperties
  <1> QED
    BY <1>1, <1>2 DEF Ordinary, Known, TokenizerLength, IsSpecial

\* The text of a special token.
LEMMA SpecialIs ==
    ASSUME NEW s \in DOMAIN Special
    PROVE  Special[s].text \in Seq(Codes) /\ Len(Special[s].text) > 1 /\ Len(Special[s].text) # 1
  <1> DEFINE E == [text : Seq(Codes), skipped : BOOLEAN]
  <1>1. Special \in Seq(E)
    BY VocabularyAssumption
  <1> HIDE DEF E
  <1>2. Special[s] \in E
    BY <1>1
  <1>3. Special[s].text \in Seq(Codes)
    BY <1>2 DEF E
  <1> DEFINE n == Len(Special[s].text)
  <1>4. n > 1
    BY VocabularyAssumption
  <1>5. n \in Nat
    BY <1>3
  <1> HIDE DEF n
  <1>6. n # 1
    BY <1>4, <1>5
  <1> QED
    BY <1>3, <1>4, <1>6 DEF n

\* The id of a string of the vocabulary.
LEMMA IdOfIs ==
    ASSUME NEW tokens, NEW text, IdsOf(tokens, text) # {}
    PROVE  IdOf(tokens, text) \in Known /\ tokens[IdOf(tokens, text) + 1] = text
  BY Zenon DEF IdOf, IdsOf, Known

\* What is spelled like no special token is none.
LEMMA OrdinaryId ==
    ASSUME Acceptable, NEW id \in Known,
           \A s \in DOMAIN Special : Vocabulary.tokens[id + 1] # Special[s].text
    PROVE  id \in Ordinary
  <1> SUFFICES ASSUME id \notin Ordinary PROVE FALSE
    OBVIOUS
  <1> DEFINE s == id - BaseVocabulary + 1
  <1>1. s \in DOMAIN Special /\ id + 1 = BaseVocabulary + s
    BY OrdinaryIs
  <1>2. Vocabulary.tokens[BaseVocabulary + s] = Special[s].text
    BY <1>1, Zenon DEF Acceptable
  <1> HIDE DEF s
  <1> QED
    BY <1>1, <1>2

\* A merge of the vocabulary: its pair, and what it makes.
LEMMA MergeIs ==
    ASSUME Acceptable, NEW k \in DOMAIN Vocabulary.merges,
           NEW p, p = PairAmong(k)
    PROVE  /\ p = <<p[1], p[2]>> /\ p[1] \in Known /\ p[2] \in Known
           /\ Vocabulary.tokens[p[1] + 1] = Sides(Vocabulary.merges[k])[1]
           /\ Vocabulary.tokens[p[2] + 1] = Sides(Vocabulary.merges[k])[2]
           /\ IdsOf(Vocabulary.tokens, Joined(Vocabulary.merges[k])) # {}
  <1> DEFINE tokens == Vocabulary.tokens
             merge == Vocabulary.merges[k]
  <1>1. IsMerge(tokens, merge)
    BY Zenon DEF Acceptable
  <1>2. /\ IdsOf(tokens, Sides(merge)[1]) # {} /\ IdsOf(tokens, Sides(merge)[2]) # {}
        /\ IdsOf(tokens, Joined(merge)) # {}
    BY <1>1 DEF IsMerge
  <1>3. p = <<IdOf(tokens, Sides(merge)[1]), IdOf(tokens, Sides(merge)[2])>>
    BY Zenon DEF PairAmong, PairOf
  <1> HIDE DEF tokens, merge
  <1>4. p[1] = IdOf(tokens, Sides(merge)[1]) /\ p[2] = IdOf(tokens, Sides(merge)[2])
    BY <1>3
  <1>5. p = <<p[1], p[2]>>
    BY <1>3
  <1>6. /\ p[1] \in Known /\ tokens[p[1] + 1] = Sides(merge)[1]
        /\ p[2] \in Known /\ tokens[p[2] + 1] = Sides(merge)[2]
    BY <1>2, <1>4, IdOfIs
  <1> QED
    BY <1>2, <1>5, <1>6 DEF tokens, merge

\* The merge a pair of the table is, and what it makes.
LEMMA PairIs ==
    ASSUME Acceptable, tokenizer = Tables, NEW p \in DOMAIN tokenizer.merge
    PROVE  LET merge == Vocabulary.merges[Rank(p)]
           IN  /\ Rank(p) \in DOMAIN Vocabulary.merges /\ p = PairAmong(Rank(p))
               /\ Result(p) \in Ordinary
               /\ Vocabulary.tokens[Result(p) + 1] = Joined(merge)
               /\ Joined(merge) = Vocabulary.tokens[p[1] + 1] \o Vocabulary.tokens[p[2] + 1]
  <1> DEFINE tokens == Vocabulary.tokens
             merges == Vocabulary.merges
             pairs  == {PairAmong(k) : k \in DOMAIN merges}
             made(pair) == IdOf(tokens, tokens[pair[1] + 1] \o tokens[pair[2] + 1])
             table == [pair \in pairs |-> [rank |-> RankAmong(pair), result |-> made(pair)]]
  <1>1. tokenizer.merge = table
    BY DEF Tables
  <1>2. p \in pairs
    BY <1>1
  <1>3. Rank(p) = RankAmong(p) /\ Result(p) = made(p)
    <2> HIDE DEF pairs, made
    <2> QED
      BY <1>1, <1>2 DEF Rank, Result
  <1> DEFINE k == Rank(p)
  <1>4. k \in DOMAIN merges /\ p = PairAmong(k)
    <2>1. \E j \in DOMAIN merges : PairAmong(j) = p
      BY <1>2
    <2> QED
      BY <1>3, <2>1, Zenon DEF RankAmong
  <1> HIDE DEF k, merges
  <1>5. /\ tokens[p[1] + 1] = Sides(merges[k])[1] /\ tokens[p[2] + 1] = Sides(merges[k])[2]
        /\ IdsOf(tokens, Joined(merges[k])) # {}
    BY <1>4, MergeIs DEF merges
  <1>6. Joined(merges[k]) = tokens[p[1] + 1] \o tokens[p[2] + 1]
    BY <1>5, Zenon DEF Joined
  <1>7. Result(p) = IdOf(tokens, Joined(merges[k]))
    BY <1>3, <1>6, Zenon
  <1>8. Result(p) \in Known /\ tokens[Result(p) + 1] = Joined(merges[k])
    BY <1>5, <1>7, IdOfIs
  <1>9. \A s \in DOMAIN Special : Joined(merges[k]) # Special[s].text
    BY <1>4, VocabularyAssumption, Zenon DEF merges
  <1>10. Result(p) \in Ordinary
    BY <1>8, <1>9, OrdinaryId
  <1> QED
    BY <1>4, <1>6, <1>8, <1>10 DEF k, merges

\* The table of merges is one that the rounds can work with.
LEMMA TableOfMerges ==
    ASSUME Acceptable, tokenizer = Tables
    PROVE  MergeTable
  <1>0. DOMAIN Vocabulary.merges \subseteq Nat
    <2>1. Vocabulary.merges \in Seq(Seq(Nat))
      BY VocabularyAssumption
    <2> QED
      BY <2>1
  <1>1. ASSUME NEW p \in DOMAIN tokenizer.merge PROVE Rank(p) \in Nat /\ Result(p) \in Nat
    <2>1. Rank(p) \in DOMAIN Vocabulary.merges /\ Result(p) \in Ordinary
      BY PairIs
    <2> QED
      BY <1>0, <2>1 DEF Ordinary
  <1>2. ASSUME NEW p \in DOMAIN tokenizer.merge, NEW q \in DOMAIN tokenizer.merge,
               Rank(p) = Rank(q)
        PROVE  p = q
    <2>1. p = PairAmong(Rank(p)) /\ q = PairAmong(Rank(q))
      BY PairIs
    <2> QED
      BY <1>2, <2>1
  <1>3. ASSUME NEW p \in DOMAIN tokenizer.merge, NEW q \in DOMAIN tokenizer.merge,
               NEW side \in {1, 2}, Result(p) = q[side]
        PROVE  Rank(p) < Rank(q)
    <2> DEFINE k == Rank(p)
               j == Rank(q)
               made == Joined(Vocabulary.merges[k])
    <2>1. k \in DOMAIN Vocabulary.merges /\ Vocabulary.tokens[Result(p) + 1] = made
      BY PairIs
    <2>2. j \in DOMAIN Vocabulary.merges /\ q = PairAmong(j)
      BY PairIs
    <2> HIDE DEF k, j, made
    <2>3. Vocabulary.tokens[q[side] + 1] = Sides(Vocabulary.merges[j])[side]
      BY <2>2, MergeIs
    <2>4. made = Sides(Vocabulary.merges[j])[side]
      BY <1>3, <2>1, <2>3
    <2>5. k < j
      BY <2>1, <2>2, <2>4, VocabularyAssumption, Zenon DEF made
    <2> QED
      BY <2>5 DEF k, j
  <1> QED
    BY <1>1, <1>2, <1>3 DEF MergeTable

\* What the tables say of the spelling of the ids.
Spelling ==
    /\ tokenizer.byte \in [ByteValues -> Ordinary]
    /\ \A b \in ByteValues :
         tokenizer.tokens[tokenizer.byte[b] + 1] = <<ByteToUnicode(b)>>
    /\ \A p \in DOMAIN tokenizer.merge :
         /\ p[1] \in Known /\ p[2] \in Known /\ Result(p) \in Ordinary
         /\ tokenizer.tokens[Result(p) + 1]
              = tokenizer.tokens[p[1] + 1] \o tokenizer.tokens[p[2] + 1]
    /\ \A id \in Known : tokenizer.tokens[id + 1] \in Seq(Nat)

\* The tables of an acceptable vocabulary spell: what two merge to is spelled as they
\* are one behind the other.
LEMMA TablesSpell ==
    ASSUME Acceptable, tokenizer = Tables
    PROVE  Spelling
  <1> DEFINE tokens == Vocabulary.tokens
  <1>0. tokenizer.tokens = tokens
        /\ tokenizer.byte = [b \in ByteValues |-> IdOf(tokens, <<ByteToUnicode(b)>>)]
    BY DEF Tables
  <1>1. ASSUME NEW b \in ByteValues
        PROVE  tokenizer.byte[b] \in Ordinary /\ tokens[tokenizer.byte[b] + 1] = <<ByteToUnicode(b)>>
    <2> DEFINE text == <<ByteToUnicode(b)>>
    <2>1. tokenizer.byte[b] = IdOf(tokens, text)
      BY <1>0
    <2>2. IdsOf(tokens, text) # {}
      BY Zenon DEF Acceptable
    <2>3. ASSUME NEW s \in DOMAIN Special PROVE Special[s].text # text
      <3>1. Len(Special[s].text) # 1
        BY SpecialIs
      <3>2. Len(text) = 1
        OBVIOUS
      <3> HIDE DEF text
      <3> QED
        BY <3>1, <3>2, Zenon
    <2> HIDE DEF text
    <2>4. IdOf(tokens, text) \in Known /\ tokens[IdOf(tokens, text) + 1] = text
      BY <2>2, IdOfIs
    <2>5. IdOf(tokens, text) \in Ordinary
      BY <2>3, <2>4, OrdinaryId
    <2> QED
      BY <2>1, <2>4, <2>5 DEF text
  <1>2. ASSUME NEW p \in DOMAIN tokenizer.merge
        PROVE  /\ p[1] \in Known /\ p[2] \in Known /\ Result(p) \in Ordinary
               /\ tokens[Result(p) + 1] = tokens[p[1] + 1] \o tokens[p[2] + 1]
    <2>1. /\ Rank(p) \in DOMAIN Vocabulary.merges /\ p = PairAmong(Rank(p))
          /\ Result(p) \in Ordinary
          /\ tokens[Result(p) + 1] = tokens[p[1] + 1] \o tokens[p[2] + 1]
      BY PairIs
    <2>2. p[1] \in Known /\ p[2] \in Known
      BY <2>1, MergeIs
    <2> QED
      BY <2>1, <2>2
  <1>3. ASSUME NEW id \in Known PROVE tokens[id + 1] \in Seq(Nat)
    <2>1. tokens \in Seq(Seq(Nat)) /\ Len(tokens) = ModelVocabulary
      BY VocabularyAssumption, Zenon DEF Acceptable
    <2>2. id + 1 \in 1..ModelVocabulary
      BY OrdinaryIs, VocabularyAssumption DEF Known
    <2> HIDE DEF tokens
    <2> DEFINE E == Seq(Nat)
    <2> HIDE DEF E
    <2> QED
      BY <2>1, <2>2 DEF E
  <1>4. tokenizer.byte \in [ByteValues -> Ordinary]
    BY <1>0, <1>1
  <1> HIDE DEF tokens
  <1> QED
    BY <1>0, <1>1, <1>2, <1>3, <1>4 DEF Spelling

-----------------------------------------------------------------------------
(* What each element of a sequence gives, one behind the other.            *)

\* What stands for the elements of a sequence, one behind the other.
Spread(f, s) == Lists!FlattenSeq([k \in DOMAIN s |-> f[s[k]]])

\* Each element is given a sequence.
Gives(f, A, E) == f \in [A -> Seq(E)]

\* What holds of the empty sequence, and of every sequence of which it holds
\* without the last element, holds of all.
LEMMA ByPrefix ==
    ASSUME NEW A, NEW S, << >> \in S,
           \A s \in Seq(A) : s \in S => \A a \in A : s \o <<a>> \in S
    PROVE  Seq(A) \subseteq S
  <1> DEFINE N == {n \in Nat : \A s \in Seq(A) : Len(s) = n => s \in S}
  <1>1. 0 \in N
    OBVIOUS
  <1>2. ASSUME NEW n \in N PROVE n + 1 \in N
    <2> SUFFICES ASSUME NEW s \in Seq(A), Len(s) = n + 1 PROVE s \in S
      OBVIOUS
    <2> DEFINE t == SubSeq(s, 1, n)
    <2>1. t \in Seq(A) /\ Len(t) = n /\ s[n + 1] \in A
      OBVIOUS
    <2>2. s = t \o <<s[n + 1]>>
      OBVIOUS
    <2>3. t \in S
      BY <2>1
    <2> HIDE DEF t
    <2> QED
      BY <2>1, <2>2, <2>3
  <1>3. N = Nat
    <2>1. N \in SUBSET Nat
      OBVIOUS
    <2> HIDE DEF N
    <2> QED
      BY <1>1, <1>2, <2>1, Inductive
  <1>4. ASSUME NEW s \in Seq(A) PROVE s \in S
    <2>1. Len(s) \in N
      <3> HIDE DEF N
      <3> QED
        BY <1>3
    <2> QED
      BY <2>1
  <1> QED
    BY <1>4

\* Its values for nothing, for one element, and for two sequences.
LEMMA SpreadIs ==
    ASSUME NEW A, NEW E, NEW f, Gives(f, A, E), NEW s \in Seq(A), NEW t \in Seq(A)
    PROVE  /\ Spread(f, << >>) = << >>
           /\ \A a \in A : Spread(f, <<a>>) = f[a]
           /\ Spread(f, s) \in Seq(E)
           /\ Spread(f, s \o t) = Spread(f, s) \o Spread(f, t)
  <1> DEFINE U == Seq(E)
             m(u) == [k \in DOMAIN u |-> f[u[k]]]
  <1>0. f \in [A -> U]
    BY DEF Gives
  <1> HIDE DEF U
  <1>1. m(<< >>) = << >>
    OBVIOUS
  <1>2. ASSUME NEW a \in A PROVE m(<<a>>) = <<f[a]>> /\ f[a] \in U
    BY <1>0
  <1>3. ASSUME NEW u \in Seq(A) PROVE m(u) \in Seq(U)
    <2>1. m(u) = [k \in 1..Len(u) |-> f[u[k]]] /\ Len(u) \in Nat
      OBVIOUS
    <2>2. \A k \in 1..Len(u) : f[u[k]] \in U
      BY <1>0
    <2> QED
      BY <2>1, <2>2
  <1>4. m(s \o t) = m(s) \o m(t)
    <2>1. s \o t \in Seq(A) /\ Len(s \o t) = Len(s) + Len(t)
      OBVIOUS
    <2>2. m(s) \in Seq(U) /\ m(t) \in Seq(U) /\ m(s \o t) \in Seq(U)
      BY <1>3, <2>1
    <2>3. Len(m(s)) = Len(s) /\ Len(m(t)) = Len(t) /\ Len(m(s \o t)) = Len(s) + Len(t)
      <3>1. ASSUME NEW u \in Seq(A) PROVE Len(m(u)) = Len(u)
        <4>1. DOMAIN m(u) = 1..Len(u) /\ Len(u) \in Nat
          OBVIOUS
        <4>2. m(u) \in Seq(U)
          BY <1>3
        <4>3. m(u) = [k \in 1..Len(u) |-> f[u[k]]]
          BY <4>1
        <4> QED
          BY <4>1, <4>3
      <3> QED
        BY <2>1, <3>1
    <2> DEFINE v == m(s \o t)
               w == m(s) \o m(t)
    <2>4. w \in Seq(U) /\ Len(w) = Len(s) + Len(t)
      <3> DEFINE x == m(s)
                 y == m(t)
      <3>1. x \in Seq(U) /\ y \in Seq(U) /\ Len(x) = Len(s) /\ Len(y) = Len(t)
        BY <2>2, <2>3
      <3> HIDE DEF x, y
      <3>2. x \o y \in Seq(U) /\ Len(x \o y) = Len(x) + Len(y)
        BY <3>1, ConcatProperties
      <3>3. w = x \o y
        BY DEF x, y
      <3> QED
        BY <3>1, <3>2, <3>3
    <2>5. ASSUME NEW j \in 1..Len(v) PROVE v[j] = w[j]
      <3>0. j \in 1..Len(s) + Len(t) /\ Len(s) \in Nat /\ Len(t) \in Nat
        BY <2>3
      <3>1. v[j] = f[(s \o t)[j]]
        BY <2>1, <3>0
      <3>2. CASE j <= Len(s)
        <4>1. (s \o t)[j] = s[j] /\ j \in 1..Len(s)
          BY <3>0, <3>2
        <4>2. m(s)[j] = f[s[j]]
          BY <4>1
        <4>3. w[j] = m(s)[j]
          <5> HIDE DEF m
          <5> QED
            BY <2>2, <2>3, <4>1
        <4> QED
          BY <3>1, <4>1, <4>2, <4>3
      <3>3. CASE ~(j <= Len(s))
        <4>1. (s \o t)[j] = t[j - Len(s)] /\ j - Len(s) \in 1..Len(t)
          BY <3>0, <3>3
        <4>2. m(t)[j - Len(s)] = f[t[j - Len(s)]]
          BY <4>1
        <4>3. w[j] = m(t)[j - Len(s)]
          <5> HIDE DEF m
          <5> QED
            BY <2>2, <2>3, <3>0, <3>3
        <4> QED
          BY <3>1, <4>1, <4>2, <4>3
      <3> QED
        BY <3>2, <3>3
    <2> HIDE DEF v, w
    <2>6. v = w
      BY <2>2, <2>3, <2>4, <2>5, SameIs DEF v
    <2> QED
      BY <2>6 DEF v, w
  <1>5. \A u : Spread(f, u) = Lists!FlattenSeq(m(u))
    BY Zenon DEF Spread
  <1> HIDE DEF m
  <1>6. Spread(f, << >>) = << >>
    BY <1>1, <1>5, Flattened
  <1>7. ASSUME NEW a \in A PROVE Spread(f, <<a>>) = f[a]
    <2>1. Lists!FlattenSeq(<<f[a]>>) = f[a]
      BY <1>2, Flattened DEF U
    <2> QED
      BY <1>2, <1>5, <2>1
  <1>8. Spread(f, s) \in Seq(E)
    <2>1. m(s) \in Seq(Seq(E))
      BY <1>3 DEF U
    <2> QED
      BY <1>5, <2>1, Flattened
  <1>9. Spread(f, s \o t) = Spread(f, s) \o Spread(f, t)
    <2>1. m(s) \in Seq(Seq(E)) /\ m(t) \in Seq(Seq(E))
      BY <1>3 DEF U
    <2>2. Lists!FlattenSeq(m(s) \o m(t)) = Lists!FlattenSeq(m(s)) \o Lists!FlattenSeq(m(t))
      BY <2>1, Flattened
    <2> QED
      <3>1. /\ Spread(f, s) = Lists!FlattenSeq(m(s)) /\ Spread(f, t) = Lists!FlattenSeq(m(t))
            /\ Spread(f, s \o t) = Lists!FlattenSeq(m(s \o t))
        BY <1>5
      <3> QED
        BY ONLY <1>4, <2>2, <3>1
  <1> QED
    BY <1>6, <1>7, <1>8, <1>9, Zenon

\* For one element it is the element's.
LEMMA SpreadOne ==
    ASSUME NEW A, NEW E, NEW f, Gives(f, A, E), NEW a \in A
    PROVE  Spread(f, <<a>>) = f[a]
  <1> DEFINE t == << >>
  <1>1. t \in Seq(A)
    OBVIOUS
  <1> HIDE DEF t
  <1> QED
    BY <1>1, SpreadIs

\* For two sequences it is one behind the other.
LEMMA SpreadConcat ==
    ASSUME NEW A, NEW E, NEW f, Gives(f, A, E), NEW s \in Seq(A), NEW t \in Seq(A)
    PROVE  Spread(f, s \o t) = Spread(f, s) \o Spread(f, t)
  <1> DEFINE u == s \o t
  <1>1. u = s \o t
    OBVIOUS
  <1> HIDE DEF u
  <1>2. Spread(f, u) = Spread(f, s) \o Spread(f, t)
    BY <1>1, SpreadIs
  <1> QED
    BY <1>2 DEF u

\* For one element more it is that element's at the end.
LEMMA SpreadAppend ==
    ASSUME NEW A, NEW E, NEW f, Gives(f, A, E), NEW s \in Seq(A), NEW a \in A
    PROVE  Spread(f, s \o <<a>>) = Spread(f, s) \o f[a]
  <1> DEFINE t == <<a>>
  <1>1. t \in Seq(A)
    OBVIOUS
  <1>2. Spread(f, t) = f[a]
    BY SpreadIs
  <1> HIDE DEF t
  <1>3. Spread(f, s \o t) = Spread(f, s) \o Spread(f, t)
    BY <1>1, SpreadIs
  <1> QED
    BY <1>2, <1>3 DEF t

\* What two spreads after each other come to.
LEMMA SpreadSpread ==
    ASSUME NEW A, NEW B, NEW E, NEW f, Gives(f, A, E), NEW g, Gives(g, B, A),
           NEW h, h = [b \in B |-> Spread(f, g[b])]
    PROVE  /\ Gives(h, B, E)
           /\ \A s \in Seq(B) : Spread(f, Spread(g, s)) = Spread(h, s)
  <1>1. Gives(h, B, E)
    <2>1. ASSUME NEW b \in B PROVE Spread(f, g[b]) \in Seq(E)
      <3> g[b] \in Seq(A)
        BY DEF Gives
      <3> QED
        BY SpreadIs
    <2> QED
      BY <2>1 DEF Gives
  <1> DEFINE S == {s \in Seq(B) : Spread(f, Spread(g, s)) = Spread(h, s)}
  <1>2. << >> \in S
    <2> DEFINE e == << >>
    <2>0. e \in Seq(A) /\ e \in Seq(B)
      OBVIOUS
    <2> HIDE DEF e
    <2>1. Spread(f, << >>) = << >> /\ Spread(g, << >>) = << >>
      BY <2>0, SpreadIs
    <2>2. Spread(h, << >>) = << >>
      BY ONLY <1>1, <2>0, SpreadIs
    <2> QED
      BY <2>1, <2>2
  <1>3. ASSUME NEW s \in Seq(B), s \in S, NEW b \in B PROVE s \o <<b>> \in S
    <2>1. Spread(g, s \o <<b>>) = Spread(g, s) \o g[b]
      BY SpreadAppend
    <2>2. Spread(h, s \o <<b>>) = Spread(h, s) \o h[b]
      BY ONLY <1>1, SpreadAppend
    <2>3. Spread(g, s) \in Seq(A) /\ g[b] \in Seq(A)
      BY SpreadIs DEF Gives
    <2>7. ASSUME NEW x \in Seq(A), NEW y \in Seq(A)
          PROVE  Spread(f, x \o y) = Spread(f, x) \o Spread(f, y)
      BY SpreadConcat
    <2>4. Spread(f, Spread(g, s) \o g[b]) = Spread(f, Spread(g, s)) \o Spread(f, g[b])
      BY <2>3, <2>7
    <2>5. Spread(f, Spread(g, s)) = Spread(h, s) /\ h[b] = Spread(f, g[b])
      BY <1>3
    <2>6. s \o <<b>> \in Seq(B)
      OBVIOUS
    <2> QED
      BY <2>1, <2>2, <2>4, <2>5, <2>6
  <1>4. Seq(B) \subseteq S
    <2> HIDE DEF S
    <2> QED
      BY <1>2, <1>3, ByPrefix
  <1> QED
    BY <1>1, <1>4

-----------------------------------------------------------------------------
(* The alphabet of the vocabulary.                                         *)

\* The bytes below that are not themselves.
Below(b) == {c \in 0..b - 1 : ~IsDirect(c)}

\* Such a byte has one more below it than there are below the one before.
LEMMA BelowIs ==
    ASSUME NEW b \in Nat, NEW c \in Nat, b < c, ~IsDirect(b)
    PROVE  /\ Cardinality(Below(b)) \in Nat /\ Cardinality(Below(c)) \in Nat
           /\ Cardinality(Below(b)) < Cardinality(Below(c))
  <1>1. ASSUME NEW n \in Nat PROVE IsFiniteSet(Below(n)) /\ Cardinality(Below(n)) \in Nat
    <2>1. IsFiniteSet(0..n - 1)
      BY FS_Interval
    <2>2. Below(n) \subseteq 0..n - 1
      BY DEF Below
    <2> QED
      BY <2>1, <2>2, FS_Subset, FS_CardinalityType
  <1> DEFINE more == Below(b) \cup {b}
  <1>2. b \notin Below(b) /\ more \subseteq Below(c)
    BY DEF Below
  <1>3. Cardinality(more) = Cardinality(Below(b)) + 1
    BY <1>1, <1>2, FS_AddElement
  <1> HIDE DEF more
  <1>4. Cardinality(more) <= Cardinality(Below(c))
    BY <1>1, <1>2, FS_Subset
  <1> QED
    BY <1>1, <1>3, <1>4

\* No two bytes have one place in it.
LEMMA AlphabetIs ==
    ASSUME NEW b \in 0..255, NEW c \in 0..255, ByteToUnicode(b) = ByteToUnicode(c)
    PROVE  b = c
  <1>1. ASSUME NEW n \in 0..255
        PROVE  ByteToUnicode(n) = IF IsDirect(n) THEN n ELSE 256 + Cardinality(Below(n))
    BY Zenon DEF ByteToUnicode, Below
  <1>2. ASSUME NEW n \in 0..255, ~IsDirect(n)
        PROVE  Cardinality(Below(n)) \in Nat
    BY <1>2, BelowIs
  <1>3. ASSUME NEW x \in 0..255, NEW y \in 0..255, x < y
        PROVE  ByteToUnicode(x) # ByteToUnicode(y)
    <2>1. CASE IsDirect(x) /\ IsDirect(y)
      <3>1. ByteToUnicode(x) = x /\ ByteToUnicode(y) = y
        BY <1>1, <2>1
      <3> QED
        BY <1>3, <3>1
    <2>2. CASE IsDirect(x) /\ ~IsDirect(y)
      <3>1. ByteToUnicode(x) = x /\ ByteToUnicode(y) = 256 + Cardinality(Below(y))
        BY <1>1, <2>2
      <3>2. Cardinality(Below(y)) \in Nat
        BY <1>2, <2>2
      <3> QED
        BY <3>1, <3>2
    <2>3. CASE ~IsDirect(x) /\ IsDirect(y)
      <3>1. ByteToUnicode(y) = y /\ ByteToUnicode(x) = 256 + Cardinality(Below(x))
        BY <1>1, <2>3
      <3>2. Cardinality(Below(x)) \in Nat
        BY <1>2, <2>3
      <3> QED
        BY <3>1, <3>2
    <2>4. CASE ~IsDirect(x) /\ ~IsDirect(y)
      <3>1. /\ ByteToUnicode(y) = 256 + Cardinality(Below(y))
            /\ ByteToUnicode(x) = 256 + Cardinality(Below(x))
        BY <1>1, <2>4
      <3>2. /\ Cardinality(Below(x)) \in Nat /\ Cardinality(Below(y)) \in Nat
            /\ Cardinality(Below(x)) < Cardinality(Below(y))
        BY <1>3, <2>4, BelowIs
      <3> QED
        BY <3>1, <3>2
    <2> QED
      BY <2>1, <2>2, <2>3, <2>4
  <1>4. b < c \/ c < b \/ b = c
    OBVIOUS
  <1> QED
    BY <1>3, <1>4

\* The byte at a place of it is found again, and is a byte.
LEMMA UnicodeToByteIs ==
    /\ \A b \in ByteValues : UnicodeToByte(ByteToUnicode(b)) = b
    /\ \A c : UnicodeToByte(c) \in 0..255 \/ UnicodeToByte(c) = 256
  <1> DEFINE places == {ByteToUnicode(b) : b \in ByteValues}
             byte(c) == CHOOSE b \in ByteValues : ByteToUnicode(b) = c
  <1>1. ByteOf = [c \in places |-> byte(c)]
    BY Zenon DEF ByteOf
  <1>2. ASSUME NEW c \in places
        PROVE  byte(c) \in ByteValues /\ ByteToUnicode(byte(c)) = c
    BY Zenon
  <1> HIDE DEF byte
  <1>3. DOMAIN ByteOf = places /\ \A c \in places : ByteOf[c] = byte(c)
    <2> HIDE DEF places
    <2> QED
      BY <1>1
  <1>4. ByteValues \subseteq 0..255
    BY BytesAssumption
  <1>5. ASSUME NEW b \in ByteValues PROVE UnicodeToByte(ByteToUnicode(b)) = b
    <2> DEFINE c == ByteToUnicode(b)
    <2>1. c \in places
      OBVIOUS
    <2>2. byte(c) \in ByteValues /\ ByteToUnicode(byte(c)) = ByteToUnicode(b)
      BY <1>2, <2>1
    <2>3. byte(c) = b
      BY <1>4, <2>2, AlphabetIs
    <2> HIDE DEF places, c
    <2>4. UnicodeToByte(c) = byte(c)
      BY <1>3, <2>1 DEF UnicodeToByte
    <2> QED
      BY <2>3, <2>4 DEF c
  <1>6. ASSUME NEW c PROVE UnicodeToByte(c) \in 0..255 \/ UnicodeToByte(c) = 256
    <2> HIDE DEF places
    <2>1. CASE c \in places
      <3>1. UnicodeToByte(c) = byte(c)
        BY <1>3, <2>1 DEF UnicodeToByte
      <3>2. byte(c) \in ByteValues
        BY <1>2, <2>1
      <3> QED
        BY <1>4, <3>1, <3>2
    <2>2. CASE c \notin places
      BY <1>3, <2>2 DEF UnicodeToByte
    <2> QED
      BY <2>1, <2>2
  <1> QED
    BY <1>5, <1>6

\* The bytes of an id; of the id of a byte; of what a merge makes.
LEMMA TokenBytesAre ==
    ASSUME Spelling
    PROVE  /\ \A id \in Known : TokenBytes(id) \in Seq(0..256)
           /\ \A b \in ByteValues : TokenBytes(tokenizer.byte[b]) = <<b>>
           /\ \A p \in DOMAIN tokenizer.merge :
                TokenBytes(Result(p)) = TokenBytes(p[1]) \o TokenBytes(p[2])
  <1> DEFINE word(id) == tokenizer.tokens[id + 1]
             bytes(w) == [k \in DOMAIN w |-> UnicodeToByte(w[k])]
  <1>0. \A id : TokenBytes(id) = bytes(word(id))
    BY Zenon DEF TokenBytes
  <1>1. ASSUME NEW w \in Seq(Nat)
        PROVE  /\ bytes(w) \in Seq(0..256) /\ Len(bytes(w)) = Len(w)
               /\ \A k \in 1..Len(w) : bytes(w)[k] = UnicodeToByte(w[k])
    <2>1. Len(w) \in Nat /\ bytes(w) = [k \in 1..Len(w) |-> UnicodeToByte(w[k])]
      OBVIOUS
    <2>2. \A k \in 1..Len(w) : UnicodeToByte(w[k]) \in 0..256
      BY UnicodeToByteIs
    <2> HIDE DEF bytes
    <2> QED
      BY <2>1, <2>2
  <1>2. ASSUME NEW id \in Known PROVE TokenBytes(id) \in Seq(0..256)
    <2>1. word(id) \in Seq(Nat)
      BY DEF Spelling
    <2> HIDE DEF word, bytes
    <2> QED
      BY <1>0, <1>1, <2>1
  <1>3. ASSUME NEW b \in ByteValues PROVE TokenBytes(tokenizer.byte[b]) = <<b>>
    <2>1. word(tokenizer.byte[b]) = <<ByteToUnicode(b)>>
      BY DEF Spelling
    <2>2. bytes(<<ByteToUnicode(b)>>) = <<UnicodeToByte(ByteToUnicode(b))>>
      OBVIOUS
    <2> HIDE DEF word, bytes
    <2> QED
      BY <1>0, <2>1, <2>2, UnicodeToByteIs
  <1>4. ASSUME NEW p \in DOMAIN tokenizer.merge
        PROVE  TokenBytes(Result(p)) = TokenBytes(p[1]) \o TokenBytes(p[2])
    <2> DEFINE a == word(p[1])
               c == word(p[2])
    <2>1. word(Result(p)) = a \o c
      BY DEF Spelling
    <2>2. a \in Seq(Nat) /\ c \in Seq(Nat)
      BY DEF Spelling
    <2> HIDE DEF a, c
    <2>3. a \o c \in Seq(Nat) /\ Len(a \o c) = Len(a) + Len(c) /\ Len(a) \in Nat /\ Len(c) \in Nat
      BY <2>2
    <2> DEFINE v == bytes(a \o c)
               x == bytes(a)
               y == bytes(c)
               w == x \o y
    <2>4. v \in Seq(0..256) /\ Len(v) = Len(a) + Len(c)
      BY <1>1, <2>3
    <2>5. /\ x \in Seq(0..256) /\ Len(x) = Len(a) /\ y \in Seq(0..256) /\ Len(y) = Len(c)
      BY <1>1, <2>2
    <2>6. w \in Seq(0..256) /\ Len(w) = Len(a) + Len(c)
      <3> DEFINE U == 0..256
      <3>1. x \in Seq(U) /\ y \in Seq(U)
        BY <2>5
      <3> HIDE DEF x, y, U
      <3>2. x \o y \in Seq(U) /\ Len(x \o y) = Len(x) + Len(y)
        BY <3>1, ConcatProperties
      <3> QED
        BY <2>5, <3>2 DEF U
    <2>7. ASSUME NEW j \in 1..Len(v) PROVE v[j] = w[j]
      <3>0. j \in 1..Len(a) + Len(c)
        BY <2>4
      <3>1. v[j] = UnicodeToByte((a \o c)[j])
        BY <1>1, <2>3, <3>0
      <3>2. CASE j <= Len(a)
        <4>1. (a \o c)[j] = a[j] /\ j \in 1..Len(a)
          BY <2>2, <2>3, <3>0, <3>2
        <4>2. x[j] = UnicodeToByte(a[j])
          BY <1>1, <2>2, <4>1
        <4>3. w[j] = x[j]
          <5> HIDE DEF x, y
          <5> QED
            BY <2>5, <4>1
        <4> QED
          BY <3>1, <4>1, <4>2, <4>3
      <3>3. CASE ~(j <= Len(a))
        <4>1. (a \o c)[j] = c[j - Len(a)] /\ j - Len(a) \in 1..Len(c)
          BY <2>2, <2>3, <3>0, <3>3
        <4>2. y[j - Len(a)] = UnicodeToByte(c[j - Len(a)])
          BY <1>1, <2>2, <4>1
        <4>3. w[j] = y[j - Len(a)]
          <5> HIDE DEF x, y
          <5> QED
            BY <2>3, <2>5, <3>0, <3>3
        <4> QED
          BY <3>1, <4>1, <4>2, <4>3
      <3> QED
        BY <3>2, <3>3
    <2> HIDE DEF v, w
    <2>8. v = w
      BY <2>4, <2>6, <2>7, SameIs
    <2> HIDE DEF x, y, bytes, word
    <2>9. TokenBytes(Result(p)) = bytes(a \o c) /\ TokenBytes(p[1]) = bytes(a) /\ TokenBytes(p[2]) = bytes(c)
      BY <1>0, <2>1, Zenon DEF a, c
    <2> QED
      BY <2>8, <2>9, Zenon DEF v, w, x, y
  <1> QED
    BY <1>2, <1>3, <1>4

-----------------------------------------------------------------------------
(* A sequence that is made from the back, a piece at a time.               *)

\* At each place its piece, and what is made from the place it leads to.
Chain(f, n, piece, jump) ==
    f = [k \in 1..n + 1 |-> IF k > n THEN << >> ELSE piece[k] \o f[jump[k]]]

\* The pieces are sequences, and each is before what it is put before.
Chains(n, E, piece, jump) ==
    \A k \in 1..n : piece[k] \in Seq(E) /\ jump[k] \in k + 1..n + 1

\* There is such a function.
LEMMA ChainExists ==
    ASSUME NEW n \in Nat, NEW E, NEW piece, NEW jump, Chains(n, E, piece, jump)
    PROVE  \E f : Chain(f, n, piece, jump)
  <1> DEFINE U == Seq(E)
             step == [k \in 1..n |-> [x \in U |-> piece[k] \o x]]
  <1>1. step \in [1..n -> [U -> U]]
    <2>1. ASSUME NEW k \in 1..n, NEW x \in U PROVE piece[k] \o x \in U
      <3>1. piece[k] \in U
        BY DEF Chains
      <3> QED
        BY <3>1
    <2> HIDE DEF U
    <2> QED
      BY <2>1
  <1>2. << >> \in U /\ \A k \in 1..n : jump[k] \in k + 1..n + 1
    BY DEF Chains
  <1> HIDE DEF U
  <1>3. PICK f \in [1..n + 1 -> U] : Downward(f, n, << >>, jump, step)
    <2> HIDE DEF step
    <2> QED
      BY <1>1, <1>2, DownwardExists
  <1>4. f = [k \in 1..n + 1 |-> IF k > n THEN << >> ELSE step[k][f[jump[k]]]]
    BY <1>3 DEF Downward
  <1>5. ASSUME NEW k \in 1..n + 1, ~(k > n) PROVE step[k][f[jump[k]]] = piece[k] \o f[jump[k]]
    <2>1. k \in 1..n
      BY <1>5
    <2>2. jump[k] \in 1..n + 1
      BY <1>2, <2>1
    <2>3. f[jump[k]] \in U
      BY <1>3, <2>2
    <2> QED
      BY <2>1, <2>3
  <1> HIDE DEF step
  <1>6. f = [k \in 1..n + 1 |-> IF k > n THEN << >> ELSE piece[k] \o f[jump[k]]]
    BY <1>4, <1>5
  <1> QED
    BY <1>6 DEF Chain

\* What a chain is at each place.
Linked(f, n, E, piece, jump) ==
    /\ f[n + 1] = << >>
    /\ \A k \in 1..n : f[k] = piece[k] \o f[jump[k]]
    /\ \A k \in 1..n + 1 : f[k] \in Seq(E)

\* It gives sequences, each a piece and what is behind it.
LEMMA ChainIs ==
    ASSUME NEW n \in Nat, NEW E, NEW piece, NEW jump, Chains(n, E, piece, jump),
           NEW f, Chain(f, n, piece, jump)
    PROVE  Linked(f, n, E, piece, jump)
  <1>1. f = [k \in 1..n + 1 |-> IF k > n THEN << >> ELSE piece[k] \o f[jump[k]]]
    BY DEF Chain
  <1>2. f[n + 1] = << >>
    <2>1. n + 1 \in 1..n + 1 /\ n + 1 > n
      OBVIOUS
    <2> QED
      BY <1>1, <2>1
  <1>3. ASSUME NEW k \in 1..n PROVE f[k] = piece[k] \o f[jump[k]]
    <2>1. k \in 1..n + 1 /\ ~(k > n)
      OBVIOUS
    <2> QED
      BY <1>1, <2>1
  <1> DEFINE U == Seq(E)
             S == {k \in 1..n + 1 : f[k] \in U}
  <1>0. << >> \in U /\ \A x, y \in U : x \o y \in U
    OBVIOUS
  <1>4. ASSUME NEW k \in 1..n + 1, \A j \in k + 1..n + 1 : j \in S PROVE k \in S
    <2>1. CASE k = n + 1
      <3> HIDE DEF U
      <3> QED
        BY <1>0, <1>2, <2>1
    <2>2. CASE k # n + 1
      <3>1. k \in 1..n
        BY <2>2
      <3>2. piece[k] \in U /\ jump[k] \in k + 1..n + 1
        BY <3>1 DEF Chains
      <3> HIDE DEF U
      <3>3. f[jump[k]] \in U
        BY <1>4, <3>2
      <3>4. f[k] \in U
        BY <1>0, <1>3, <3>1, <3>2, <3>3
      <3> QED
        BY <3>4
    <2> QED
      BY <2>1, <2>2
  <1>5. \A k \in 1..n + 1 : k \in S
    <2> HIDE DEF S
    <2> QED
      BY <1>4, FromBack
  <1> QED
    BY <1>2, <1>3, <1>5 DEF Linked

\* Two parts of a sequence that meet.
LEMMA Glue ==
    ASSUME NEW E, NEW s \in Seq(E), NEW k \in 1..Len(s) + 1, NEW j \in k..Len(s) + 1,
           NEW n, n = Len(s)
    PROVE  SubSeq(s, k, j - 1) \o SubSeq(s, j, n) = SubSeq(s, k, n)
  <1> DEFINE a == SubSeq(s, k, j - 1)
             b == SubSeq(s, j, n)
             c == SubSeq(s, k, n)
  <1>0. n \in Nat
    OBVIOUS
  <1>1. a \in Seq(E) /\ Len(a) = j - k /\ \A i \in 1..j - k : a[i] = s[k + i - 1]
    OBVIOUS
  <1>2. b \in Seq(E) /\ Len(b) = n + 1 - j /\ \A i \in 1..n + 1 - j : b[i] = s[j + i - 1]
    OBVIOUS
  <1>3. c \in Seq(E) /\ Len(c) = n + 1 - k /\ \A i \in 1..n + 1 - k : c[i] = s[k + i - 1]
    OBVIOUS
  <1> HIDE DEF a, b, c
  <1>4. a \o b \in Seq(E) /\ Concat(a \o b, a, b)
    BY <1>1, <1>2, ConcatIs
  <1> DEFINE d == a \o b
  <1> HIDE DEF d
  <1>5. d \in Seq(E) /\ Len(d) = n + 1 - k
    BY <1>0, <1>1, <1>2, <1>4 DEF Concat, d
  <1>6. ASSUME NEW i \in 1..Len(d) PROVE d[i] = c[i]
    <2>0. i \in 1..n + 1 - k
      BY <1>5
    <2>1. c[i] = s[k + i - 1]
      BY <1>3, <2>0
    <2>2. CASE i <= j - k
      <3>1. i \in 1..Len(a) /\ i \in 1..j - k
        BY <1>1, <2>0, <2>2
      <3>2. d[i] = a[i]
        BY <1>4, <3>1 DEF Concat, d
      <3> QED
        BY <1>1, <2>1, <3>1, <3>2
    <2>3. CASE ~(i <= j - k)
      <3> DEFINE m == i - (j - k)
      <3>1. m \in 1..Len(b) /\ m \in 1..n + 1 - j /\ i = Len(a) + m /\ j + m - 1 = k + i - 1
        BY <1>1, <1>2, <2>0, <2>3
      <3> HIDE DEF m
      <3>2. d[i] = b[m]
        BY <1>4, <3>1 DEF Concat, d
      <3>3. b[m] = s[j + m - 1]
        BY <1>2, <3>1
      <3> QED
        BY <2>1, <3>1, <3>2, <3>3
    <2> QED
      BY <2>2, <2>3
  <1>7. d = c
    BY <1>3, <1>5, <1>6, SameIs
  <1> QED
    BY <1>7 DEF a, b, c, d

\* The pieces of a text are the text.
LEMMA CutIs ==
    ASSUME NEW C, NEW points \in Seq(C), NEW length,
           \A at \in 1..Len(points) : length[at] \in 1..Len(points) + 1 - at
    PROVE  /\ Cut(points, length) \in Seq(Seq(C))
           /\ Lists!FlattenSeq(Cut(points, length)) = points
  <1> DEFINE n == Len(points)
             E == Seq(C)
             part(k) == SubSeq(points, k, k + length[k] - 1)
             piece == [k \in 1..n |-> <<part(k)>>]
             jump == [k \in 1..n |-> k + length[k]]
             Body(f) == [at \in 1..n + 1 |->
                           IF at > n THEN << >>
                           ELSE LET m == length[at]
                                IN  <<SubSeq(points, at, at + m - 1)>> \o f[at + m]]
             F == CHOOSE f : f = Body(f)
  <1>0. n \in Nat
    OBVIOUS
  <1>1. ASSUME NEW k \in 1..n
        PROVE  /\ jump[k] = k + length[k] /\ jump[k] \in k + 1..n + 1
               /\ part(k) \in E /\ part(k) = SubSeq(points, k, jump[k] - 1)
    <2>1. jump[k] = k + length[k] /\ jump[k] \in k + 1..n + 1
      BY <1>0
    <2>2. part(k) = SubSeq(points, k, jump[k] - 1)
      BY <2>1
    <2> HIDE DEF jump
    <2>3. SubSeq(points, k, jump[k] - 1) \in E
      BY <1>0, <2>1
    <2> QED
      BY <2>1, <2>2, <2>3
  <1> HIDE DEF part, jump, E
  <1>2. Chains(n, E, piece, jump)
    <2>1. ASSUME NEW k \in 1..n PROVE piece[k] \in Seq(E) /\ jump[k] \in k + 1..n + 1
      BY <1>1
    <2> HIDE DEF n, piece
    <2> QED
      BY <2>1 DEF Chains
  <1>3. ASSUME NEW g, NEW k \in 1..n + 1
        PROVE  Body(g)[k] = IF k > n THEN << >> ELSE piece[k] \o g[jump[k]]
    <2>1. CASE k > n
      BY <2>1
    <2>2. CASE ~(k > n)
      <3>1. k \in 1..n
        BY <1>0, <2>2
      <3>2. Body(g)[k] = <<part(k)>> \o g[k + length[k]]
        BY <2>2, Zenon DEF part
      <3>3. piece[k] = <<part(k)>> /\ jump[k] = k + length[k]
        BY <1>1, <3>1
      <3> HIDE DEF Body, piece
      <3> QED
        BY <2>2, <3>2, <3>3
    <2> QED
      BY <2>1, <2>2
  <1>4. ASSUME NEW g PROVE Chain(g, n, piece, jump) <=> g = Body(g)
    <2> DEFINE Norm(f) == [k \in 1..n + 1 |-> IF k > n THEN << >> ELSE piece[k] \o f[jump[k]]]
    <2>1. ASSUME NEW k \in 1..n + 1 PROVE Norm(g)[k] = Body(g)[k]
      <3>1. Norm(g)[k] = IF k > n THEN << >> ELSE piece[k] \o g[jump[k]]
        OBVIOUS
      <3> HIDE DEF Body, Norm
      <3> QED
        BY <1>3, <3>1
    <2>2. /\ Norm(g) = [k \in 1..n + 1 |-> Norm(g)[k]]
          /\ Body(g) = [k \in 1..n + 1 |-> Body(g)[k]]
      OBVIOUS
    <2>3. Norm(g) = Body(g)
      <3> HIDE DEF Body, Norm
      <3> QED
        BY <2>1, <2>2
    <2> HIDE DEF Body
    <2> QED
      BY <2>3 DEF Chain
  <1>5. PICK f : Chain(f, n, piece, jump)
    <2> HIDE DEF n, piece
    <2> QED
      BY <1>0, <1>2, ChainExists
  <1>6. F = Body(F)
    <2>1. f = Body(f)
      BY <1>4, <1>5
    <2> HIDE DEF Body
    <2> QED
      BY <2>1
  <1>7. Chain(F, n, piece, jump)
    <2> HIDE DEF F, Body, n, piece
    <2> QED
      BY <1>4, <1>6
  <1>8. Cut(points, length) = F[1]
    BY Zenon DEF Cut
  <1> HIDE DEF F, Body, n, piece
  <1>9. /\ F[n + 1] = << >> /\ \A k \in 1..n : F[k] = piece[k] \o F[jump[k]]
        /\ \A k \in 1..n + 1 : F[k] \in Seq(E)
    <2>1. Linked(F, n, E, piece, jump)
      BY <1>0, <1>2, <1>7, ChainIs
    <2> QED
      BY <2>1 DEF Linked
  <1> DEFINE S == {k \in 1..n + 1 : Lists!FlattenSeq(F[k]) = SubSeq(points, k, n)}
  <1>10. ASSUME NEW k \in 1..n + 1, \A j \in k + 1..n + 1 : j \in S PROVE k \in S
    <2>1. CASE k = n + 1
      <3>1. SubSeq(points, n + 1, n) = << >>
        BY <1>0 DEF n
      <3> QED
        BY <1>9, <2>1, <3>1, Flattened
    <2>2. CASE k # n + 1
      <3>1. k \in 1..n
        BY <1>0, <2>2
      <3> DEFINE x == piece[k]
                 j == jump[k]
                 y == F[j]
      <3>2. x = <<part(k)>> /\ part(k) \in Seq(C)
        BY <1>1, <3>1 DEF piece, E
      <3>3. j \in k + 1..n + 1 /\ part(k) = SubSeq(points, k, j - 1)
        BY <1>1, <3>1
      <3>4. Lists!FlattenSeq(x) = part(k) /\ x \in Seq(Seq(C))
        BY <3>2, Flattened
      <3>5. y \in Seq(Seq(C))
        BY <1>0, <1>9, <3>3 DEF E
      <3>6. Lists!FlattenSeq(y) = SubSeq(points, j, n)
        BY <1>10, <3>3
      <3>7. F[k] = x \o y
        BY <1>9, <3>1
      <3> HIDE DEF x, j, y
      <3>8. Lists!FlattenSeq(x \o y) = Lists!FlattenSeq(x) \o Lists!FlattenSeq(y)
        BY <3>4, <3>5, Flattened
      <3>9. SubSeq(points, k, j - 1) \o SubSeq(points, j, n) = SubSeq(points, k, n)
        <4>1. k \in 1..Len(points) + 1 /\ j \in k..Len(points) + 1
          BY <1>0, <3>1, <3>3 DEF n
        <4> QED
          BY <4>1, Glue DEF n
      <3>10. Lists!FlattenSeq(F[k]) = SubSeq(points, k, n)
        BY <3>3, <3>4, <3>6, <3>7, <3>8, <3>9
      <3> QED
        BY <3>10
    <2> QED
      BY <2>1, <2>2
  <1>11. \A k \in 1..n + 1 : k \in S
    <2> HIDE DEF S
    <2> QED
      BY <1>0, <1>10, FromBack
  <1>12. 1 \in 1..n + 1
    BY <1>0
  <1>13. Lists!FlattenSeq(F[1]) = SubSeq(points, 1, n)
    BY <1>11, <1>12
  <1>14. SubSeq(points, 1, n) = points
    BY DEF n
  <1> QED
    BY <1>8, <1>9, <1>12, <1>13, <1>14 DEF E

\* So are the pieces the matcher cuts it into.
LEMMA PretokensAre ==
    ASSUME NEW C, NEW points \in Seq(C)
    PROVE  /\ Pretokens(points) \in Seq(Seq(C))
           /\ Lists!FlattenSeq(Pretokens(points)) = points
  <1> DEFINE length == [at \in DOMAIN points |-> NextPretoken(points, at)]
  <1>1. ASSUME NEW at \in 1..Len(points) PROVE length[at] \in 1..Len(points) + 1 - at
    <2>1. at \in DOMAIN points
      OBVIOUS
    <2>2. length[at] = NextPretoken(points, at)
      BY <2>1
    <2> HIDE DEF length
    <2> QED
      BY <2>2, NextFits
  <1>2. Pretokens(points) = Cut(points, length)
    BY Zenon DEF Pretokens
  <1> HIDE DEF length
  <1> QED
    BY <1>1, <1>2, CutIs

-----------------------------------------------------------------------------
(* What ids are spelled like.                                              *)

\* The bytes of code points.
Encoding == [c \in Codes |-> Utf8(c)]

\* A sequence of one to four.
Short(u, E) ==
    \/ \E a \in E : u = <<a>>
    \/ \E a, b \in E : u = <<a, b>>
    \/ \E a, b, d \in E : u = <<a, b, d>>
    \/ \E a, b, d, e \in E : u = <<a, b, d, e>>

\* A sequence that is written out with one to four elements is short.
LEMMA ShortIs ==
    ASSUME NEW u, NEW E, \A k \in DOMAIN u : u[k] \in E,
           \/ \E a : u = <<a>>
           \/ \E a, b : u = <<a, b>>
           \/ \E a, b, d : u = <<a, b, d>>
           \/ \E a, b, d, e : u = <<a, b, d, e>>
    PROVE  Short(u, E)
  <1>1. CASE \E a : u = <<a>>
    <2>1. PICK a : u = <<a>>
      BY <1>1
    <2>2. a \in E
      BY <2>1
    <2> QED
      BY <2>1, <2>2 DEF Short
  <1>2. CASE \E a, b : u = <<a, b>>
    <2>1. PICK a, b : u = <<a, b>>
      BY <1>2
    <2>2. a \in E /\ b \in E
      BY <2>1
    <2> QED
      BY <2>1, <2>2 DEF Short
  <1>3. CASE \E a, b, d : u = <<a, b, d>>
    <2>1. PICK a, b, d : u = <<a, b, d>>
      BY <1>3
    <2>2. a \in E /\ b \in E /\ d \in E
      BY <2>1
    <2> QED
      BY <2>1, <2>2 DEF Short
  <1>4. CASE \E a, b, d, e : u = <<a, b, d, e>>
    <2>1. PICK a, b, d, e : u = <<a, b, d, e>>
      BY <1>4
    <2>2. a \in E /\ b \in E /\ d \in E /\ e \in E
      BY <2>1
    <2> QED
      BY <2>1, <2>2 DEF Short
  <1> QED
    BY <1>1, <1>2, <1>3, <1>4

\* A short one is a sequence.
LEMMA ShortSeq ==
    ASSUME NEW u, NEW E, Short(u, E)
    PROVE  u \in Seq(E)
  <1>1. ASSUME NEW a \in E PROVE <<a>> \in Seq(E)
    OBVIOUS
  <1>2. ASSUME NEW a \in E, NEW b \in E PROVE <<a, b>> \in Seq(E)
    OBVIOUS
  <1>3. ASSUME NEW a \in E, NEW b \in E, NEW d \in E PROVE <<a, b, d>> \in Seq(E)
    OBVIOUS
  <1>4. ASSUME NEW a \in E, NEW b \in E, NEW d \in E, NEW e \in E
        PROVE  <<a, b, d, e>> \in Seq(E)
    OBVIOUS
  <1> QED
    BY <1>1, <1>2, <1>3, <1>4, Zenon DEF Short

\* A code point by its size.
LEMMA Utf8Is ==
    ASSUME NEW c \in Nat
    PROVE  /\ c < 128 => Utf8(c) = <<c>>
           /\ c >= 128 /\ c < 2048 => Utf8(c) = <<192 + (c \div 64), 128 + (c % 64)>>
           /\ c >= 2048 /\ c < 65536 =>
                Utf8(c) = <<224 + (c \div 4096), 128 + ((c \div 64) % 64), 128 + (c % 64)>>
           /\ c >= 65536 =>
                Utf8(c) = <<240 + (c \div 262144), 128 + ((c \div 4096) % 64),
                            128 + ((c \div 64) % 64), 128 + (c % 64)>>
  BY SMT DEF Utf8

\* The bytes of a code point are one to four, and occur.
LEMMA Utf8Short == ASSUME NEW c \in Codes PROVE Short(Utf8(c), ByteValues)
  <1>1. c \in 0..LastCode /\ \A k \in DOMAIN Utf8(c) : Utf8(c)[k] \in ByteValues
    BY Zenon DEF Codes
  <1>2. c \in Nat
    BY <1>1, SMT
  <1> DEFINE u == Utf8(c)
  <1>3. \/ \E a : u = <<a>>
        \/ \E a, b : u = <<a, b>>
        \/ \E a, b, d : u = <<a, b, d>>
        \/ \E a, b, d, e : u = <<a, b, d, e>>
    BY <1>2, Utf8Is, SMT
  <1> HIDE DEF u
  <1>4. Short(u, ByteValues)
    BY <1>1, <1>3, ShortIs DEF u
  <1> QED
    BY <1>4 DEF u

\* The bytes of code points are bytes that occur.
LEMMA EncodingIs == Gives(Encoding, Codes, ByteValues)
  <1>1. ASSUME NEW c \in Codes PROVE Utf8(c) \in Seq(ByteValues)
    <2> DEFINE u == Utf8(c)
               B == ByteValues
    <2>1. Short(u, B)
      BY Utf8Short
    <2> HIDE DEF u, B
    <2>2. u \in Seq(B)
      BY <2>1, ShortSeq
    <2> QED
      BY <2>2 DEF u, B
  <1> QED
    BY <1>1 DEF Encoding, Gives

\* The bytes of a text are those of its code points, one behind the other.
LEMMA BytesAre ==
    ASSUME NEW text \in Seq(Codes)
    PROVE  /\ Bytes(text) = Spread(Encoding, text)
           /\ Bytes(text) \in Seq(ByteValues)
           /\ Bytes(text) \in Seq(0..255)
  <1>1. [k \in DOMAIN text |-> Utf8(text[k])] = [k \in DOMAIN text |-> Encoding[text[k]]]
    <2>1. \A k \in DOMAIN text : Encoding[text[k]] = Utf8(text[k])
      BY DEF Encoding
    <2> QED
      BY <2>1, Zenon
  <1>2. Bytes(text) = Spread(Encoding, text)
    BY <1>1, Zenon DEF Bytes, Spread
  <1>3. Spread(Encoding, text) \in Seq(ByteValues)
    BY EncodingIs, SpreadIs
  <1> DEFINE s == Bytes(text)
             B == 0..255
  <1>4. s \in Seq(ByteValues) /\ ByteValues \subseteq B
    BY <1>2, <1>3, BytesAssumption
  <1> HIDE DEF s, B
  <1>5. s \in Seq(B)
    BY <1>4
  <1> QED
    BY <1>2, <1>3, <1>5 DEF s, B

\* Each element by itself.
LEMMA SpreadOnes ==
    ASSUME NEW A, NEW f, f = [a \in A |-> <<a>>]
    PROVE  Gives(f, A, A) /\ \A s \in Seq(A) : Spread(f, s) = s
  <1>1. Gives(f, A, A)
    BY DEF Gives
  <1> DEFINE S == {s \in Seq(A) : Spread(f, s) = s}
             e == << >>
  <1>2. e \in S
    <2>1. e \in Seq(A)
      OBVIOUS
    <2>2. Spread(f, << >>) = << >>
      <3> HIDE DEF e
      <3> QED
        BY ONLY <1>1, <2>1, SpreadIs
    <2> QED
      BY <2>1, <2>2
  <1>3. ASSUME NEW s \in Seq(A), s \in S, NEW a \in A PROVE s \o <<a>> \in S
    <2>0. Gives(f, A, A) /\ s \in Seq(A) /\ a \in A
      BY <1>1
    <2>1. Spread(f, s \o <<a>>) = Spread(f, s) \o f[a]
      BY ONLY <2>0, SpreadAppend, SMTT(30)
    <2>2. Spread(f, s) = s /\ f[a] = <<a>>
      BY <1>3
    <2>3. s \o <<a>> \in Seq(A)
      OBVIOUS
    <2> QED
      BY <2>1, <2>2, <2>3
  <1>4. Seq(A) \subseteq S
    <2> HIDE DEF S
    <2> QED
      BY <1>2, <1>3, ByPrefix
  <1> QED
    BY <1>1, <1>4

\* The bytes the ids stand for.
Texts == [id \in Known |-> TokenBytes(id)]

\* They are sequences of bytes.
LEMMA WordsAre ==
    ASSUME Spelling
    PROVE  Gives(Texts, Known, 0..256)
  <1>1. \A id \in Known : TokenBytes(id) \in Seq(0..256)
    BY TokenBytesAre
  <1> QED
    BY <1>1 DEF Gives, Texts

\* The symbols of a piece are spelled like the piece.
LEMMA SymbolsAre ==
    ASSUME Spelling, NEW piece \in Seq(Codes)
    PROVE  /\ Symbols(piece) \in Seq(Ordinary)
           /\ Spread(Texts, Symbols(piece)) = Bytes(piece)
  <1> DEFINE bytes == Bytes(piece)
             s == [k \in DOMAIN bytes |-> tokenizer.byte[bytes[k]]]
             one == [b \in ByteValues |-> <<b>>]
  <1>1. bytes \in Seq(ByteValues)
    BY BytesAre
  <1>2. Symbols(piece) = s
    BY Zenon DEF Symbols
  <1> HIDE DEF bytes
  <1>3. /\ DOMAIN bytes = 1..Len(bytes) /\ Len(bytes) \in Nat
        /\ \A k \in DOMAIN bytes : bytes[k] \in ByteValues
    BY <1>1
  <1>4. ASSUME NEW b \in ByteValues PROVE tokenizer.byte[b] \in Ordinary
    BY DEF Spelling
  <1>5. s \in Seq(Ordinary) /\ DOMAIN s = DOMAIN bytes
        /\ \A k \in DOMAIN bytes : s[k] = tokenizer.byte[bytes[k]]
    BY <1>3, <1>4
  <1> HIDE DEF s, one
  <1>6. ASSUME NEW k \in DOMAIN bytes PROVE Texts[s[k]] = one[bytes[k]]
    <2> DEFINE b == bytes[k]
    <2>1. b \in ByteValues /\ s[k] = tokenizer.byte[b]
      BY <1>3, <1>5
    <2>2. tokenizer.byte[b] \in Known
      BY <1>4, <2>1, OrdinaryIs
    <2> HIDE DEF b
    <2>3. TokenBytes(tokenizer.byte[b]) = <<b>>
      BY <2>1, TokenBytesAre
    <2>4. Texts[tokenizer.byte[b]] = <<b>> /\ one[b] = <<b>>
      BY <2>1, <2>2, <2>3 DEF Texts, one
    <2> QED
      BY <2>1, <2>4 DEF b
  <1>7. [k \in DOMAIN s |-> Texts[s[k]]] = [k \in DOMAIN bytes |-> one[bytes[k]]]
    BY <1>5, <1>6
  <1>8. Spread(Texts, s) = Spread(one, bytes)
    BY <1>7, Zenon DEF Spread
  <1>9. Spread(one, bytes) = bytes
    BY <1>1, SpreadOnes DEF one
  <1> QED
    BY <1>2, <1>5, <1>8, <1>9 DEF bytes

\* A pair is two sequences of one.
LEMMA PairOfOnes ==
    ASSUME NEW E, NEW a \in E, NEW b \in E
    PROVE  <<a, b>> = <<a>> \o <<b>>
  <1> DEFINE u == <<a>>
             v == <<b>>
             w == u \o v
  <1>1. u \in Seq(E) /\ v \in Seq(E) /\ Len(u) = 1 /\ Len(v) = 1 /\ u[1] = a /\ v[1] = b
    OBVIOUS
  <1> HIDE DEF u, v
  <1>2. w \in Seq(E) /\ Concat(w, u, v)
    BY <1>1, ConcatIs
  <1> HIDE DEF w
  <1>3. Len(w) = 2 /\ w[1] = u[1] /\ w[1 + 1] = v[1]
    BY <1>1, <1>2 DEF Concat
  <1>4. w = <<w[1], w[2]>>
    BY <1>2, <1>3
  <1>5. w = <<a, b>>
    BY <1>1, <1>3, <1>4
  <1> QED
    BY <1>5 DEF w, u, v

\* A merge makes nothing else.
LEMMA OneStepSpells ==
    ASSUME MergeTable, Spelling, NEW s \in Seq(Ordinary)
    PROVE  /\ OneStep(s) \in Seq(Ordinary)
           /\ Spread(Texts, OneStep(s)) = Spread(Texts, s)
  <1>0. s \in Seq(Nat) /\ Seq(Ordinary) \subseteq Seq(Known)
    BY OrdinaryIs DEF Ordinary
  <1>1. CASE Mergeable(s) = {}
    BY <1>1 DEF OneStep
  <1>2. CASE Mergeable(s) # {}
    <2> DEFINE k == Best(s)
               n == Len(s)
               p == PairAt(s, k)
               r == Result(p)
               a == SubSeq(s, 1, k - 1)
               b == SubSeq(s, k, k + 1)
               c == SubSeq(s, k + 2, n)
               x == s[k]
               y == s[k + 1]
               O == Ordinary
    <2>1. k \in 1..n - 1 /\ p \in DOMAIN tokenizer.merge /\ n \in Nat
      BY <1>0, <1>2, BestIs DEF FirstOf, Mergeable
    <2>2. p[1] = x /\ p[2] = y
      BY DEF PairAt
    <2>3. OneStep(s) = a \o <<r>> \o c
      BY <1>2 DEF OneStep
    <2>4. r \in O /\ TokenBytes(r) = TokenBytes(p[1]) \o TokenBytes(p[2])
      BY <2>1, TokenBytesAre DEF Spelling
    <2> HIDE DEF k, p, r
    <2>5. x \in O /\ y \in O /\ b = <<x, y>>
      <3> HIDE DEF O
      <3>1. s \in Seq(O)
        BY DEF O
      <3>2. x \in O /\ y \in O
        BY <2>1, <3>1
      <3>3. Len(b) = 2 /\ b[1] = s[k] /\ b[2] = s[k + 1] /\ b \in Seq(O)
        BY <2>1, <3>1
      <3>4. b = <<b[1], b[2]>>
        <4> HIDE DEF b
        <4> QED
          BY <3>3
      <3> QED
        BY <3>2, <3>3, <3>4
    <2>6. a \in Seq(O) /\ b \in Seq(O) /\ c \in Seq(O)
      BY <2>1
    <2>7. s = a \o (b \o c)
      <3> DEFINE d == SubSeq(s, k, n)
      <3>1. a \o d = SubSeq(s, 1, n)
        <4>1. 1 \in 1..Len(s) + 1 /\ k \in 1..Len(s) + 1
          BY <2>1
        <4> QED
          BY <4>1, Glue
      <3>2. b \o c = d
        <4>1. k \in 1..Len(s) + 1 /\ k + 2 \in k..Len(s) + 1 /\ (k + 2) - 1 = k + 1
          BY <2>1
        <4>2. SubSeq(s, k, (k + 2) - 1) \o c = d
          BY <4>1, Glue
        <4> QED
          BY <4>1, <4>2
      <3>3. SubSeq(s, 1, n) = s
        OBVIOUS
      <3> QED
        BY <3>1, <3>2, <3>3
    <2> DEFINE one == <<r>>
               X == <<x>>
               Y == <<y>>
    <2>8. one \in Seq(O) /\ X \in Seq(O) /\ Y \in Seq(O) /\ b = X \o Y
      <3> HIDE DEF x, y, b, O
      <3>1. r \in O /\ x \in O /\ y \in O /\ b = <<x, y>>
        BY <2>4, <2>5
      <3>2. ASSUME NEW e \in O PROVE <<e>> \in Seq(O)
        OBVIOUS
      <3>3. <<x, y>> = X \o Y
        BY <3>1, PairOfOnes
      <3> QED
        BY <3>1, <3>2, <3>3
    <2>9. /\ Spread(Texts, one) = TokenBytes(r) /\ Spread(Texts, X) = TokenBytes(x)
          /\ Spread(Texts, Y) = TokenBytes(y)
      <3>1. r \in Known /\ x \in Known /\ y \in Known
        BY <2>4, <2>5, OrdinaryIs
      <3>2. Texts[r] = TokenBytes(r) /\ Texts[x] = TokenBytes(x) /\ Texts[y] = TokenBytes(y)
        BY <3>1 DEF Texts
      <3>3. ASSUME NEW e \in Known PROVE Spread(Texts, <<e>>) = Texts[e]
        BY WordsAre, SpreadOne
      <3> QED
        BY <3>1, <3>2, <3>3
    <2> HIDE DEF a, b, c, x, y, one, X, Y, O
    <2>10. ASSUME NEW u \in Seq(O), NEW v \in Seq(O)
           PROVE  u \o v \in Seq(O) /\ Spread(Texts, u \o v) = Spread(Texts, u) \o Spread(Texts, v)
      <3>1. u \in Seq(Known) /\ v \in Seq(Known)
        BY <1>0 DEF O
      <3>2. Spread(Texts, u \o v) = Spread(Texts, u) \o Spread(Texts, v)
        BY <3>1, WordsAre, SpreadConcat
      <3> QED
        BY <3>2
    <2>11. Spread(Texts, one) = Spread(Texts, b)
      <3>1. Spread(Texts, b) = Spread(Texts, X) \o Spread(Texts, Y)
        BY <2>8, <2>10
      <3> QED
        BY <2>2, <2>4, <2>9, <3>1
    <2>12. /\ b \o c \in Seq(O) /\ Spread(Texts, b \o c) = Spread(Texts, b) \o Spread(Texts, c)
           /\ one \o c \in Seq(O)
           /\ Spread(Texts, one \o c) = Spread(Texts, one) \o Spread(Texts, c)
      BY <2>6, <2>8, <2>10
    <2>13. /\ Spread(Texts, a \o (b \o c)) = Spread(Texts, a) \o Spread(Texts, b \o c)
           /\ a \o (one \o c) \in Seq(O)
           /\ Spread(Texts, a \o (one \o c)) = Spread(Texts, a) \o Spread(Texts, one \o c)
      BY <2>6, <2>10, <2>12
    <2>14. OneStep(s) = a \o (one \o c)
      <3>1. OneStep(s) = a \o one \o c
        BY <2>3 DEF one
      <3>2. (a \o one) \o c = a \o (one \o c)
        BY <2>6, <2>8, SMTT(30)
      <3> QED
        BY <3>1, <3>2
    <2> QED
      BY <2>7, <2>11, <2>12, <2>13, <2>14 DEF O
  <1> QED
    BY <1>1, <1>2

\* So do the rounds.
LEMMA MergedSpells ==
    ASSUME MergeTable, Spelling, NEW s \in Seq(Ordinary)
    PROVE  /\ Merged(s) \in Seq(Ordinary)
           /\ Spread(Texts, Merged(s)) = Spread(Texts, s)
  <1>0. s \in Seq(Nat) /\ Len(s) \in Nat
    BY OrdinaryIs DEF Ordinary
  <1> DEFINE S == {k \in Nat : /\ Iter(s, k) \in Seq(Ordinary)
                               /\ Spread(Texts, Iter(s, k)) = Spread(Texts, s)}
  <1>1. 0 \in S
    BY <1>0, IterOne
  <1>2. ASSUME NEW k \in S PROVE k + 1 \in S
    <2> DEFINE t == Iter(s, k)
    <2>1. k \in Nat /\ t \in Seq(Ordinary) /\ Spread(Texts, t) = Spread(Texts, s)
      OBVIOUS
    <2>2. Iter(s, k + 1) = Iter(t, 1)
      BY <1>0, <2>1, IterSum
    <2>3. t \in Seq(Nat)
      BY <1>0, <2>1, IterType
    <2> HIDE DEF t
    <2>4. Iter(s, k + 1) = OneStep(t)
      BY <2>2, <2>3, IterOne
    <2>5. OneStep(t) \in Seq(Ordinary) /\ Spread(Texts, OneStep(t)) = Spread(Texts, t)
      BY <2>1, OneStepSpells
    <2> QED
      BY <2>1, <2>4, <2>5
  <1>3. S = Nat
    <2>1. S \in SUBSET Nat
      OBVIOUS
    <2> HIDE DEF S
    <2> QED
      BY <1>1, <1>2, <2>1, Inductive
  <1>4. Len(s) \in S
    <2> HIDE DEF S
    <2> QED
      BY <1>0, <1>3
  <1>5. Merged(s) = Iter(s, Len(s))
    BY <1>0, MergedAsOnce, MergedOnceIs
  <1> QED
    BY <1>4, <1>5

\* What a piece is encoded as is the textbook's, and spelled like the piece.
LEMMA PieceIs ==
    ASSUME MergeTable, Spelling, NEW piece \in Seq(Codes)
    PROVE  /\ BpePiece(piece) = MergedOnce(Symbols(piece))
           /\ BpePiece(piece) \in Seq(Ordinary)
           /\ Spread(Texts, BpePiece(piece)) = Bytes(piece)
  <1>1. Symbols(piece) \in Seq(Ordinary) /\ Spread(Texts, Symbols(piece)) = Bytes(piece)
    BY SymbolsAre
  <1>2. Symbols(piece) \in Seq(Nat)
    BY <1>1, OrdinaryIs DEF Ordinary
  <1>3. BpePiece(piece) = Merged(Symbols(piece))
    BY Zenon DEF BpePiece
  <1>4. Merged(Symbols(piece)) = MergedOnce(Symbols(piece))
    BY <1>2, MergedAsOnce
  <1>5. /\ Merged(Symbols(piece)) \in Seq(Ordinary)
        /\ Spread(Texts, Merged(Symbols(piece))) = Spread(Texts, Symbols(piece))
    BY <1>1, MergedSpells
  <1> QED
    BY <1>1, <1>3, <1>4, <1>5

\* An ordinary text is encoded as ordinary ids, spelled like its normal form.
LEMMA EncodeOrdinaryIs ==
    ASSUME MergeTable, Spelling, NEW text \in Seq(Codes)
    PROVE  /\ EncodeOrdinary(text) \in Seq(Ordinary)
           /\ Spread(Texts, EncodeOrdinary(text)) = Bytes(Nfc9(text))
           /\ Nfc9(text) \in Seq(Codes)
  <1> DEFINE points == Nfc9(text)
             pieces == Pretokens(points)
             P == Seq(Codes)
             bpe == [x \in P |-> BpePiece(x)]
             id == [x \in P |-> x]
             h == [x \in P |-> Spread(Texts, bpe[x])]
             g == [x \in P |-> Spread(Encoding, id[x])]
  <1>1. points \in P
    BY NfcIs
  <1>2. pieces \in Seq(P) /\ Lists!FlattenSeq(pieces) = points
    BY <1>1, PretokensAre
  <1>3. EncodeOrdinary(text) = Lists!FlattenSeq([k \in DOMAIN pieces |-> BpePiece(pieces[k])])
    BY Zenon DEF EncodeOrdinary
  <1> HIDE DEF points, pieces
  <1>4. ASSUME NEW x \in P
        PROVE  /\ BpePiece(x) \in Seq(Ordinary) /\ bpe[x] = BpePiece(x)
               /\ Spread(Texts, BpePiece(x)) = Bytes(x)
               /\ Bytes(x) = Spread(Encoding, x)
    BY PieceIs, BytesAre
  <1>5. Gives(bpe, P, Ordinary) /\ Gives(bpe, P, Known)
    <2>1. \A x \in P : bpe[x] \in Seq(Ordinary)
      BY <1>4
    <2>2. \A x \in P : bpe[x] \in Seq(Known)
      BY <2>1, OrdinaryIs
    <2>3. bpe = [x \in P |-> bpe[x]]
      OBVIOUS
    <2> HIDE DEF bpe, P
    <2> QED
      BY <2>1, <2>2, <2>3 DEF Gives
  <1>6. Gives(id, P, Codes)
    BY DEF Gives
  <1> HIDE DEF P
  <1>7. \A k \in DOMAIN pieces : pieces[k] \in P
    BY <1>2
  <1>8. EncodeOrdinary(text) = Spread(bpe, pieces)
    <2>1. \A k \in DOMAIN pieces : BpePiece(pieces[k]) = bpe[pieces[k]]
      BY <1>4, <1>7
    <2>2. [k \in DOMAIN pieces |-> BpePiece(pieces[k])] = [k \in DOMAIN pieces |-> bpe[pieces[k]]]
      BY <2>1, Zenon
    <2> QED
      BY <1>3, <2>2, Zenon DEF Spread
  <1>9. points = Spread(id, pieces)
    <2>1. pieces = [k \in DOMAIN pieces |-> pieces[k]]
      BY <1>2
    <2>2. \A k \in DOMAIN pieces : pieces[k] = id[pieces[k]]
      BY <1>7
    <2>3. [k \in DOMAIN pieces |-> pieces[k]] = [k \in DOMAIN pieces |-> id[pieces[k]]]
      BY <2>2, Zenon
    <2>4. pieces = [k \in DOMAIN pieces |-> id[pieces[k]]]
      BY <2>1, <2>3
    <2>5. Spread(id, pieces) = Lists!FlattenSeq(pieces)
      BY <2>4, Zenon DEF Spread
    <2> QED
      BY <1>2, <2>5
  <1>10. h = g
    <2>1. \A x \in P : Spread(Texts, bpe[x]) = Spread(Encoding, id[x])
      BY <1>4
    <2> HIDE DEF bpe, id
    <2> QED
      BY <2>1
  <1> HIDE DEF bpe, id
  <1>11. Spread(Texts, Spread(bpe, pieces)) = Spread(h, pieces)
    BY <1>2, <1>5, WordsAre, SpreadSpread
  <1>12. Spread(Encoding, Spread(id, pieces)) = Spread(g, pieces)
    BY <1>2, <1>6, EncodingIs, SpreadSpread
  <1>13. Bytes(points) = Spread(Encoding, points)
    BY <1>1, BytesAre DEF P
  <1>14. EncodeOrdinary(text) \in Seq(Ordinary)
    BY <1>2, <1>5, <1>8, SpreadIs
  <1> QED
    BY <1>1, <1>8, <1>9, <1>10, <1>11, <1>12, <1>13, <1>14 DEF points, P

\* The stretches of a text that is encoded.
LEMMA StretchesAre ==
    ASSUME CallText, call.kind = "encode", NEW k \in DOMAIN Segments(call.source)
    PROVE  LET segment == Segments(call.source)[k]
           IN  segment.ordinary \in Seq(Codes) /\ segment.special \in 0..Len(Special)
  <1> DEFINE E == SegmentSet(Codes)
             s == Segments(call.source)
  <1>1. s \in Seq(E)
    BY DEF CallText
  <1> HIDE DEF E
  <1>2. s[k] \in E
    BY <1>1
  <1> QED
    BY <1>2 DEF E, SegmentSet

\* Every pretoken of a text that is encoded is merged as by the reference.
LEMMA TextGivesReference ==
    ASSUME MergeTable, Spelling, CallText
    PROVE  MergesAsReference
  <1> SUFFICES ASSUME call.kind = "encode", NEW k \in DOMAIN Segments(call.source),
                      NEW p \in DOMAIN Pretokens(Nfc9(Segments(call.source)[k].ordinary))
               PROVE  LET pieces == Pretokens(Nfc9(Segments(call.source)[k].ordinary))
                      IN  BpePiece(pieces[p]) = MergedOnce(Symbols(pieces[p]))
    BY Zenon DEF MergesAsReference
  <1> DEFINE points == Nfc9(Segments(call.source)[k].ordinary)
             pieces == Pretokens(points)
             P == Seq(Codes)
  <1>1. points \in P
    BY StretchesAre, NfcIs
  <1> HIDE DEF points
  <1>2. pieces \in Seq(P)
    BY <1>1, PretokensAre
  <1>3. p \in DOMAIN pieces
    BY DEF points
  <1> HIDE DEF pieces, P
  <1>4. pieces[p] \in P
    BY <1>2, <1>3
  <1>5. BpePiece(pieces[p]) = MergedOnce(Symbols(pieces[p]))
    BY <1>4, PieceIs DEF P
  <1> QED
    BY <1>5 DEF pieces, points

-----------------------------------------------------------------------------
(* Well-formed bytes.                                                      *)

\* The length a first byte announces.
Announced(lead) ==
    CASE lead < 128       -> 1
      [] lead \in 194..223 -> 2
      [] lead \in 224..239 -> 3
      [] lead \in 240..244 -> 4
      [] OTHER             -> 0

\* What has to follow.
Continues(bytes, k, n) ==
    LET lead == bytes[k]
    IN  /\ k + n - 1 <= Len(bytes)
        /\ \A j \in k + 1..k + n - 1 : IsContinuation(bytes[j])
        /\ n > 1 => /\ lead = 224 => bytes[k + 1] >= 160
                    /\ lead = 237 => bytes[k + 1] < 160
                    /\ lead = 240 => bytes[k + 1] >= 144
                    /\ lead = 244 => bytes[k + 1] < 144

\* The length that is decoded is the announced one, if what has to follow does.
LEMMA CodePointLengthIs ==
    ASSUME NEW bytes, NEW k
    PROVE  LET n == Announced(bytes[k])
           IN  CodePointLength(bytes, k) = IF Continues(bytes, k, n) THEN n ELSE 0
  BY Zenon DEF CodePointLength, Continues, Announced

\* It is at most four.
LEMMA AnnouncedIs ==
    ASSUME NEW lead \in 0..255
    PROVE  Announced(lead) \in 0..4
  BY SMT DEF Announced

\* All bytes.
Byte == 0..255

\* The bytes of one code point.
Units == {u \in Seq(Byte) : /\ Len(u) \in 1..4 /\ Announced(u[1]) = Len(u)
                            /\ Continues(u, 1, Len(u))}

\* What is as long as announced, with what has to follow, is the bytes of a code point.
LEMMA UnitIs ==
    ASSUME NEW u \in Seq(Byte), NEW n \in 1..4, Len(u) = n, Announced(u[1]) = n,
           Continues(u, 1, n)
    PROVE  u \in Units
  BY DEF Units

\* Continuation bytes, one by one.
LEMMA FollowsIs ==
    ASSUME NEW u, NEW n \in 2..4, Len(u) = n,
           \A j \in 2..n : IsContinuation(u[j]),
           NEW a, a = u[1], NEW b, b = u[2],
           a = 224 => b >= 160, a = 237 => b < 160, a = 240 => b >= 144,
           a = 244 => b < 144
    PROVE  Continues(u, 1, n)
  <1>1. 1 + 1 = 2 /\ 1 + n - 1 = n /\ n <= n
    OBVIOUS
  <1> QED
    BY <1>1 DEF Continues

\* The same bytes, elsewhere.
Agree(u, bytes, k) ==
    /\ k + Len(u) - 1 <= Len(bytes)
    /\ \A j \in 1..Len(u) : bytes[k + j - 1] = u[j]

\* What has to follow does wherever the same bytes are.
LEMMA FollowsThere ==
    ASSUME NEW u \in Seq(Byte), Len(u) \in 1..4, NEW bytes \in Seq(Byte), NEW k \in Nat,
           Agree(u, bytes, k)
    PROVE  Continues(u, 1, Len(u)) <=> Continues(bytes, k, Len(u))
  <1> DEFINE n == Len(u)
  <1>1. n \in 1..4 /\ \A j \in 1..n : bytes[k + j - 1] = u[j]
    BY DEF Agree
  <1>a. n \in Nat /\ n >= 1
    BY <1>1
  <1> HIDE DEF n
  <1>2. bytes[k] = u[1]
    <2>1. 1 \in 1..n /\ k + 1 - 1 = k
      BY <1>a
    <2> QED
      BY <1>1, <2>1
  <1>3. n > 1 => bytes[k + 1] = u[2] /\ u[2] = u[1 + 1]
    <2>1. n > 1 => 2 \in 1..n /\ k + 2 - 1 = k + 1 /\ 1 + 1 = 2
      BY <1>a
    <2> QED
      BY <1>1, <2>1
  <1>4. k + n - 1 <= Len(bytes) /\ 1 + n - 1 <= Len(u)
    BY <1>1, <1>a DEF Agree, n
  <1>5. (\A j \in 1 + 1..1 + n - 1 : IsContinuation(u[j]))
          <=> (\A j \in k + 1..k + n - 1 : IsContinuation(bytes[j]))
    <2>1. ASSUME \A j \in 1 + 1..1 + n - 1 : IsContinuation(u[j]), NEW j \in k + 1..k + n - 1
          PROVE  IsContinuation(bytes[j])
      <3> DEFINE i == j - k + 1
      <3>1. i \in 1 + 1..1 + n - 1 /\ i \in 1..n /\ k + i - 1 = j
        BY <1>a
      <3> HIDE DEF i
      <3>2. IsContinuation(u[i])
        BY <2>1, <3>1
      <3>3. bytes[j] = u[i]
        BY <1>1, <3>1
      <3> QED
        BY <3>2, <3>3
    <2>2. ASSUME \A j \in k + 1..k + n - 1 : IsContinuation(bytes[j]), NEW i \in 1 + 1..1 + n - 1
          PROVE  IsContinuation(u[i])
      <3> DEFINE j == k + i - 1
      <3>1. j \in k + 1..k + n - 1 /\ i \in 1..n
        BY <1>a
      <3> HIDE DEF j
      <3>2. IsContinuation(bytes[j])
        BY <2>2, <3>1
      <3>3. bytes[j] = u[i]
        BY <1>1, <3>1 DEF j
      <3> QED
        BY <3>2, <3>3
    <2> QED
      BY <2>1, <2>2
  <1>6. Continues(u, 1, n) <=> Continues(bytes, k, n)
    BY <1>2, <1>3, <1>4, <1>5 DEF Continues, n
  <1> QED
    BY <1>6 DEF n

\* The bytes of a code point are found wherever they are.
LEMMA UnitThere ==
    ASSUME NEW u \in Units, NEW bytes \in Seq(Byte), NEW k \in Nat, Agree(u, bytes, k)
    PROVE  CodePointLength(bytes, k) = Len(u)
  <1>1. /\ u \in Seq(Byte) /\ Len(u) \in 1..4 /\ Announced(u[1]) = Len(u)
        /\ Continues(u, 1, Len(u))
    BY DEF Units
  <1>2. bytes[k] = u[1]
    <2> DEFINE n == Len(u)
    <2>1. 1 \in 1..n /\ k + 1 - 1 = k /\ \A j \in 1..n : bytes[k + j - 1] = u[j]
      BY <1>1 DEF Agree
    <2> HIDE DEF n
    <2> QED
      BY <2>1
  <1>3. Continues(bytes, k, Len(u))
    BY <1>1, FollowsThere
  <1>4. Announced(bytes[k]) = Len(u)
    BY <1>1, <1>2
  <1> QED
    BY <1>3, <1>4, CodePointLengthIs

\* What is found is the bytes of a code point.
LEMMA UnitFound ==
    ASSUME NEW bytes \in Seq(Byte), NEW k \in 1..Len(bytes),
           NEW n, n = CodePointLength(bytes, k), n # 0
    PROVE  /\ n \in 1..4 /\ k + n - 1 <= Len(bytes)
           /\ SubSeq(bytes, k, k + n - 1) \in Units
  <1>1. bytes[k] \in Byte
    OBVIOUS
  <1>2. n = Announced(bytes[k]) /\ Continues(bytes, k, n)
    BY CodePointLengthIs
  <1>3. n \in 1..4
    <2>1. Announced(bytes[k]) \in 0..4
      BY <1>1, AnnouncedIs DEF Byte
    <2> QED
      BY <1>2, <2>1
  <1>4. k + n - 1 <= Len(bytes)
    BY <1>2 DEF Continues
  <1> DEFINE u == SubSeq(bytes, k, k + n - 1)
  <1>5. u \in Seq(Byte) /\ Len(u) = n /\ \A j \in 1..n : u[j] = bytes[k + j - 1]
    BY <1>3, <1>4
  <1> HIDE DEF u
  <1>6. Agree(u, bytes, k)
    BY <1>4, <1>5 DEF Agree
  <1>7. u[1] = bytes[k]
    <2>1. 1 \in 1..n /\ k + 1 - 1 = k
      BY <1>3
    <2> QED
      BY <1>5, <2>1
  <1>8. k \in Nat
    OBVIOUS
  <1>9. Continues(u, 1, n)
    <2>1. Len(u) \in 1..4
      BY <1>3, <1>5
    <2>2. Continues(u, 1, Len(u)) <=> Continues(bytes, k, Len(u))
      BY ONLY <1>5, <1>6, <1>8, <2>1, FollowsThere, bytes \in Seq(Byte)
    <2> QED
      BY ONLY <1>2, <1>5, <2>2
  <1>10. u \in Units
    <2>1. Announced(u[1]) = n
      BY <1>2, <1>7
    <2> QED
      BY ONLY <1>3, <1>5, <1>9, <2>1, UnitIs
  <1> QED
    BY <1>3, <1>4, <1>10 DEF u

\* Bounds of the last code point that the provers use in its place.
LEMMA LastCodeIs ==
    LastCode < 262144 * 5 /\ LastCode < 17 * 65536 /\ LastCode \in Nat
  BY SMT DEF LastCode

\* What utf8proc writes is what it reads.
LEMMA Utf8IsUnit ==
    ASSUME NEW c \in 0..LastCode, ~IsSurrogate(c)
    PROVE  Utf8(c) \in Units
  <1>a. LastCode < 262144 * 5 /\ LastCode < 17 * 65536 /\ LastCode \in Nat
    BY ONLY LastCodeIs
  <1>b. c \in Nat /\ c <= LastCode
    BY <1>a, SMT
  <1>1. c \in Nat /\ c < 262144 * 5 /\ c < 17 * 65536
    BY <1>a, <1>b, SMT
  <1> DEFINE u == Utf8(c)
  <1>2. CASE c < 128
    <2>1. u = <<c>>
      BY <1>1, <1>2, Utf8Is, SMT
    <2> HIDE DEF u
    <2>2. Announced(c) = 1
      BY <1>1, <1>2, SMT DEF Announced
    <2>3. u \in Seq(Byte) /\ Len(u) = 1 /\ u[1] = c
      BY <1>1, <1>2, <2>1, SMT DEF Byte
    <2>4. Continues(u, 1, 1)
      BY <2>3, SMT DEF Continues
    <2>5. u \in Units
      <3>1. 1 \in 1..4
        BY SMT
      <3> QED
        BY ONLY <2>2, <2>3, <2>4, <3>1, UnitIs
    <2> QED
      BY <2>5 DEF u
  <1>3. CASE c >= 128 /\ c < 2048
    <2> DEFINE a == 192 + (c \div 64)
               b == 128 + (c % 64)
    <2>1. u = <<a, b>>
      BY <1>1, <1>3, Utf8Is, SMT
    <2>2. a \in 194..223 /\ b \in 128..191
      BY <1>1, <1>3, SMT
    <2> HIDE DEF u, a, b
    <2>3. Announced(a) = 2
      BY <2>2, SMT DEF Announced
    <2>4. u \in Seq(Byte) /\ Len(u) = 2 /\ u[1] = a /\ u[2] = b
      BY <2>1, <2>2, SMT DEF Byte
    <2>5. Continues(u, 1, 2)
      <3>1. \A j \in 2..2 : IsContinuation(u[j])
        <4>1. \A j \in 2..2 : j = 2
          BY SMT
        <4>2. IsContinuation(b)
          BY ONLY <2>2 DEF IsContinuation
        <4> QED
          BY ONLY <2>4, <4>1, <4>2, Zenon
      <3> QED
        BY <2>2, <2>4, <3>1, FollowsIs, SMT
    <2>6. u \in Units
      <3>1. 2 \in 1..4
        BY SMT
      <3> QED
        BY ONLY <2>3, <2>4, <2>5, <3>1, UnitIs
    <2> QED
      BY <2>6 DEF u
  <1>4. CASE c >= 2048 /\ c < 65536
    <2> DEFINE a == 224 + (c \div 4096)
               b == 128 + ((c \div 64) % 64)
               d == 128 + (c % 64)
    <2>1. u = <<a, b, d>>
      BY <1>1, <1>4, Utf8Is, SMT
    <2>2. a \in 224..239 /\ b \in 128..191 /\ d \in 128..191
      BY <1>1, <1>4, SMT
    <2>3. a = 224 => b >= 160
      BY <1>1, <1>4, SMT
    <2>4. a = 237 => b < 160
      <3>1. ~(c >= 55296 /\ c <= 57343)
        BY SMT DEF IsSurrogate
      <3> QED
        BY <1>1, <1>4, <3>1, SMT
    <2> HIDE DEF u, a, b, d
    <2>5. Announced(a) = 3
      BY <2>2, SMT DEF Announced
    <2>6. u \in Seq(Byte) /\ Len(u) = 3 /\ u[1] = a /\ u[2] = b /\ u[3] = d
      BY <2>1, <2>2, SMT DEF Byte
    <2>7. Continues(u, 1, 3)
      <3>1. \A j \in 2..3 : IsContinuation(u[j])
        <4>1. \A j \in 2..3 : j = 2 \/ j = 3
          BY SMT
        <4>2. IsContinuation(b) /\ IsContinuation(d)
          BY ONLY <2>2 DEF IsContinuation
        <4> QED
          BY ONLY <2>6, <4>1, <4>2, Zenon
      <3> QED
        BY <2>2, <2>3, <2>4, <2>6, <3>1, FollowsIs, SMT
    <2>8. u \in Units
      <3>1. 3 \in 1..4
        BY SMT
      <3> QED
        BY ONLY <2>5, <2>6, <2>7, <3>1, UnitIs
    <2> QED
      BY <2>8 DEF u
  <1>5. CASE c >= 65536
    <2> DEFINE a == 240 + (c \div 262144)
               b == 128 + ((c \div 4096) % 64)
               d == 128 + ((c \div 64) % 64)
               e == 128 + (c % 64)
    <2>1. u = <<a, b, d, e>>
      BY <1>1, <1>5, Utf8Is, SMT
    <2>2. a \in 240..244 /\ b \in 128..191 /\ d \in 128..191 /\ e \in 128..191
      BY <1>1, <1>5, SMT
    <2>3. a = 240 => b >= 144
      BY <1>1, <1>5, SMT
    <2>4. a = 244 => b < 144
      BY <1>1, <1>5, SMT
    <2> HIDE DEF u, a, b, d, e
    <2>5. Announced(a) = 4
      BY <2>2, SMT DEF Announced
    <2>6. u \in Seq(Byte) /\ Len(u) = 4 /\ u[1] = a /\ u[2] = b /\ u[3] = d /\ u[4] = e
      BY <2>1, <2>2, SMT DEF Byte
    <2>7. Continues(u, 1, 4)
      <3>1. \A j \in 2..4 : IsContinuation(u[j])
        <4>1. \A j \in 2..4 : j = 2 \/ j = 3 \/ j = 4
          BY SMT
        <4>2. IsContinuation(b) /\ IsContinuation(d) /\ IsContinuation(e)
          BY ONLY <2>2 DEF IsContinuation
        <4> QED
          BY ONLY <2>6, <4>1, <4>2, Zenon
      <3> QED
        BY <2>2, <2>3, <2>4, <2>6, <3>1, FollowsIs, SMT
    <2>8. u \in Units
      <3>1. 4 \in 1..4
        BY SMT
      <3> QED
        BY ONLY <2>5, <2>6, <2>7, <3>1, UnitIs
    <2> QED
      BY <2>8 DEF u
  <1> QED
    BY <1>1, <1>2, <1>3, <1>4, <1>5, SMT

\* Bytes that are those of code points, one behind the other.
Well(bytes) == \E s \in Seq(Units) : bytes = Lists!FlattenSeq(s)

\* They are sequences of bytes.
LEMMA UnitsAre == Units \subseteq Seq(Byte) /\ Seq(Units) \subseteq Seq(Seq(Byte))
  <1>1. Units \subseteq Seq(Byte)
    BY Zenon DEF Units
  <1> DEFINE U == Seq(Byte)
             V == Units
  <1>2. V \subseteq U
    BY <1>1
  <1> HIDE DEF U, V
  <1>3. Seq(V) \subseteq Seq(U)
    BY <1>2
  <1> QED
    BY <1>1, <1>3 DEF U, V

\* Well-formed bytes are bytes.
LEMMA WellSeq ==
    ASSUME NEW bytes, Well(bytes)
    PROVE  bytes \in Seq(Byte)
  <1>1. PICK s \in Seq(Units) : bytes = Lists!FlattenSeq(s)
    BY DEF Well
  <1>2. s \in Seq(Seq(Byte))
    BY UnitsAre
  <1> QED
    BY <1>1, <1>2, Flattened

\* No bytes are well-formed.
LEMMA WellEmpty == Well(<< >>)
  <1>1. << >> \in Seq(Units)
    OBVIOUS
  <1>2. Lists!FlattenSeq(<< >>) = << >>
    BY Flattened
  <1> QED
    BY <1>1, <1>2, Zenon DEF Well

\* So are those of a code point.
LEMMA WellUnit ==
    ASSUME NEW u \in Units
    PROVE  Well(u)
  <1>1. <<u>> \in Seq(Units)
    OBVIOUS
  <1>2. u \in Seq(Byte)
    BY UnitsAre
  <1>3. Lists!FlattenSeq(<<u>>) = u
    BY <1>2, Flattened
  <1> QED
    BY <1>1, <1>3, Zenon DEF Well

\* So are two well-formed parts together.
LEMMA WellConcat ==
    ASSUME NEW a, NEW b, Well(a), Well(b)
    PROVE  Well(a \o b)
  <1>1. PICK s \in Seq(Units) : a = Lists!FlattenSeq(s)
    BY Zenon DEF Well
  <1>2. PICK t \in Seq(Units) : b = Lists!FlattenSeq(t)
    BY Zenon DEF Well
  <1> DEFINE V == Units
  <1>3. s \o t \in Seq(V)
    <2>1. s \in Seq(V) /\ t \in Seq(V)
      OBVIOUS
    <2> HIDE DEF V
    <2> QED
      BY <2>1
  <1>4. s \in Seq(Seq(Byte)) /\ t \in Seq(Seq(Byte))
    BY UnitsAre, Zenon
  <1>5. Lists!FlattenSeq(s \o t) = Lists!FlattenSeq(s) \o Lists!FlattenSeq(t)
    BY <1>4, Flattened, SMT
  <1> QED
    BY <1>1, <1>2, <1>3, <1>5, Zenon DEF Well

\* The first code point of bytes that are code points.
LEMMA WellHead ==
    ASSUME NEW bytes, Well(bytes), bytes # << >>
    PROVE  \E u \in Units, rest \in Seq(Byte) : Well(rest) /\ bytes = u \o rest
  <1>1. PICK s \in Seq(Units) : bytes = Lists!FlattenSeq(s)
    BY Zenon DEF Well
  <1> DEFINE V == Units
             t == SubSeq(s, 2, Len(s))
             h == <<s[1]>>
  <1>2. s \in Seq(V)
    OBVIOUS
  <1>3. s # << >>
    BY <1>1, Flattened
  <1>4. s[1] \in V /\ t \in Seq(V) /\ h \in Seq(V) /\ s = h \o t
    <2> HIDE DEF V
    <2> QED
      BY <1>2, <1>3
  <1> HIDE DEF t
  <1>5. t \in Seq(Seq(Byte)) /\ h \in Seq(Seq(Byte)) /\ s[1] \in Seq(Byte)
    BY <1>4, UnitsAre, Zenon
  <1>6. Lists!FlattenSeq(h) = s[1]
    BY <1>5, Flattened
  <1> HIDE DEF h
  <1>7. Lists!FlattenSeq(h \o t) = Lists!FlattenSeq(h) \o Lists!FlattenSeq(t)
    BY <1>5, Flattened, SMT
  <1>8. Well(Lists!FlattenSeq(t))
    BY <1>4, Zenon DEF Well
  <1>9. Lists!FlattenSeq(t) \in Seq(Byte)
    BY <1>8, WellSeq
  <1> QED
    BY <1>1, <1>4, <1>6, <1>7, <1>8, <1>9, Zenon

\* A text of code points is written in such bytes.
LEMMA BytesWell ==
    ASSUME NEW text \in Seq(Codes)
    PROVE  Well(Bytes(text))
  <1> DEFINE s == [k \in DOMAIN text |-> Utf8(text[k])]
             V == Units
  <1>1. ASSUME NEW c \in Codes PROVE Utf8(c) \in V
    <2>1. c \in 0..LastCode /\ ~IsSurrogate(c)
      BY Zenon DEF Codes
    <2> QED
      BY <2>1, Utf8IsUnit
  <1>2. \A k \in 1..Len(text) : s[k] \in V
    BY <1>1
  <1>3. s \in Seq(V)
    <2>1. s = [k \in 1..Len(text) |-> s[k]] /\ Len(text) \in Nat
      OBVIOUS
    <2> HIDE DEF s, V
    <2> QED
      BY <1>2, <2>1
  <1>4. Bytes(text) = Lists!FlattenSeq(s)
    BY Zenon DEF Bytes
  <1> HIDE DEF s
  <1> QED
    BY <1>3, <1>4, Zenon DEF Well
-----------------------------------------------------------------------------
(* The repair.                                                             *)

\* What is written at a place: the code point there, or U+FFFD.
RepairPiece(bytes) ==
    [k \in 1..Len(bytes) |->
       IF CodePointLength(bytes, k) # 0
         THEN SubSeq(bytes, k, k + CodePointLength(bytes, k) - 1) ELSE Utf8(Replacement)]

\* Where repairing goes on.
RepairJump(bytes) ==
    [k \in 1..Len(bytes) |->
       IF CodePointLength(bytes, k) # 0 THEN k + CodePointLength(bytes, k)
       ELSE k + 1 + Stretch(bytes, k + 1, "continuation")]

\* U+FFFD is a code point.
LEMMA ReplacementIsUnit == Utf8(Replacement) \in Units
  <1>1. Replacement \in Nat /\ Replacement >= 57344
    BY SMT DEF Replacement
  <1>2. ~IsSurrogate(Replacement)
    BY <1>1, SMT DEF IsSurrogate
  <1>3. Replacement < LastCode /\ LastCode \in Nat
    BY SMT DEF Replacement, LastCode
  <1>4. Replacement \in 0..LastCode
    BY <1>1, <1>3, SMT
  <1> QED
    BY <1>2, <1>4, Utf8IsUnit

\* At each place a code point is written, and the place moves on.
LEMMA RepairGoesOn ==
    ASSUME NEW bytes \in Seq(Byte), NEW k \in 1..Len(bytes)
    PROVE  /\ RepairPiece(bytes)[k] \in Units
           /\ RepairJump(bytes)[k] \in k + 1..Len(bytes) + 1
  <1> DEFINE n == CodePointLength(bytes, k)
             m == Stretch(bytes, k + 1, "continuation")
  <1>0. Len(bytes) \in Nat /\ k + 1 \in 1..Len(bytes) + 1
    OBVIOUS
  <1>1. /\ RepairPiece(bytes)[k] = IF n # 0 THEN SubSeq(bytes, k, k + n - 1) ELSE Utf8(Replacement)
        /\ RepairJump(bytes)[k] = IF n # 0 THEN k + n ELSE k + 1 + m
    BY Zenon DEF RepairPiece, RepairJump
  <1>2. m \in Nat /\ k + 1 + m <= Len(bytes) + 1
    BY <1>0, StretchIs
  <1>3. n # 0 => n \in 1..4 /\ k + n - 1 <= Len(bytes) /\ SubSeq(bytes, k, k + n - 1) \in Units
    BY UnitFound
  <1> HIDE DEF n, m
  <1>4. RepairPiece(bytes)[k] \in Units
    BY <1>1, <1>3, ReplacementIsUnit, Zenon
  <1>5. RepairJump(bytes)[k] \in k + 1..Len(bytes) + 1
    <2>1. CASE n # 0
      <3>1. RepairJump(bytes)[k] = k + n
        BY <1>1, <2>1
      <3> QED
        BY <1>0, <1>3, <2>1, <3>1
    <2>2. CASE n = 0
      <3>1. RepairJump(bytes)[k] = k + 1 + m
        BY <1>1, <2>2
      <3> QED
        BY <1>0, <1>2, <2>2, <3>1
    <2> QED
      BY <2>1, <2>2
  <1> QED
    BY <1>4, <1>5

\* So repairing is such a chain.
LEMMA RepairChains ==
    ASSUME NEW bytes \in Seq(Byte)
    PROVE  Chains(Len(bytes), Byte, RepairPiece(bytes), RepairJump(bytes))
  <1>1. ASSUME NEW k \in 1..Len(bytes)
        PROVE  /\ RepairPiece(bytes)[k] \in Seq(Byte)
               /\ RepairJump(bytes)[k] \in k + 1..Len(bytes) + 1
    BY RepairGoesOn, UnitsAre
  <1> QED
    BY <1>1 DEF Chains

\* What is repaired is the chain from the first place on.
LEMMA RepairedIs ==
    ASSUME NEW bytes \in Seq(Byte)
    PROVE  \E f : /\ Linked(f, Len(bytes), Byte, RepairPiece(bytes), RepairJump(bytes))
                  /\ Repaired(bytes) = f[1]
  <1> DEFINE n == Len(bytes)
             piece == RepairPiece(bytes)
             jump == RepairJump(bytes)
             Body(f) == [k \in 1..n + 1 |->
                           IF k > n THEN << >>
                           ELSE LET m == CodePointLength(bytes, k)
                                IN  IF m # 0 THEN SubSeq(bytes, k, k + m - 1) \o f[k + m]
                                    ELSE Utf8(Replacement)
                                           \o f[k + 1 + Stretch(bytes, k + 1, "continuation")]]
             F == CHOOSE f : f = Body(f)
  <1>0. n \in Nat
    OBVIOUS
  <1>2. Chains(n, Byte, piece, jump)
    BY RepairChains
  <1>a. ASSUME NEW k \in 1..n
        PROVE  LET m == CodePointLength(bytes, k)
               IN  /\ piece[k] = IF m # 0 THEN SubSeq(bytes, k, k + m - 1) ELSE Utf8(Replacement)
                   /\ jump[k] = IF m # 0 THEN k + m
                                ELSE k + 1 + Stretch(bytes, k + 1, "continuation")
    BY Zenon DEF RepairPiece, RepairJump
  <1> HIDE DEF piece, jump
  <1>3. ASSUME NEW g, NEW k \in 1..n + 1
        PROVE  Body(g)[k] = IF k > n THEN << >> ELSE piece[k] \o g[jump[k]]
    <2>1. CASE k > n
      BY <2>1
    <2>2. CASE ~(k > n)
      <3>1. k \in 1..n
        BY <1>0, <2>2
      <3> DEFINE m == CodePointLength(bytes, k)
                 z == Utf8(Replacement)
      <3>2. Body(g)[k] = IF m # 0 THEN SubSeq(bytes, k, k + m - 1) \o g[k + m]
                         ELSE z \o g[k + 1 + Stretch(bytes, k + 1, "continuation")]
        BY <2>2, Zenon
      <3>3. /\ piece[k] = IF m # 0 THEN SubSeq(bytes, k, k + m - 1) ELSE z
            /\ jump[k] = IF m # 0 THEN k + m
                         ELSE k + 1 + Stretch(bytes, k + 1, "continuation")
        BY <1>a, <3>1
      <3> HIDE DEF Body, m, z
      <3> QED
        BY <2>2, <3>2, <3>3, Zenon
    <2> QED
      BY <2>1, <2>2
  <1>4. ASSUME NEW g PROVE Chain(g, n, piece, jump) <=> g = Body(g)
    <2> DEFINE Norm(f) == [k \in 1..n + 1 |-> IF k > n THEN << >> ELSE piece[k] \o f[jump[k]]]
    <2>1. ASSUME NEW k \in 1..n + 1 PROVE Norm(g)[k] = Body(g)[k]
      <3>1. Norm(g)[k] = IF k > n THEN << >> ELSE piece[k] \o g[jump[k]]
        OBVIOUS
      <3> HIDE DEF Body, Norm
      <3> QED
        BY <1>3, <3>1
    <2>2. /\ Norm(g) = [k \in 1..n + 1 |-> Norm(g)[k]]
          /\ Body(g) = [k \in 1..n + 1 |-> Body(g)[k]]
      BY Zenon
    <2>3. Norm(g) = Body(g)
      <3> HIDE DEF Body, Norm
      <3> QED
        BY <2>1, <2>2
    <2> HIDE DEF Body
    <2> QED
      BY <2>3 DEF Chain
  <1>5. PICK f : Chain(f, n, piece, jump)
    <2> HIDE DEF n
    <2> QED
      BY <1>0, <1>2, ChainExists
  <1>6. F = Body(F)
    <2>1. f = Body(f)
      BY <1>4, <1>5
    <2> HIDE DEF Body
    <2> QED
      BY <2>1
  <1>7. Chain(F, n, piece, jump)
    <2> HIDE DEF F, Body, n
    <2> QED
      BY <1>4, <1>6
  <1>8. Repaired(bytes) = F[1]
    BY Zenon DEF Repaired
  <1> HIDE DEF F, Body, n
  <1>9. Linked(F, n, Byte, piece, jump)
    BY <1>0, <1>2, <1>7, ChainIs
  <1> QED
    BY <1>8, <1>9, Zenon DEF n, piece, jump

\* Whatever the bytes, the repaired ones are those of code points.
LEMMA RepairedWell ==
    ASSUME NEW bytes \in Seq(Byte)
    PROVE  Well(Repaired(bytes)) /\ Repaired(bytes) \in Seq(Byte)
  <1> DEFINE n == Len(bytes)
             piece == RepairPiece(bytes)
             jump == RepairJump(bytes)
  <1>0. n \in Nat
    OBVIOUS
  <1>1. PICK f : Linked(f, n, Byte, piece, jump) /\ Repaired(bytes) = f[1]
    BY RepairedIs
  <1>2. \A k \in 1..n : piece[k] \in Units /\ jump[k] \in k + 1..n + 1
    BY RepairGoesOn
  <1> HIDE DEF n, piece, jump
  <1>3. f[n + 1] = << >> /\ \A k \in 1..n : f[k] = piece[k] \o f[jump[k]]
    BY <1>1 DEF Linked
  <1> DEFINE S == {k \in 1..n + 1 : Well(f[k])}
  <1>4. ASSUME NEW k \in 1..n + 1, \A j \in k + 1..n + 1 : j \in S PROVE k \in S
    <2>1. CASE k = n + 1
      BY <1>3, <2>1, WellEmpty
    <2>2. CASE k # n + 1
      <3>1. k \in 1..n
        BY <1>0, <2>2
      <3>2. Well(piece[k])
        BY <1>2, <3>1, WellUnit
      <3>3. Well(f[jump[k]])
        BY <1>2, <1>4, <3>1
      <3>4. Well(piece[k] \o f[jump[k]])
        BY <3>2, <3>3, WellConcat
      <3> QED
        BY <1>3, <3>1, <3>4
    <2> QED
      BY <2>1, <2>2
  <1>5. \A k \in 1..n + 1 : k \in S
    <2> HIDE DEF S
    <2> QED
      BY <1>0, <1>4, FromBack
  <1>6. 1 \in 1..n + 1
    BY <1>0
  <1> QED
    BY <1>1, <1>5, <1>6, WellSeq

\* Bytes that are those of code points are left alone.
LEMMA RepairedSame ==
    ASSUME NEW bytes, Well(bytes)
    PROVE  Repaired(bytes) = bytes
  <1> DEFINE n == Len(bytes)
             piece == RepairPiece(bytes)
             jump == RepairJump(bytes)
             tail(k) == SubSeq(bytes, k, n)
  <1>a. bytes \in Seq(Byte)
    BY WellSeq
  <1>0. n \in Nat
    BY <1>a
  <1>1. PICK f : Linked(f, n, Byte, piece, jump) /\ Repaired(bytes) = f[1]
    BY <1>a, RepairedIs
  <1>2. f[n + 1] = << >> /\ \A k \in 1..n : f[k] = piece[k] \o f[jump[k]]
    BY <1>1 DEF Linked
  <1> DEFINE S == {k \in 1..n + 1 : Well(tail(k)) => f[k] = tail(k)}
  <1>3. ASSUME NEW k \in 1..n + 1, \A j \in k + 1..n + 1 : j \in S PROVE k \in S
    <2>1. CASE k = n + 1
      <3>1. tail(n + 1) = << >>
        BY <1>0, <1>a
      <3> HIDE DEF tail
      <3> QED
        BY <1>2, <2>1, <3>1
    <2>2. CASE k # n + 1
      <3>1. k \in 1..n
        BY <1>0, <2>2
      <3>2. SUFFICES ASSUME Well(tail(k)) PROVE f[k] = tail(k)
        OBVIOUS
      <3>3. tail(k) \in Seq(Byte) /\ Len(tail(k)) = n + 1 - k /\ tail(k) # << >>
            /\ \A i \in 1..n + 1 - k : tail(k)[i] = bytes[k + i - 1]
        <4> DEFINE z == tail(k)
        <4>1. z \in Seq(Byte) /\ Len(z) = n + 1 - k
          BY <1>a, <1>0, <3>1
        <4>2. \A i \in 1..n + 1 - k : z[i] = bytes[k + i - 1]
          BY <1>a, <1>0, <3>1
        <4>3. z # << >>
          <5> HIDE DEF z
          <5> QED
            BY <1>0, <3>1, <4>1
        <4> QED
          BY <4>1, <4>2, <4>3
      <3>4. PICK u \in Units, rest \in Seq(Byte) : Well(rest) /\ tail(k) = u \o rest
        <4> HIDE DEF tail
        <4> QED
          BY <3>2, <3>3, WellHead
      <3> DEFINE m == Len(u)
                 j == k + m
      <3>5. u \in Seq(Byte) /\ m \in 1..4 /\ m \in Nat /\ m >= 1
        <4>1. u \in Seq(Byte) /\ m \in 1..4
          BY Zenon DEF Units
        <4> HIDE DEF m
        <4> QED
          BY <4>1
      <3>5a. m \in Nat /\ m >= 1
        BY <3>5
      <3> HIDE DEF m
      <3>6. Concat(tail(k), u, rest)
        <4> HIDE DEF tail
        <4> QED
          BY <3>4, <3>5, ConcatIs
      <3>7. Len(rest) = n + 1 - j /\ Len(rest) \in Nat /\ j \in k + 1..n + 1
        <4>1. n + 1 - k = m + Len(rest) /\ Len(rest) \in Nat
          BY <3>3, <3>6 DEF Concat, m
        <4> QED
          BY <1>0, <3>1, <3>5a, <4>1
      <3>8. \A i \in 1..m : bytes[k + i - 1] = u[i]
        <4> TAKE i \in 1..m
        <4>1. i \in 1..n + 1 - k
          BY <1>0, <3>1, <3>5a, <3>7
        <4>2. tail(k)[i] = u[i]
          <5> HIDE DEF tail
          <5> QED
            BY <3>6 DEF Concat, m
        <4> HIDE DEF tail
        <4> QED
          BY <3>3, <4>1, <4>2
      <3>9. Agree(u, bytes, k)
        <4>1. k + m - 1 <= n
          BY <1>0, <3>1, <3>5a, <3>7
        <4> QED
          BY <3>8, <4>1 DEF Agree, m
      <3>10. CodePointLength(bytes, k) = m
        <4>1. k \in Nat
          OBVIOUS
        <4> QED
          BY <1>a, <3>9, <4>1, UnitThere DEF m
      <3>11. piece[k] = SubSeq(bytes, k, j - 1) /\ jump[k] = j
        <4>1. m # 0 /\ j - 1 = k + m - 1
          BY <3>5a
        <4> QED
          BY <3>1, <3>10, <4>1, Zenon DEF RepairPiece, RepairJump
      <3>12. tail(j) = rest
        <4>1. /\ tail(j) \in Seq(Byte) /\ Len(tail(j)) = n + 1 - j
              /\ \A i \in 1..n + 1 - j : tail(j)[i] = bytes[j + i - 1]
          BY <1>a, <3>1, <3>7
        <4>2. ASSUME NEW i \in 1..Len(tail(j)) PROVE tail(j)[i] = rest[i]
          <5>1. i \in 1..n + 1 - j /\ i \in 1..Len(rest) /\ i \in Nat
            BY <3>7, <4>1, <4>2
          <5>2. tail(k)[m + i] = rest[i]
            <6> HIDE DEF tail, j
            <6> QED
              BY <3>6, <5>1 DEF Concat, m
          <5>3. m + i \in 1..n + 1 - k /\ k + (m + i) - 1 = j + i - 1
            BY <1>0, <3>1, <3>5a, <3>7, <5>1
          <5>4. tail(k)[m + i] = bytes[k + (m + i) - 1]
            <6> HIDE DEF tail, j
            <6> QED
              BY <3>3, <5>3
          <5> HIDE DEF tail, j
          <5> QED
            BY <4>1, <5>1, <5>2, <5>3, <5>4
        <4> HIDE DEF tail, j
        <4> QED
          BY <3>7, <4>1, <4>2, SameIs
      <3> HIDE DEF j
      <3>13. f[j] = tail(j)
        <4> HIDE DEF tail, n
        <4> QED
          BY <1>3, <3>4, <3>7, <3>12
      <3>14. SubSeq(bytes, k, j - 1) \o SubSeq(bytes, j, n) = SubSeq(bytes, k, n)
        <4>1. k \in 1..Len(bytes) + 1 /\ j \in k..Len(bytes) + 1
          BY <1>0, <3>1, <3>7
        <4> QED
          BY <1>a, <4>1, Glue
      <3> QED
        BY <1>2, <3>1, <3>11, <3>13, <3>14
    <2> QED
      BY <2>1, <2>2
  <1>4. \A k \in 1..n + 1 : k \in S
    <2> HIDE DEF S
    <2> QED
      BY <1>0, <1>3, FromBack
  <1>5. 1 \in 1..n + 1 /\ tail(1) = bytes
    BY <1>0, <1>a
  <1>6. f[1] = tail(1)
    BY <1>4, <1>5
  <1> QED
    BY <1>1, <1>5, <1>6

-----------------------------------------------------------------------------
(* Decoding.                                                               *)

\* The ids that can be decoded, and what is held while they are.
Readable == {id \in Known : IsSpecial(id) \/ TokenBytes(id) \in Seq(Byte)}

\* What decoding has written, and the bytes it still holds.
Wells == {bytes \in Seq(Byte) : Well(bytes)}

Buffers == [raw : Seq(Byte), decoded : Wells]

Start == [raw |-> << >>, decoded |-> << >>]

\* A turn of the loop, as a step.
Turn(policy) == [b \in Buffers |-> [id \in Readable |-> Step(b, id, policy)]]

\* The buffers that a decoding has.
LEMMA BuffersIs ==
    /\ Start \in Buffers /\ Start.raw = << >> /\ Start.decoded = << >>
    /\ \A b \in Buffers : b.raw \in Seq(Byte) /\ b.decoded \in Wells
    /\ \A r \in Seq(Byte), d \in Wells :
         /\ [raw |-> r, decoded |-> d] \in Buffers
         /\ [raw |-> r, decoded |-> d].raw = r /\ [raw |-> r, decoded |-> d].decoded = d
  <1>1. << >> \in Wells
    BY WellEmpty DEF Wells
  <1> DEFINE U == Seq(Byte)
             W == Wells
  <1>2. << >> \in U
    OBVIOUS
  <1> HIDE DEF U, W
  <1>3. Start \in [raw : U, decoded : W] /\ Start.raw = << >> /\ Start.decoded = << >>
    BY <1>1, <1>2 DEF Start, W
  <1>4. \A b \in [raw : U, decoded : W] : b.raw \in U /\ b.decoded \in W
    OBVIOUS
  <1>5. \A r \in U, d \in W :
         /\ [raw |-> r, decoded |-> d] \in [raw : U, decoded : W]
         /\ [raw |-> r, decoded |-> d].raw = r /\ [raw |-> r, decoded |-> d].decoded = d
    OBVIOUS
  <1> QED
    BY <1>3, <1>4, <1>5, Zenon DEF Buffers, U, W

\* Well-formed bytes, and two of them together.
LEMMA WellsAre ==
    /\ \A b \in Wells : Well(b) /\ b \in Seq(Byte)
    /\ \A b : Well(b) => b \in Wells
    /\ \A a, b \in Wells : a \o b \in Wells
  <1>1. \A b : Well(b) => b \in Wells
    BY WellSeq, Zenon DEF Wells
  <1>2. \A b \in Wells : Well(b) /\ b \in Seq(Byte)
    BY Zenon DEF Wells
  <1>3. ASSUME NEW a \in Wells, NEW b \in Wells PROVE a \o b \in Wells
    BY <1>1, <1>2, WellConcat
  <1> QED
    BY <1>1, <1>2, <1>3

\* What a special token gives to the output is well-formed, whatever the policy.
LEMMA SpecialTextWell ==
    ASSUME NEW id \in Known, IsSpecial(id), NEW policy
    PROVE  SpecialText(id, policy) \in Wells
  <1> DEFINE s == id - BaseVocabulary + 1
  <1>1. s \in DOMAIN Special
    BY OrdinaryIs
  <1>2. SpecialOf(id) = Special[s]
    BY DEF SpecialOf
  <1> HIDE DEF s
  <1>3. SpecialOf(id).text \in Seq(Codes)
    BY <1>1, <1>2, SpecialIs
  <1>4. Bytes(SpecialOf(id).text) \in Wells
    BY <1>3, BytesWell, WellsAre
  <1>5. << >> \in Wells
    BY WellEmpty, WellsAre
  <1> QED
    BY <1>4, <1>5, Zenon DEF SpecialText

\* What a turn makes of the buffers.
LEMMA StepIs ==
    ASSUME NEW b \in Buffers, NEW id \in Readable, NEW policy
    PROVE  /\ Step(b, id, policy) \in Buffers
           /\ IsSpecial(id) =>
                /\ Step(b, id, policy).raw = << >>
                /\ Step(b, id, policy).decoded
                     = b.decoded \o Repaired(b.raw) \o SpecialText(id, policy)
           /\ ~IsSpecial(id) =>
                /\ Step(b, id, policy).raw = b.raw \o TokenBytes(id)
                /\ Step(b, id, policy).decoded = b.decoded
  <1>0. b.raw \in Seq(Byte) /\ b.decoded \in Wells /\ id \in Known
    BY BuffersIs, Zenon DEF Readable
  <1>1. CASE IsSpecial(id)
    <2> DEFINE d == b.decoded \o Repaired(b.raw) \o SpecialText(id, policy)
               r == << >>
    <2>1. Step(b, id, policy) = [raw |-> r, decoded |-> d]
      BY <1>1, Zenon DEF Step
    <2>2. Repaired(b.raw) \in Wells /\ SpecialText(id, policy) \in Wells
      BY <1>0, <1>1, RepairedWell, WellsAre, SpecialTextWell
    <2>3. d \in Wells
      <3>1. b.decoded \o Repaired(b.raw) \in Wells
        BY <1>0, <2>2, WellsAre
      <3> QED
        BY <2>2, <3>1, WellsAre
    <2>4. r \in Seq(Byte)
      OBVIOUS
    <2>5. d = b.decoded \o Repaired(b.raw) \o SpecialText(id, policy) /\ r = << >>
      OBVIOUS
    <2> HIDE DEF d, r
    <2>6. /\ [raw |-> r, decoded |-> d] \in Buffers
          /\ [raw |-> r, decoded |-> d].raw = r /\ [raw |-> r, decoded |-> d].decoded = d
      BY <2>3, <2>4, BuffersIs
    <2> QED
      BY ONLY <1>1, <2>1, <2>5, <2>6
  <1>2. CASE ~IsSpecial(id)
    <2> DEFINE r == b.raw \o TokenBytes(id)
               d == b.decoded
    <2>1. TokenBytes(id) \in Seq(Byte)
      BY <1>2, Zenon DEF Readable
    <2>2. r \in Seq(Byte)
      BY <1>0, <2>1
    <2>3. Step(b, id, policy) = [b EXCEPT !.raw = @ \o TokenBytes(id)]
      BY <1>2, Zenon DEF Step
    <2> DEFINE U == Seq(Byte)
               W == Wells
               x == b.raw
    <2>4. b \in [raw : U, decoded : W]
      BY DEF Buffers
    <2>5. r = x \o TokenBytes(id)
      OBVIOUS
    <2>6. r \in U
      BY <2>2
    <2> HIDE DEF U, W, r
    <2>7. /\ [b EXCEPT !.raw = r] \in [raw : U, decoded : W]
          /\ [b EXCEPT !.raw = r].raw = r /\ [b EXCEPT !.raw = r].decoded = b.decoded
      BY <2>4, <2>6
    <2>8. Step(b, id, policy) = [b EXCEPT !.raw = r]
      BY <2>3, <2>5, Zenon
    <2> QED
      BY <1>2, <2>5, <2>7, <2>8, Zenon DEF U, W, Buffers
  <1> QED
    BY <1>1, <1>2

\* A turn of the loop of decoding takes buffers to buffers.
LEMMA TurnIs ==
    ASSUME NEW policy
    PROVE  /\ FoldOver(Buffers, Readable, Turn(policy))
           /\ \A b \in Buffers, id \in Readable : Turn(policy)[b][id] = Step(b, id, policy)
  <1>1. \A b \in Buffers, id \in Readable : Step(b, id, policy) \in Buffers
    BY StepIs
  <1> DEFINE op == [b \in Buffers |-> [id \in Readable |-> Step(b, id, policy)]]
  <1>2. op \in [Buffers -> [Readable -> Buffers]]
    BY <1>1
  <1>3. \A b \in Buffers, id \in Readable : op[b][id] = Step(b, id, policy)
    OBVIOUS
  <1> QED
    BY <1>2, <1>3, Zenon DEF FoldOver, Turn

\* The decoder folds its turns over the ids.
LEMMA DecodedIs ==
    ASSUME NEW ids \in Seq(Readable), NEW policy
    PROVE  LET b == Folded(ids, Start, Turn(policy))
           IN  b \in Buffers /\ Decoded(ids, policy) = b.decoded \o Repaired(b.raw)
  <1> DEFINE n == Len(ids)
             b == Folded(ids, Start, Turn(policy))
             Body(f) == [k \in 0..n |->
                           IF k = 0 THEN [raw |-> << >>, decoded |-> << >>]
                           ELSE Step(f[k - 1], ids[k], policy)]
             F == CHOOSE f : f = Body(f)
  <1>0. n \in Nat
    OBVIOUS
  <1>1. PICK f : Partials(f, Buffers, ids, Start, Turn(policy))
    BY TurnIs, BuffersIs, FoldedIs
  <1>2. /\ f \in [0..n -> Buffers] /\ f[0] = Start /\ b = f[n]
        /\ \A k \in 1..n : f[k] = Turn(policy)[f[k - 1]][ids[k]]
    BY <1>1 DEF Partials
  <1> HIDE DEF b
  <1>3. f = Body(f)
    <2>1. ASSUME NEW k \in 0..n PROVE f[k] = Body(f)[k]
      <3>1. CASE k = 0
        BY <1>2, <3>1 DEF Start
      <3>2. CASE k # 0
        <4>1. k \in 1..n /\ k - 1 \in 0..n
          BY <1>0, <3>2
        <4>2. ids[k] \in Readable /\ f[k - 1] \in Buffers
          BY <1>2, <4>1
        <4>3. f[k] = Step(f[k - 1], ids[k], policy)
          BY <1>2, <4>1, <4>2, TurnIs
        <4>4. Body(f)[k] = Step(f[k - 1], ids[k], policy)
          BY <3>2, Zenon
        <4> QED
          BY <4>3, <4>4
      <3> QED
        BY <3>1, <3>2
    <2>2. f = [k \in 0..n |-> f[k]]
      BY <1>2
    <2>3. Body(f) = [k \in 0..n |-> Body(f)[k]]
      OBVIOUS
    <2> HIDE DEF Body
    <2> QED
      BY <2>1, <2>2, <2>3
  <1>4. F = Body(F)
    <2> HIDE DEF Body
    <2> QED
      BY <1>3
  <1>5. Decoded(ids, policy) = F[n].decoded \o Repaired(F[n].raw)
    BY Zenon DEF Decoded
  <1> HIDE DEF F
  <1>6. \A k \in 0..n : F[k] = IF k = 0 THEN [raw |-> << >>, decoded |-> << >>]
                               ELSE Step(F[k - 1], ids[k], policy)
    <2>1. ASSUME NEW k \in 0..n
          PROVE  Body(F)[k] = IF k = 0 THEN [raw |-> << >>, decoded |-> << >>]
                              ELSE Step(F[k - 1], ids[k], policy)
      BY Zenon
    <2> HIDE DEF Body
    <2> QED
      BY <1>4, <2>1
  <1>7. \A k \in 0..n : f[k] = IF k = 0 THEN [raw |-> << >>, decoded |-> << >>]
                               ELSE Step(f[k - 1], ids[k], policy)
    <2>1. ASSUME NEW k \in 0..n
          PROVE  Body(f)[k] = IF k = 0 THEN [raw |-> << >>, decoded |-> << >>]
                              ELSE Step(f[k - 1], ids[k], policy)
      BY Zenon
    <2> HIDE DEF Body
    <2> QED
      BY <1>3, <2>1
  <1> DEFINE S == {k \in Nat : k \in 0..n => F[k] = f[k]}
  <1> HIDE DEF n, Body
  <1>8. 0 \in S
    <2>1. 0 \in 0..n
      BY <1>0
    <2>2. F[0] = f[0]
      BY <1>6, <1>7, <2>1, Zenon
    <2> QED
      BY <2>2
  <1>9. ASSUME NEW k \in S PROVE k + 1 \in S
    <2>1. CASE k + 1 \in 0..n
      <3>1. k \in Nat /\ k \in 0..n /\ (k + 1) - 1 = k /\ k + 1 # 0
        <4>1. k \in Nat
          OBVIOUS
        <4> HIDE DEF S
        <4> QED
          BY <1>0, <2>1, <4>1
      <3>2. F[k] = f[k]
        BY <3>1
      <3> HIDE DEF S
      <3>3. F[k + 1] = Step(F[(k + 1) - 1], ids[k + 1], policy)
        BY <1>6, <2>1, <3>1
      <3>4. f[k + 1] = Step(f[(k + 1) - 1], ids[k + 1], policy)
        BY <1>7, <2>1, <3>1
      <3>5. F[k + 1] = f[k + 1]
        BY <3>1, <3>2, <3>3, <3>4
      <3> QED
        BY <3>1, <3>5 DEF S
    <2>2. CASE k + 1 \notin 0..n
      BY <2>2
    <2> QED
      BY <2>1, <2>2
  <1>10. S = Nat
    <2>1. S \in SUBSET Nat
      OBVIOUS
    <2> HIDE DEF S
    <2> QED
      BY <1>8, <1>9, <2>1, Inductive
  <1>11. n \in 0..n
    BY <1>0
  <1>12. F[n] = f[n] /\ f[n] \in Buffers
    BY <1>0, <1>2, <1>10, <1>11
  <1>13. b \in Buffers /\ Decoded(ids, policy) = b.decoded \o Repaired(b.raw)
    BY ONLY <1>2, <1>5, <1>12
  <1> QED
    BY <1>13 DEF b

\* Whatever ids are decoded, the bytes are those of code points.
LEMMA DecodedWell ==
    ASSUME NEW ids \in Seq(Readable), NEW policy
    PROVE  Decoded(ids, policy) \in Wells
  <1> DEFINE b == Folded(ids, Start, Turn(policy))
  <1>1. b \in Buffers /\ Decoded(ids, policy) = b.decoded \o Repaired(b.raw)
    BY DecodedIs
  <1> HIDE DEF b
  <1>2. b.raw \in Seq(Byte) /\ b.decoded \in Wells
    BY <1>1, BuffersIs
  <1>3. Repaired(b.raw) \in Wells
    BY <1>2, RepairedWell, WellsAre
  <1> QED
    BY <1>1, <1>2, <1>3, WellsAre

-----------------------------------------------------------------------------
(* Back from an encoding.                                                  *)

\* An encoder spells what it is given, in these words.
Encoder(e, words) ==
    /\ e \in [Seq(Codes) -> Seq(Ordinary)]
    /\ \A text \in Seq(Codes) : Spread(words, e[text]) = Bytes(Nfc9(text))

\* The ids, and the bytes, of a stretch and the special token behind it.
SegmentIds(e) ==
    [g \in SegmentSet(Codes) |->
       e[g.ordinary] \o IF g.special = 0 THEN << >> ELSE <<SpecialId(g.special)>>]

\* The bytes a segment is decoded to.
SegmentBytes ==
    [g \in SegmentSet(Codes) |->
       Bytes(Nfc9(g.ordinary))
         \o IF g.special = 0 THEN << >> ELSE Bytes(Special[g.special].text)]

\* What the buffers hold once bytes have been decoded.
Holds(b, out) == b \in Buffers /\ Well(b.raw) /\ b.decoded \o b.raw = out

\* Sequences of numbers of some kind are sequences of numbers.
LEMMA NumbersAre ==
    ASSUME NEW X, X \subseteq Nat
    PROVE  Seq(X) \subseteq Seq(Nat)
  <1> DEFINE N == Nat
  <1>1. X \subseteq N
    OBVIOUS
  <1> HIDE DEF N
  <1>2. ASSUME NEW s \in Seq(X) PROVE s \in Seq(N)
    <2>1. ASSUME NEW k \in 1..Len(s) PROVE s[k] \in N
      <3>1. s[k] \in X
        OBVIOUS
      <3> QED
        BY <1>1, <3>1, Zenon
    <2>2. Len(s) \in Nat /\ s = [k \in 1..Len(s) |-> s[k]]
      OBVIOUS
    <2> QED
      BY <2>1, <2>2
  <1> QED
    BY <1>2 DEF N

\* Both parts of a readable sequence are readable.
LEMMA ReadableParts ==
    ASSUME NEW A, NEW R, NEW a \in Seq(A), NEW b \in Seq(A), a \o b \in Seq(R)
    PROVE  a \in Seq(R) /\ b \in Seq(R)
  <1> DEFINE c == a \o b
  <1>0. c \in Seq(R)
    OBVIOUS
  <1>1. Concat(c, a, b)
    BY ConcatIs
  <1> HIDE DEF c
  <1>2. ASSUME NEW k \in 1..Len(a) PROVE a[k] \in R
    <2>1. a[k] = c[k] /\ k \in 1..Len(c)
      BY <1>1 DEF Concat
    <2> QED
      BY <1>0, <2>1
  <1>3. ASSUME NEW k \in 1..Len(b) PROVE b[k] \in R
    <2>1. b[k] = c[Len(a) + k] /\ Len(a) + k \in 1..Len(c)
      BY <1>1 DEF Concat
    <2> QED
      BY <1>0, <2>1
  <1> QED
    BY <1>2, <1>3

\* Ordinary ids are gathered.
LEMMA OrdinaryGathered ==
    ASSUME Spelling, NEW b \in Buffers, NEW policy,
           NEW ids \in Seq(Readable \cap Ordinary)
    PROVE  LET c == Folded(ids, b, Turn(policy))
           IN  /\ c \in Buffers /\ c.decoded = b.decoded
               /\ c.raw = b.raw \o Spread(Texts, ids)
  <1> DEFINE A == Readable \cap Ordinary
             op == Turn(policy)
             F(s) == Folded(s, b, op)
             S == {s \in Seq(A) : /\ F(s) \in Buffers /\ F(s).decoded = b.decoded
                                  /\ F(s).raw = b.raw \o Spread(Texts, s)}
  <1>0. FoldOver(Buffers, Readable, op) /\ A \subseteq Readable /\ A \subseteq Known
    BY TurnIs, Zenon DEF Readable
  <1> DEFINE E == 0..256
             B == Byte
  <1>b. Gives(Texts, Known, E)
    BY WordsAre
  <1>c. b.raw \in Seq(B)
    BY BuffersIs
  <1>e. E \subseteq Nat /\ B \subseteq Nat
    BY DEF Byte
  <1> HIDE DEF E, B
  <1>d. \A s \in Seq(A) : s \in Seq(Readable) /\ s \in Seq(Known)
    <2> HIDE DEF A
    <2> QED
      BY <1>0
  <1> HIDE DEF A, op
  <1>1. << >> \in S
    <2>1. F(<< >>) = b
      BY <1>0, FoldedEmpty
    <2> DEFINE e == << >>
    <2>2. e \in Seq(Known) /\ e \in Seq(A)
      OBVIOUS
    <2> HIDE DEF e
    <2>3. Spread(Texts, << >>) = << >>
      BY ONLY <1>b, <2>2, SpreadIs
    <2>4. b.raw \o << >> = b.raw
      BY <1>c
    <2> HIDE DEF F
    <2> QED
      BY <2>1, <2>2, <2>3, <2>4 DEF e
  <1>2. ASSUME NEW s \in Seq(A), s \in S, NEW a \in A PROVE s \o <<a>> \in S
    <2>0. s \in Seq(Readable) /\ s \in Seq(Known) /\ a \in Readable /\ a \in Known
      BY <1>0, <1>d
    <2>1. /\ F(s) \in Buffers /\ F(s).decoded = b.decoded
          /\ F(s).raw = b.raw \o Spread(Texts, s)
      BY <1>2
    <2>2. F(s \o <<a>>) = Step(F(s), a, policy)
      <3>1. Append(s, a) = s \o <<a>>
        BY <2>0
      <3>2. F(Append(s, a)) = op[F(s)][a]
        BY <1>0, <2>0, FoldedAppend
      <3> HIDE DEF F
      <3> QED
        BY <2>0, <2>1, <3>1, <3>2, TurnIs DEF op
    <2>3. ~IsSpecial(a)
      <3>1. a \in Ordinary
        BY DEF A
      <3> QED
        BY <2>0, <3>1, OrdinaryIs
    <2>4. TokenBytes(a) = Texts[a] /\ Texts[a] \in Seq(E)
      <3>1. Texts[a] = TokenBytes(a)
        BY <2>0, Zenon DEF Texts
      <3> QED
        BY <1>b, <2>0, <3>1 DEF Gives
    <2>5. Spread(Texts, s \o <<a>>) = Spread(Texts, s) \o Texts[a]
      BY <1>b, <2>0, SpreadAppend, SMTT(30)
    <2>6. Spread(Texts, s) \in Seq(E)
      BY <1>b, <2>0, SpreadIs
    <2> DEFINE c == F(s)
    <2>a. c \in Buffers /\ F(s \o <<a>>) = Step(c, a, policy) /\ c = F(s)
      BY <2>1, <2>2
    <2> HIDE DEF c
    <2>b. /\ Step(c, a, policy) \in Buffers
          /\ Step(c, a, policy).raw = c.raw \o TokenBytes(a)
          /\ Step(c, a, policy).decoded = c.decoded
      BY <2>a, <2>0, <2>3, StepIs
    <2> HIDE DEF F
    <2>7. /\ F(s \o <<a>>) \in Buffers /\ F(s \o <<a>>).decoded = b.decoded
          /\ F(s \o <<a>>).raw = F(s).raw \o TokenBytes(a)
      BY ONLY <2>1, <2>a, <2>b
    <2>8. (b.raw \o Spread(Texts, s)) \o Texts[a] = b.raw \o (Spread(Texts, s) \o Texts[a])
      <3> DEFINE x == b.raw
                 y == Spread(Texts, s)
                 z == Texts[a]
      <3>1. x \in Seq(Nat) /\ y \in Seq(Nat) /\ z \in Seq(Nat)
        BY ONLY <1>c, <1>e, NumbersAre, <2>4, <2>6
      <3> HIDE DEF x, y, z
      <3>2. (x \o y) \o z = x \o (y \o z)
        BY <3>1, ConcatAssociative
      <3> QED
        BY <3>2 DEF x, y, z
    <2>9. s \o <<a>> \in Seq(A)
      OBVIOUS
    <2> QED
      BY ONLY <2>1, <2>4, <2>5, <2>7, <2>8, <2>9
  <1>3. Seq(A) \subseteq S
    <2> HIDE DEF S
    <2> QED
      BY <1>1, <1>2, ByPrefix
  <1>4. ids \in Seq(A)
    BY DEF A
  <1>5. ids \in S
    BY <1>3, <1>4
  <1> QED
    BY <1>5 DEF op

\* A stretch and the special token behind it give their bytes.
LEMMA SegmentDecoded ==
    ASSUME Spelling, NEW e, Encoder(e, Texts), NEW g \in SegmentSet(Codes),
           NEW b, NEW out, Holds(b, out),
           SegmentIds(e)[g] \in Seq(Readable)
    PROVE  Holds(Folded(SegmentIds(e)[g], b, Turn("KEEP")), out \o SegmentBytes[g])
  <1> DEFINE op == Turn("KEEP")
             ids == e[g.ordinary]
             text == Bytes(Nfc9(g.ordinary))
             last == IF g.special = 0 THEN << >> ELSE <<SpecialId(g.special)>>
             kept == IF g.special = 0 THEN << >> ELSE Bytes(Special[g.special].text)
  <1>1. SegmentIds(e)[g] = ids \o last /\ SegmentBytes[g] = text \o kept
    BY Zenon DEF SegmentIds, SegmentBytes
  <1>2. g.ordinary \in Seq(Codes) /\ g.special \in 0..Len(Special)
    <2> DEFINE U == Seq(Codes)
    <2> HIDE DEF U
    <2>1. \A h \in [ordinary : U, special : 0..Len(Special)] :
            h.ordinary \in U /\ h.special \in 0..Len(Special)
      OBVIOUS
    <2> QED
      BY <2>1, Zenon DEF SegmentSet, U
  <1>3. /\ ids \in Seq(Ordinary) /\ Spread(Texts, ids) = text
        /\ Nfc9(g.ordinary) \in Seq(Codes)
    BY <1>2, NfcIs DEF Encoder
  <1>4. Well(text) /\ text \in Seq(Byte)
    BY <1>3, BytesWell, WellSeq
  <1>5. BaseVocabulary \in Nat /\ Len(Special) \in Nat /\ TokenizerLength = BaseVocabulary + Len(Special)
    BY VocabularyAssumption DEF TokenizerLength
  <1>6. g.special # 0 =>
          /\ SpecialId(g.special) \in Known /\ IsSpecial(SpecialId(g.special))
          /\ SpecialOf(SpecialId(g.special)) = Special[g.special]
    <2> SUFFICES ASSUME g.special # 0
                 PROVE  /\ SpecialId(g.special) \in Known /\ IsSpecial(SpecialId(g.special))
                        /\ SpecialOf(SpecialId(g.special)) = Special[g.special]
      OBVIOUS
    <2> DEFINE s == g.special
               id == SpecialId(s)
    <2>1. s \in 1..Len(Special)
      BY <1>2, <1>5
    <2> HIDE DEF s
    <2>2. id = BaseVocabulary + s - 1
      BY DEF SpecialId
    <2> HIDE DEF id
    <2>3. id \in 0..TokenizerLength - 1 /\ id \in BaseVocabulary..TokenizerLength - 1
          /\ id - BaseVocabulary + 1 = s
      BY <1>5, <2>1, <2>2
    <2> QED
      BY <2>3 DEF Known, IsSpecial, SpecialOf, id, s
  <1>7. /\ b \in Buffers /\ Well(b.raw) /\ b.decoded \o b.raw = out
        /\ b.raw \in Seq(Byte) /\ b.decoded \in Seq(Byte) /\ b.decoded \in Wells
    <2>1. b \in Buffers /\ Well(b.raw) /\ b.decoded \o b.raw = out
      BY DEF Holds
    <2> QED
      BY <2>1, BuffersIs, WellsAre
  <1> HIDE DEF op, ids, text, last, kept
  <1>8. last \in Seq(Known)
    <2>1. CASE g.special = 0
      <3>1. last = << >>
        BY <2>1, Zenon DEF last
      <3> QED
        BY <3>1
    <2>2. CASE g.special # 0
      <3>1. last = <<SpecialId(g.special)>>
        BY <2>2, Zenon DEF last
      <3> QED
        BY <1>6, <2>2, <3>1
    <2> QED
      BY <2>1, <2>2
  <1>9. ids \in Seq(Readable) /\ last \in Seq(Readable)
    <2>1. ids \in Seq(Known)
      <3>1. Ordinary \subseteq Known
        BY OrdinaryIs
      <3> QED
        BY <1>3, <3>1
    <2>2. ids \o last \in Seq(Readable)
      BY <1>1
    <2> QED
      BY <1>8, <2>1, <2>2, ReadableParts
  <1>10. ids \in Seq(Readable \cap Ordinary)
    <2>1. \A k \in 1..Len(ids) : ids[k] \in Readable \cap Ordinary
      BY <1>3, <1>9
    <2> QED
      BY <1>3, <2>1
  <1> DEFINE c == Folded(ids, b, op)
  <1>11. /\ c \in Buffers /\ c.decoded = b.decoded
         /\ c.raw = b.raw \o text
    BY <1>3, <1>7, <1>10, OrdinaryGathered DEF op
  <1>12. FoldOver(Buffers, Readable, op)
    BY TurnIs DEF op
  <1>13. Folded(SegmentIds(e)[g], b, op) = Folded(last, c, op)
    <2>1. Folded(ids \o last, b, op) = Folded(last, Folded(ids, b, op), op)
      BY ONLY <1>7, <1>9, <1>12, FoldedConcat
    <2> QED
      BY <1>1, <2>1
  <1> HIDE DEF c
  <1>14. Holds(c, out \o text)
    <2>1. Well(c.raw)
      BY <1>4, <1>7, <1>11, WellConcat
    <2>2. (b.decoded \o b.raw) \o text = b.decoded \o (b.raw \o text)
      <3> DEFINE x == b.decoded
                 y == b.raw
                 B == Byte
      <3>1. x \in Seq(B) /\ y \in Seq(B) /\ text \in Seq(B)
        BY <1>4, <1>7
      <3> HIDE DEF x, y, B
      <3>2. (x \o y) \o text = x \o (y \o text)
        BY <3>1, ConcatAssociative
      <3> QED
        BY <3>2 DEF x, y
    <2> QED
      BY <1>7, <1>11, <2>1, <2>2 DEF Holds
  <1>15. CASE g.special = 0
    <2>1. last = << >> /\ kept = << >>
      BY <1>15, Zenon DEF last, kept
    <2>2. Folded(last, c, op) = c
      <3>1. Folded(<< >>, c, op) = c
        BY <1>11, <1>12, FoldedEmpty
      <3> QED
        BY <2>1, <3>1
    <2>3. SegmentBytes[g] = text
      <3>1. text \o << >> = text
        BY <1>4
      <3> QED
        BY <1>1, <2>1, <3>1
    <2> QED
      BY <1>13, <1>14, <2>2, <2>3 DEF op
  <1>16. CASE g.special # 0
    <2> DEFINE id == SpecialId(g.special)
               d == Folded(last, c, op)
    <2>1. last = <<id>> /\ kept = Bytes(Special[g.special].text)
      BY <1>16, Zenon DEF last, kept
    <2>2. id \in Known /\ IsSpecial(id) /\ SpecialOf(id) = Special[g.special]
      BY <1>6, <1>16
    <2> HIDE DEF id
    <2>3. id \in Readable
      BY <2>2, Zenon DEF Readable
    <2>4. d = Step(c, id, "KEEP")
      <3> DEFINE z == << >>
      <3>1. z \in Seq(Readable) /\ Append(z, id) = <<id>>
        BY <2>3
      <3>2. Folded(z, c, op) = c
        BY <1>11, <1>12, FoldedEmpty
      <3> HIDE DEF z
      <3>3. Folded(Append(z, id), c, op) = op[Folded(z, c, op)][id]
        <4>1. c \in Buffers /\ z \in Seq(Readable)
          BY <1>11, <3>1
        <4> QED
          BY ONLY <1>12, <2>3, <4>1, FoldedAppend
      <3>4. op[c][id] = Step(c, id, "KEEP")
        BY <1>11, <2>3, TurnIs DEF op
      <3> QED
        BY <2>1, <3>1, <3>2, <3>3, <3>4
    <2>5. SpecialText(id, "KEEP") = kept
      <3>1. "KEEP" # "SKIP"
        OBVIOUS
      <3> QED
        BY <2>1, <2>2, <3>1, Zenon DEF SpecialText
    <2>6. Repaired(c.raw) = c.raw
      BY <1>14, RepairedSame DEF Holds
    <2> HIDE DEF d
    <2>7. d \in Buffers /\ d.raw = << >> /\ d.decoded = c.decoded \o c.raw \o kept
      <3>1. /\ Step(c, id, "KEEP") \in Buffers /\ Step(c, id, "KEEP").raw = << >>
            /\ Step(c, id, "KEEP").decoded
                 = c.decoded \o Repaired(c.raw) \o SpecialText(id, "KEEP")
        <4>1. c \in Buffers
          BY <1>11
        <4> QED
          BY ONLY <2>2, <2>3, <4>1, StepIs
      <3> QED
        BY ONLY <2>4, <2>5, <2>6, <3>1
    <2>8. d.decoded \in Seq(Byte)
      BY <2>7, BuffersIs, WellsAre
    <2>9. d.decoded \o d.raw = d.decoded
      BY <2>7, <2>8
    <2>10. c.decoded \o c.raw = out \o text
      BY <1>14 DEF Holds
    <2>11. (out \o text) \o kept = out \o (text \o kept)
      <3>1. out \in Seq(Byte)
        BY <1>7, WellsAre, WellConcat, WellSeq
      <3>2. kept \in Seq(Byte)
        <4>1. SpecialText(id, "KEEP") \in Wells
          BY <2>2, SpecialTextWell
        <4> QED
          BY <2>5, <4>1, WellsAre
      <3> DEFINE B == Byte
      <3> HIDE DEF B
      <3> QED
        BY <1>4, <3>1, <3>2, ConcatAssociative DEF B
    <2>12. Holds(d, out \o SegmentBytes[g])
      <3>1. Well(d.raw)
        BY <2>7, WellEmpty
      <3> QED
        BY <1>1, <2>7, <2>9, <2>10, <2>11, <3>1 DEF Holds
    <2> QED
      BY <1>13, <2>12 DEF d, op
  <1> QED
    BY <1>15, <1>16

\* Both are sequences, for every segment.
LEMMA SegmentGives ==
    ASSUME NEW e, NEW words, Encoder(e, words)
    PROVE  /\ Gives(SegmentIds(e), SegmentSet(Codes), Known)
           /\ Gives(SegmentBytes, SegmentSet(Codes), Byte)
  <1> DEFINE G == SegmentSet(Codes)
  <1>1. ASSUME NEW g \in G
        PROVE  SegmentIds(e)[g] \in Seq(Known) /\ SegmentBytes[g] \in Seq(Byte)
    <2> DEFINE ids == e[g.ordinary]
               text == Bytes(Nfc9(g.ordinary))
               last == IF g.special = 0 THEN << >> ELSE <<SpecialId(g.special)>>
               kept == IF g.special = 0 THEN << >> ELSE Bytes(Special[g.special].text)
    <2>1. SegmentIds(e)[g] = ids \o last /\ SegmentBytes[g] = text \o kept
      BY Zenon DEF SegmentIds, SegmentBytes
    <2>2. g.ordinary \in Seq(Codes) /\ g.special \in 0..Len(Special)
      <3> DEFINE U == Seq(Codes)
      <3> HIDE DEF U
      <3>1. \A h \in [ordinary : U, special : 0..Len(Special)] :
              h.ordinary \in U /\ h.special \in 0..Len(Special)
        OBVIOUS
      <3> QED
        BY <3>1, Zenon DEF SegmentSet, U
    <2>3. ids \in Seq(Ordinary) /\ Nfc9(g.ordinary) \in Seq(Codes)
      BY <2>2, NfcIs DEF Encoder
    <2>4. text \in Seq(Byte)
      BY <2>3, BytesWell, WellSeq
    <2>5. ids \in Seq(Known)
      <3>1. Ordinary \subseteq Known
        BY OrdinaryIs
      <3> QED
        BY <2>3, <3>1
    <2> HIDE DEF ids, text, last, kept
    <2>6. CASE g.special = 0
      <3>1. last = << >> /\ kept = << >>
        BY <2>6, Zenon DEF last, kept
      <3>2. ids \o << >> = ids /\ text \o << >> = text
        BY <2>4, <2>5
      <3> QED
        BY <2>1, <2>4, <2>5, <3>1, <3>2
    <2>7. CASE g.special # 0
      <3> DEFINE id == SpecialId(g.special)
                 own == Bytes(Special[g.special].text)
      <3>1. last = <<id>> /\ kept = own
        BY <2>7, Zenon DEF last, kept
      <3>2. BaseVocabulary \in Nat /\ Len(Special) \in Nat
            /\ TokenizerLength = BaseVocabulary + Len(Special)
        BY VocabularyAssumption DEF TokenizerLength
      <3>3. g.special \in 1..Len(Special) /\ id = BaseVocabulary + g.special - 1
        BY <2>2, <2>7, <3>2 DEF SpecialId
      <3> HIDE DEF id
      <3>4. id \in Known
        BY <3>2, <3>3 DEF Known
      <3>5. g.special \in DOMAIN Special
        BY <3>2, <3>3, VocabularyAssumption
      <3>6. own \in Seq(Byte)
        BY <3>5, SpecialIs, BytesWell, WellSeq
      <3> HIDE DEF own
      <3>7. last \in Seq(Known) /\ kept \in Seq(Byte)
        BY <3>1, <3>4, <3>6
      <3> DEFINE K == Known
                 B == Byte
      <3>8. ids \in Seq(K) /\ last \in Seq(K) /\ text \in Seq(B) /\ kept \in Seq(B)
        BY <2>4, <2>5, <3>7
      <3> HIDE DEF K, B
      <3>9. ids \o last \in Seq(K) /\ text \o kept \in Seq(B)
        BY <3>8
      <3> QED
        BY <2>1, <3>9 DEF K, B
    <2> QED
      BY <2>6, <2>7
  <1>2. Gives(SegmentIds(e), G, Known) /\ Gives(SegmentBytes, G, Byte)
    <2>1. /\ SegmentIds(e) = [g \in G |-> SegmentIds(e)[g]]
          /\ SegmentBytes = [g \in G |-> SegmentBytes[g]]
      BY Zenon DEF SegmentIds, SegmentBytes
    <2> HIDE DEF G
    <2> QED
      BY <1>1, <2>1 DEF Gives
  <1> QED
    BY <1>2

\* An encoding decodes to the normal form of its text.
LEMMA EncodingDecoded ==
    ASSUME Spelling, NEW e, Encoder(e, Texts), NEW segments \in Seq(SegmentSet(Codes)),
           Spread(SegmentIds(e), segments) \in Seq(Readable)
    PROVE  Decoded(Spread(SegmentIds(e), segments), "KEEP") = Spread(SegmentBytes, segments)
  <1> DEFINE G == SegmentSet(Codes)
             op == Turn("KEEP")
             F(s) == Folded(Spread(SegmentIds(e), s), Start, op)
             S == {s \in Seq(G) : Spread(SegmentIds(e), s) \in Seq(Readable) =>
                                     Holds(F(s), Spread(SegmentBytes, s))}
  <1>2. Gives(SegmentIds(e), G, Known) /\ Gives(SegmentBytes, G, Byte)
    BY SegmentGives, Zenon
  <1>3. FoldOver(Buffers, Readable, op)
    BY TurnIs
  <1>4. Start \in Buffers /\ Start.raw = << >> /\ Start.decoded = << >>
    BY BuffersIs
  <1> HIDE DEF G, op
  <1>5. << >> \in S
    <2> DEFINE z == << >>
    <2>1. z \in Seq(G)
      OBVIOUS
    <2> HIDE DEF z
    <2>2. Spread(SegmentIds(e), << >>) = << >> /\ Spread(SegmentBytes, << >>) = << >>
      BY <1>2, <2>1, SpreadIs
    <2>3. Folded(<< >>, Start, op) = Start
      BY ONLY <1>3, <1>4, FoldedEmpty
    <2>4. Holds(Start, << >>)
      <3>1. Start.decoded \o Start.raw = << >>
        BY <1>4
      <3> QED
        BY <1>4, <3>1, WellEmpty DEF Holds
    <2>5. F(<< >>) = Start
      BY <2>2, <2>3
    <2> HIDE DEF F
    <2> QED
      BY <2>1, <2>2, <2>4, <2>5 DEF z
  <1>6. ASSUME NEW s \in Seq(G), s \in S, NEW g \in G PROVE s \o <<g>> \in S
    <2> DEFINE a == Spread(SegmentIds(e), s)
               t == s \o <<g>>
    <2> DEFINE x == SegmentIds(e)
               y == SegmentBytes
    <2>0. Gives(x, G, Known) /\ Gives(y, G, Byte) /\ s \in Seq(G) /\ g \in G
      BY <1>2
    <2> HIDE DEF x, y
    <2>a. Spread(x, s \o <<g>>) = Spread(x, s) \o x[g]
      BY ONLY <2>0, SpreadAppend, ZenonT(40)
    <2>b. Spread(y, s \o <<g>>) = Spread(y, s) \o y[g]
      BY ONLY <2>0, SpreadAppend, ZenonT(40)
    <2>1. Spread(SegmentIds(e), t) = a \o SegmentIds(e)[g]
      BY <2>a DEF x
    <2>2. Spread(SegmentBytes, t) = Spread(SegmentBytes, s) \o SegmentBytes[g]
      BY <2>b DEF y
    <2>3. a \in Seq(Known) /\ SegmentIds(e)[g] \in Seq(Known)
      <3>1. SegmentIds(e)[g] \in Seq(Known)
        BY <1>2 DEF Gives
      <3> QED
        BY <1>2, <3>1, SpreadIs
    <2>4. t \in Seq(G)
      OBVIOUS
    <2>5. ASSUME Spread(SegmentIds(e), t) \in Seq(Readable)
          PROVE  Holds(F(t), Spread(SegmentBytes, t))
      <3>1. a \in Seq(Readable) /\ SegmentIds(e)[g] \in Seq(Readable)
        <4> HIDE DEF a, t
        <4> QED
          BY <2>1, <2>3, <2>5, ReadableParts
      <3>2. Holds(F(s), Spread(SegmentBytes, s))
        BY <1>6, <3>1
      <3>3. Holds(Folded(SegmentIds(e)[g], F(s), op), Spread(SegmentBytes, s) \o SegmentBytes[g])
        <4> HIDE DEF F
        <4> QED
          BY <3>1, <3>2, SegmentDecoded DEF op, G
      <3> HIDE DEF a, t
      <3>4. Folded(a \o SegmentIds(e)[g], Start, op) = Folded(SegmentIds(e)[g], Folded(a, Start, op), op)
        BY ONLY <1>3, <1>4, <3>1, FoldedConcat
      <3>5. F(t) = Folded(SegmentIds(e)[g], F(s), op)
        BY <2>1, <3>4 DEF a
      <3> HIDE DEF F
      <3> QED
        BY <2>2, <3>3, <3>5
    <2> HIDE DEF F, t
    <2> QED
      BY <2>4, <2>5 DEF t
  <1>7. Seq(G) \subseteq S
    <2> HIDE DEF S
    <2> QED
      BY <1>5, <1>6, ByPrefix
  <1> DEFINE ids == Spread(SegmentIds(e), segments)
             b == Folded(ids, Start, op)
  <1>8. Holds(b, Spread(SegmentBytes, segments))
    <2>1. segments \in Seq(G)
      BY DEF G
    <2>2. segments \in S
      BY <1>7, <2>1
    <2> QED
      BY <2>2
  <1>9. b \in Buffers /\ Decoded(ids, "KEEP") = b.decoded \o Repaired(b.raw)
    BY DecodedIs DEF op
  <1> HIDE DEF b, ids
  <1>10. Repaired(b.raw) = b.raw /\ b.decoded \o b.raw = Spread(SegmentBytes, segments)
    BY <1>8, RepairedSame DEF Holds
  <1> QED
    BY <1>9, <1>10 DEF ids

-----------------------------------------------------------------------------
(* What the calls are given.                                               *)

\* Checks that refuse nothing all hold.
LEMMA NothingRefused ==
    ASSUME NEW n \in Nat, NEW checks, DOMAIN checks = 1..n,
           \A c \in 1..n : checks[c][2] # "OK", FirstRefusal(checks) = "OK"
    PROVE  \A c \in 1..n : checks[c][1]
  <1> DEFINE failed == {c \in DOMAIN checks : ~checks[c][1]}
             first == CHOOSE c \in failed : \A d \in failed : c <= d
  <1>1. SUFFICES ASSUME failed # {} PROVE FALSE
    OBVIOUS
  <1>2. \E c \in failed : \A d \in failed : c <= d
    <2>1. failed \in SUBSET Nat
      OBVIOUS
    <2> HIDE DEF failed
    <2> QED
      BY <2>1, <1>1, Least
  <1>3. first \in failed
    <2> HIDE DEF failed
    <2> QED
      BY <1>2
  <1>4. FirstRefusal(checks) = checks[first][2]
    BY <1>1, Zenon DEF FirstRefusal
  <1>5. first \in 1..n
    BY <1>3
  <1> HIDE DEF first
  <1> QED
    BY <1>4, <1>5

\* UTF-8 has nothing that is no code point.
LEMMA Utf8Codes ==
    ASSUME NEW text \in Seq(Points), IsUtf8(text)
    PROVE  text \in Seq(Codes)
  <1>1. ASSUME NEW k \in 1..Len(text) PROVE text[k] \in Codes
    <2>1. text[k] \in Points /\ text[k] # NotUtf8
      BY DEF IsUtf8
    <2> QED
      BY <2>1, Zenon DEF Points
  <1>2. Len(text) \in Nat /\ text = [k \in 1..Len(text) |-> text[k]]
    OBVIOUS
  <1> QED
    BY <1>1, <1>2

\* Code points are a text.
LEMMA CodesAreText ==
    ASSUME NEW text \in Seq(Codes)
    PROVE  text \in Seq(Points)
  <1>1. ASSUME NEW k \in 1..Len(text) PROVE text[k] \in Points
    <2>1. text[k] \in Codes
      OBVIOUS
    <2> QED
      BY <2>1, Zenon DEF Points
  <1>2. Len(text) \in Nat /\ text = [k \in 1..Len(text) |-> text[k]]
    OBVIOUS
  <1> QED
    BY <1>1, <1>2

\* A text that is encoded is UTF-8 between its special tokens.
LEMMA EncodeAccepts ==
    ASSUME NEW text \in Seq(Points), NEW policy, EncodeRefusal(text, policy) = "OK"
    PROVE  Segments(text) \in Seq(SegmentSet(Codes))
  <1> DEFINE segments == Segments(text)
             n == 2 * Len(segments)
             checks == [c \in 1..n |->
                          LET segment == segments[(c + 1) \div 2]
                          IN  IF c % 2 = 1
                                THEN <<IsUtf8(segment.ordinary), "INVALID_UTF8">>
                                ELSE <<segment.special = 0 \/ policy = "RECOGNIZE",
                                       "UNSUPPORTED_TOKENIZER_OPTION">>]
  <1>1. segments \in Seq(SegmentSet(Points))
    BY SegmentsAre
  <1>2. FirstRefusal(checks) = "OK"
    <2>1. EncodeRefusal(text, policy)
            = IF Utf8Length(text) > MaxInput THEN "LIMIT_EXCEEDED" ELSE FirstRefusal(checks)
      BY Zenon DEF EncodeRefusal
    <2>2. "LIMIT_EXCEEDED" # "OK"
      OBVIOUS
    <2> HIDE DEF checks
    <2> QED
      BY <2>1, <2>2
  <1> HIDE DEF segments
  <1>3. Len(segments) \in Nat /\ n \in Nat
    BY <1>1
  <1>4. ASSUME NEW c \in 1..n PROVE checks[c][2] # "OK"
    <2>1. CASE c % 2 = 1
      <3>1. checks[c] = <<IsUtf8(segments[(c + 1) \div 2].ordinary), "INVALID_UTF8">>
        BY <2>1, Zenon
      <3> HIDE DEF checks
      <3> QED
        BY <3>1
    <2>2. CASE c % 2 # 1
      <3>1. checks[c] = <<segments[(c + 1) \div 2].special = 0 \/ policy = "RECOGNIZE",
                          "UNSUPPORTED_TOKENIZER_OPTION">>
        BY <2>2, Zenon
      <3> HIDE DEF checks
      <3> QED
        BY <3>1
    <2> QED
      BY <2>1, <2>2
  <1>5. \A c \in 1..n : checks[c][1]
    <2>1. DOMAIN checks = 1..n
      OBVIOUS
    <2> HIDE DEF checks, n
    <2> QED
      BY <1>2, <1>3, <1>4, <2>1, NothingRefused
  <1>6. ASSUME NEW k \in 1..Len(segments) PROVE segments[k] \in SegmentSet(Codes)
    <2> DEFINE c == 2 * k - 1
               g == segments[k]
    <2>1. c \in 1..n /\ c % 2 = 1 /\ (c + 1) \div 2 = k
      BY <1>3
    <2> HIDE DEF c
    <2>2. checks[c] = <<IsUtf8(g.ordinary), "INVALID_UTF8">>
      BY <2>1, Zenon
    <2> HIDE DEF checks, n
    <2>3. IsUtf8(g.ordinary)
      BY <1>5, <2>1, <2>2
    <2> DEFINE U == Seq(Points)
               W == Seq(Codes)
               Z == 0..Len(Special)
    <2>4. g \in [ordinary : U, special : Z]
      <3>1. g \in SegmentSet(Points)
        BY <1>1
      <3> QED
        BY <3>1, Zenon DEF SegmentSet
    <2> HIDE DEF g, U, W, Z
    <2>5. g.ordinary \in U /\ g.special \in Z /\ g = [ordinary |-> g.ordinary, special |-> g.special]
      BY <2>4
    <2>6. g.ordinary \in W
      BY <2>3, <2>5, Utf8Codes DEF U, W
    <2>7. g \in [ordinary : W, special : Z]
      BY <2>5, <2>6
    <2> QED
      BY <2>7, Zenon DEF SegmentSet, W, Z, g
  <1>7. segments \in Seq(SegmentSet(Codes))
    <2> DEFINE G == SegmentSet(Codes)
               H == SegmentSet(Points)
    <2> HIDE DEF G, H
    <2>1. Len(segments) \in Nat /\ segments = [k \in 1..Len(segments) |-> segments[k]]
      BY <1>1 DEF H
    <2>2. \A k \in 1..Len(segments) : segments[k] \in G
      BY <1>6 DEF G
    <2>3. segments \in Seq(G)
      BY <2>1, <2>2
    <2> QED
      BY <2>3 DEF G
  <1> QED
    BY <1>7 DEF segments

\* Ids that are decoded are readable.
LEMMA DecodeAccepts ==
    ASSUME Spelling, NEW ids \in Seq(Nat), DecodeRefusal(ids) = "OK"
    PROVE  ids \in Seq(Readable)
  <1> DEFINE n == 2 * Len(ids)
             known(id) == id < TokenizerLength
             readable(id) == IsSpecial(id) \/ id >= TokenizerLength
                               \/ \A k \in DOMAIN TokenBytes(id) : TokenBytes(id)[k] # 256
             checks == [c \in 1..n |->
                          LET id == ids[(c + 1) \div 2]
                          IN  IF c % 2 = 1 THEN <<known(id), "INVALID_TOKEN_ID">>
                              ELSE <<readable(id), "INCOMPATIBLE_TOKENIZER">>]
  <1>2. FirstRefusal(checks) = "OK"
    BY Zenon DEF DecodeRefusal
  <1>3. Len(ids) \in Nat /\ n \in Nat
    OBVIOUS
  <1> HIDE DEF readable, known
  <1>4. ASSUME NEW c \in 1..n PROVE checks[c][2] # "OK"
    <2>1. CASE c % 2 = 1
      <3>1. checks[c] = <<known(ids[(c + 1) \div 2]), "INVALID_TOKEN_ID">>
        BY <2>1, Zenon
      <3> HIDE DEF checks
      <3> QED
        BY <3>1
    <2>2. CASE c % 2 # 1
      <3>1. checks[c] = <<readable(ids[(c + 1) \div 2]), "INCOMPATIBLE_TOKENIZER">>
        BY <2>2, Zenon
      <3> HIDE DEF checks
      <3> QED
        BY <3>1
    <2> QED
      BY <2>1, <2>2
  <1>5. \A c \in 1..n : checks[c][1]
    <2>1. DOMAIN checks = 1..n
      OBVIOUS
    <2> HIDE DEF checks, n
    <2> QED
      BY <1>2, <1>3, <1>4, <2>1, NothingRefused
  <1>6. ASSUME NEW k \in 1..Len(ids) PROVE ids[k] \in Readable
    <2> DEFINE id == ids[k]
               c == 2 * k - 1
               d == 2 * k
    <2>1. /\ c \in 1..n /\ c % 2 = 1 /\ (c + 1) \div 2 = k
          /\ d \in 1..n /\ d % 2 # 1 /\ (d + 1) \div 2 = k
      BY <1>3
    <2> HIDE DEF c, d
    <2>2. /\ checks[c] = <<known(id), "INVALID_TOKEN_ID">>
          /\ checks[d] = <<readable(id), "INCOMPATIBLE_TOKENIZER">>
      BY <2>1, Zenon
    <2> HIDE DEF checks, n
    <2>3. id < TokenizerLength /\ readable(id)
      <3>1. checks[c][1] /\ checks[d][1]
        BY <1>5, <2>1
      <3>2. known(id)
        BY ONLY <2>2, <3>1
      <3>3. readable(id)
        BY ONLY <2>2, <3>1
      <3> QED
        BY <3>2, <3>3 DEF known
    <2>4. id \in Nat /\ TokenizerLength \in Nat
      BY OrdinaryIs
    <2> HIDE DEF id
    <2>5. id \in Known /\ ~(id >= TokenizerLength)
      BY <2>3, <2>4 DEF Known
    <2>6. CASE IsSpecial(id)
      BY <2>5, <2>6, Zenon DEF Readable, id
    <2>7. CASE ~IsSpecial(id)
      <3> DEFINE t == TokenBytes(id)
      <3>1. \A j \in DOMAIN t : t[j] # 256
        BY <2>3, <2>5, <2>7, Zenon DEF readable
      <3>2. t \in Seq(0..256)
        <4>1. Texts[id] = t
          BY <2>5, Zenon DEF Texts
        <4> QED
          BY <2>5, <4>1, WordsAre DEF Gives
      <3> HIDE DEF t
      <3>3. ASSUME NEW j \in 1..Len(t) PROVE t[j] \in Byte
        <4>1. t[j] \in 0..256 /\ t[j] # 256
          BY <3>1, <3>2
        <4> QED
          BY <4>1 DEF Byte
      <3>4. t \in Seq(Byte)
        <4> DEFINE B == Byte
        <4> HIDE DEF B
        <4>1. Len(t) \in Nat /\ t = [j \in 1..Len(t) |-> t[j]]
          BY <3>2
        <4>2. \A j \in 1..Len(t) : t[j] \in B
          BY <3>3 DEF B
        <4>3. t \in Seq(B)
          BY <4>1, <4>2
        <4> QED
          BY <4>3 DEF B
      <3> QED
        BY <2>5, <3>4, Zenon DEF Readable, t, id
    <2> QED
      BY <2>6, <2>7
  <1>7. ids = [k \in 1..Len(ids) |-> ids[k]]
    OBVIOUS
  <1> QED
    BY <1>3, <1>6, <1>7

\* The tokenizer encodes with an encoder.
LEMMA EncodedIs ==
    ASSUME MergeTable, Spelling, NEW text, Segments(text) \in Seq(SegmentSet(Codes))
    PROVE  \E e : Encoder(e, Texts) /\ Encoded(text) = Spread(SegmentIds(e), Segments(text))
  <1> DEFINE segments == Segments(text)
             G == SegmentSet(Codes)
             at(g) == EncodeOrdinary(g.ordinary)
                        \o IF g.special = 0 THEN << >> ELSE <<SpecialId(g.special)>>
             U == Seq(Codes)
             e == [t \in U |-> EncodeOrdinary(t)]
  <1>1. segments \in Seq(G)
    OBVIOUS
  <1>2. Encoded(text) = Lists!FlattenSeq([k \in DOMAIN segments |-> at(segments[k])])
    BY Zenon DEF Encoded
  <1>3. Encoder(e, Texts)
    <2>1. \A t \in U : /\ EncodeOrdinary(t) \in Seq(Ordinary)
                       /\ Spread(Texts, EncodeOrdinary(t)) = Bytes(Nfc9(t))
      BY EncodeOrdinaryIs
    <2>2. \A t \in U : e[t] = EncodeOrdinary(t)
      BY Zenon
    <2>3. e \in [U -> Seq(Ordinary)]
      BY <2>1
    <2> HIDE DEF e
    <2> QED
      BY <2>1, <2>2, <2>3, Zenon DEF Encoder
  <1>4. ASSUME NEW g \in G PROVE SegmentIds(e)[g] = at(g)
    <2>1. g.ordinary \in U
      <3> HIDE DEF U
      <3>1. \A h \in [ordinary : U, special : 0..Len(Special)] : h.ordinary \in U
        OBVIOUS
      <3> QED
        BY <3>1, Zenon DEF SegmentSet, U
    <2>2. e[g.ordinary] = EncodeOrdinary(g.ordinary)
      BY <2>1, Zenon
    <2> HIDE DEF e
    <2> QED
      BY <2>2, Zenon DEF SegmentIds
  <1> HIDE DEF segments, G, at, e
  <1>5. \A k \in DOMAIN segments : SegmentIds(e)[segments[k]] = at(segments[k])
    <2>1. \A k \in DOMAIN segments : segments[k] \in G
      BY <1>1
    <2> QED
      BY <1>4, <2>1
  <1>6. Encoded(text) = Spread(SegmentIds(e), segments)
    <2>1. [k \in DOMAIN segments |-> at(segments[k])]
            = [k \in DOMAIN segments |-> SegmentIds(e)[segments[k]]]
      BY <1>5, Zenon
    <2> QED
      BY <1>2, <2>1, Zenon DEF Spread
  <1> QED
    BY <1>3, <1>6, Zenon DEF segments

\* What an encoder gives are ids.
LEMMA EncoderGives ==
    ASSUME NEW e, NEW words, Encoder(e, words), NEW segments \in Seq(SegmentSet(Codes))
    PROVE  Spread(SegmentIds(e), segments) \in Seq(Nat)
  <1> DEFINE G == SegmentSet(Codes)
  <1>1. Gives(SegmentIds(e), G, Known) /\ segments \in Seq(G)
    BY SegmentGives, Zenon
  <1> HIDE DEF G
  <1>2. Spread(SegmentIds(e), segments) \in Seq(Known)
    BY <1>1, SpreadIs
  <1>3. Known \subseteq Nat
    BY DEF Known
  <1> QED
    BY <1>2, <1>3, NumbersAre

\* The bytes of the segments, written down.
LEMMA SegmentBytesAre ==
    ASSUME NEW segments \in Seq(SegmentSet(Codes))
    PROVE  Spread(SegmentBytes, segments)
             = Lists!FlattenSeq([k \in DOMAIN segments |->
                 Bytes(Nfc9(segments[k].ordinary))
                   \o IF segments[k].special = 0 THEN << >>
                      ELSE Bytes(Special[segments[k].special].text)])
  <1> DEFINE G == SegmentSet(Codes)
             at(g) == Bytes(Nfc9(g.ordinary))
                        \o IF g.special = 0 THEN << >> ELSE Bytes(Special[g.special].text)
  <1>0. segments \in Seq(G)
    OBVIOUS
  <1>1. \A g \in G : SegmentBytes[g] = at(g)
    BY Zenon DEF SegmentBytes
  <1>2. \A k \in DOMAIN segments : segments[k] \in G
    <2> HIDE DEF G
    <2> QED
      BY <1>0
  <1> HIDE DEF G, at
  <1>3. [k \in DOMAIN segments |-> SegmentBytes[segments[k]]]
          = [k \in DOMAIN segments |-> at(segments[k])]
    <2>1. \A k \in DOMAIN segments : SegmentBytes[segments[k]] = at(segments[k])
      BY <1>1, <1>2
    <2> QED
      BY <2>1, Zenon
  <1> QED
    BY <1>3, Zenon DEF Spread, at

\* When all of a flattened sequence is in a set, so is every part.
LEMMA FlattenedParts ==
    ASSUME NEW E, NEW G, NEW s \in Seq(Seq(E)), Lists!FlattenSeq(s) \in Seq(G)
    PROVE  \A k \in 1..Len(s) : s[k] \in Seq(G)
  <1> DEFINE A == Seq(E)
             B == Seq(G)
             Flat(t) == Lists!FlattenSeq(t)
             S == {t \in Seq(A) : Flat(t) \in B => \A k \in 1..Len(t) : t[k] \in B}
  <1>1. << >> \in S
    <2> DEFINE e == << >>
    <2>1. e \in Seq(A) /\ Len(e) = 0
      OBVIOUS
    <2> HIDE DEF e, A, B
    <2>2. \A k \in 1..Len(e) : e[k] \in B
      BY <2>1
    <2> QED
      BY <2>1, <2>2 DEF e
  <1>2. ASSUME NEW t \in Seq(A), t \in S, NEW a \in A PROVE t \o <<a>> \in S
    <2> DEFINE h == <<a>>
               u == t \o h
    <2>1. h \in Seq(A) /\ u \in Seq(A) /\ Len(t) \in Nat /\ Len(u) = Len(t) + 1
          /\ u[Len(t) + 1] = a /\ \A k \in 1..Len(t) : u[k] = t[k]
      <3> HIDE DEF A
      <3> QED
        OBVIOUS
    <2>2. Flat(h) = a
      BY Flattened
    <2> HIDE DEF h
    <2>3. Flat(u) = Flat(t) \o Flat(h)
      BY <2>1, Flattened
    <2>4. Flat(t) \in Seq(E)
      BY Flattened
    <2> HIDE DEF Flat, u
    <2>5. ASSUME Flat(u) \in B PROVE \A k \in 1..Len(u) : u[k] \in B
      <3>1. Flat(t) \in Seq(G) /\ a \in Seq(G)
        BY <2>2, <2>3, <2>4, <2>5, ReadableParts
      <3>2. \A k \in 1..Len(t) : t[k] \in B
        BY <1>2, <3>1 DEF Flat
      <3> HIDE DEF A, B, S
      <3> TAKE k \in 1..Len(u)
      <3>3. a \in B
        BY <3>1 DEF B
      <3> QED
        BY <2>1, <3>2, <3>3, SMTT(30)
    <2>6. u \in S
      <3> HIDE DEF A, B
      <3> QED
        BY <2>1, <2>5 DEF Flat
    <2> QED
      BY <2>6 DEF u, h
  <1>3. Seq(A) \subseteq S
    <2> HIDE DEF S, A
    <2> QED
      BY <1>1, <1>2, ByPrefix
  <1> QED
    BY <1>3

\* A conversation that is rendered is between known roles.
LEMMA RenderAccepts ==
    ASSUME NEW messages, Len(messages) \in Nat, DOMAIN messages = 1..Len(messages),
           RenderRefusal(messages) = "OK"
    PROVE  \A m \in 1..Len(messages) : messages[m].role \in DOMAIN RoleText
  <1> DEFINE n == Len(messages)
             last == <<ExpectedRole(messages, Len(messages) + 1) = "assistant", "MALFORMED_CHAT">>
             check(m) == MessageChecks(messages, m)
             known(role) == role \in DOMAIN RoleText
             four(m) == {check(m)[1], check(m)[2], check(m)[3], check(m)[4]}
             E == (UNION {four(m) : m \in 1..n}) \cup {last}
             G == {e \in E : e[1]}
             s == [m \in DOMAIN messages |-> check(m)]
             flat == Lists!FlattenSeq(s)
             all == flat \o <<last>>
  <1>1. FirstRefusal(all) = "OK"
    <2>1. RenderRefusal(messages)
            = IF ~HasConversation(messages) THEN "MALFORMED_CHAT" ELSE FirstRefusal(all)
      BY Zenon DEF RenderRefusal
    <2>2. "MALFORMED_CHAT" # "OK"
      OBVIOUS
    <2> HIDE DEF all
    <2> QED
      BY <2>1, <2>2
  <1>2. last[2] # "OK"
    OBVIOUS
  <1>3. ASSUME NEW m \in 1..n
        PROVE  /\ check(m) = <<check(m)[1], check(m)[2], check(m)[3], check(m)[4]>>
               /\ check(m)[1][2] # "OK" /\ check(m)[2][2] # "OK"
               /\ check(m)[3][2] # "OK" /\ check(m)[4][2] # "OK"
               /\ check(m)[2] = <<known(messages[m].role), "UNSUPPORTED_CHAT">>
    <2> DEFINE a == <<messages[m].type = "text", "UNSUPPORTED_CHAT">>
               b == <<messages[m].role \in DOMAIN RoleText, "UNSUPPORTED_CHAT">>
               c == <<m >= FirstConversation(messages) =>
                        messages[m].role = ExpectedRole(messages, m), "MALFORMED_CHAT">>
               d == <<IsUtf8(messages[m].content), "INVALID_UTF8">>
    <2>1. check(m) = <<a, b, c, d>>
      BY Zenon DEF MessageChecks
    <2>2. a[2] # "OK" /\ b[2] # "OK" /\ c[2] # "OK" /\ d[2] # "OK"
      OBVIOUS
    <2>3. b = <<known(messages[m].role), "UNSUPPORTED_CHAT">>
      OBVIOUS
    <2> HIDE DEF known, a, b, c, d, check
    <2>4. check(m)[1] = a /\ check(m)[2] = b /\ check(m)[3] = c /\ check(m)[4] = d
      BY <2>1
    <2> QED
      BY <2>1, <2>2, <2>3, <2>4
  <1> HIDE DEF check, last, known
  <1>4. \A e \in E : e[2] # "OK"
    <2>1. ASSUME NEW m \in 1..n, NEW e \in four(m) PROVE e[2] # "OK"
      BY <1>3, <2>1, Zenon
    <2> HIDE DEF four
    <2> QED
      BY <1>2, <2>1, Zenon
  <1>5. ASSUME NEW m \in 1..n PROVE check(m) \in Seq(E) /\ Len(check(m)) = 4
    <2> DEFINE a == check(m)[1]
               b == check(m)[2]
               c == check(m)[3]
               d == check(m)[4]
    <2>1. a \in E /\ b \in E /\ c \in E /\ d \in E
      <3>1. a \in four(m) /\ b \in four(m) /\ c \in four(m) /\ d \in four(m)
        BY Zenon
      <3> HIDE DEF four, a, b, c, d
      <3> QED
        BY <3>1, Zenon
    <2>2. check(m) = <<a, b, c, d>>
      BY <1>3
    <2> HIDE DEF a, b, c, d, E
    <2> QED
      BY <2>1, <2>2
  <1>6. s \in Seq(Seq(E)) /\ Len(s) = n /\ \A m \in 1..n : s[m] = check(m)
    <2> DEFINE U == Seq(E)
    <2>1. \A m \in 1..n : check(m) \in U
      BY <1>5
    <2> HIDE DEF U
    <2>2. s = [m \in 1..n |-> check(m)] /\ n \in Nat
      OBVIOUS
    <2>3. s \in Seq(U) /\ Len(s) = n /\ \A m \in 1..n : s[m] = check(m)
      BY <2>1, <2>2
    <2> QED
      BY <2>3 DEF U
  <1>7. last \in E
    OBVIOUS
  <1> HIDE DEF s
  <1>8. flat \in Seq(E)
    BY <1>6, Flattened
  <1> HIDE DEF E, flat
  <1>9. all \in Seq(E) /\ Len(all) \in Nat /\ DOMAIN all = 1..Len(all)
    BY <1>7, <1>8
  <1>10. \A c \in 1..Len(all) : all[c][1]
    <2>1. \A c \in 1..Len(all) : all[c][2] # "OK"
      <3> TAKE c \in 1..Len(all)
      <3> HIDE DEF all
      <3>1. all[c] \in E
        BY <1>9
      <3> QED
        BY <1>4, <3>1
    <2> HIDE DEF all
    <2> QED
      BY <1>1, <1>9, <2>1, NothingRefused
  <1>11. all \in Seq(G)
    <2> HIDE DEF all
    <2>1. \A c \in 1..Len(all) : all[c] \in G
      BY <1>9, <1>10
    <2>2. all = [c \in 1..Len(all) |-> all[c]]
      BY <1>9
    <2> HIDE DEF G
    <2> QED
      BY <1>9, <2>1, <2>2
  <1>12. flat \in Seq(G)
    <2> DEFINE t == <<last>>
    <2>1. t \in Seq(E) /\ flat \o t \in Seq(G)
      BY <1>7, <1>11
    <2> HIDE DEF t, G
    <2> QED
      BY <1>8, <2>1, ReadableParts
  <1>13. \A m \in 1..n : s[m] \in Seq(G)
    <2>1. Lists!FlattenSeq(s) \in Seq(G)
      BY <1>12 DEF flat
    <2> HIDE DEF G
    <2>2. \A m \in 1..Len(s) : s[m] \in Seq(G)
      BY <1>6, <2>1, FlattenedParts
    <2> QED
      BY <1>6, <2>2
  <1> HIDE DEF G
  <1>14. ASSUME NEW m \in 1..n PROVE messages[m].role \in DOMAIN RoleText
    <2>1. check(m) \in Seq(G) /\ Len(check(m)) = 4
      BY <1>5, <1>6, <1>13
    <2>2. check(m)[2] \in G
      BY <2>1
    <2>3. check(m)[2][1]
      BY <2>2 DEF G
    <2>4. check(m)[2] = <<known(messages[m].role), "UNSUPPORTED_CHAT">>
      BY <1>3
    <2>5. known(messages[m].role)
      BY ONLY <2>3, <2>4
    <2> QED
      BY <2>5 DEF known
  <1> QED
    BY <1>14

\* What is rendered is a text.
LEMMA RenderedIs ==
    ASSUME NEW messages \in Messages, RenderRefusal(messages) = "OK", NEW prompt
    PROVE  Rendered(messages, prompt) \in Seq(Points)
  <1> DEFINE P == Seq(Points)
             M == [role : STRING, type : STRING, content : P]
             frame == [m \in DOMAIN messages |->
                         Framed(messages[m].role, messages[m].content)]
  <1>1. messages \in Seq(M)
    BY TextAssumption
  <1>2. Len(messages) \in Nat /\ DOMAIN messages = 1..Len(messages)
        /\ \A m \in 1..Len(messages) : messages[m].content \in P
    <2>1. \A x \in M : x.content \in P
      <3> HIDE DEF P
      <3> QED
        OBVIOUS
    <2> HIDE DEF P, M
    <2> QED
      BY <1>1, <2>1
  <1>3. \A m \in 1..Len(messages) : messages[m].role \in DOMAIN RoleText
    BY <1>2, RenderAccepts
  <1>4. << >> \in P /\ \A a, b \in P : a \o b \in P
    OBVIOUS
  <1>5. ASSUME NEW content \in P PROVE Trimmed(content) \in P
    <2> DEFINE solid == {k \in DOMAIN content : ~IsSpace(content[k])}
               first == CHOOSE k \in solid : \A j \in solid : k <= j
               end == CHOOSE k \in solid : \A j \in solid : j <= k
    <2>1. CASE solid = {}
      <3>1. Trimmed(content) = << >>
        BY <2>1, Zenon DEF Trimmed
      <3> QED
        BY <1>4, <3>1
    <2>2. CASE solid # {}
      <3>1. Trimmed(content) = SubSeq(content, first, end)
        BY <2>2, Zenon DEF Trimmed
      <3>2. solid \in SUBSET Nat /\ Len(content) \in Nat /\ \A k \in solid : k \in 1..Len(content)
        OBVIOUS
      <3>3. \E k \in solid : \A j \in solid : k <= j
        <4> HIDE DEF solid
        <4> QED
          BY <2>2, <3>2, Least
      <3>4. \E k \in solid : \A j \in solid : j <= k
        <4>1. \A k \in solid : k <= Len(content)
          BY <3>2
        <4> HIDE DEF solid
        <4> QED
          BY <2>2, <3>2, <4>1, Greatest
      <3>5. first \in solid /\ end \in solid
        <4> HIDE DEF solid
        <4> QED
          BY <3>3, <3>4
      <3> HIDE DEF first, end, solid
      <3>6. first \in 1..Len(content) /\ end \in 1..Len(content)
        BY <3>2, <3>5
      <3>7. SubSeq(content, first, end) \in P
        BY <3>2, <3>6
      <3> QED
        BY <3>1, <3>7
    <2> QED
      BY <2>1, <2>2
  <1>6. /\ ImStart \in P /\ ImEnd \in P /\ Think \in P /\ EndThink \in P /\ LineFeed \in P
        /\ \A role \in DOMAIN RoleText : RoleText[role] \in P
    <2>1. Len(Special) \in Nat /\ Len(Special) > 2 /\ DOMAIN Special = 1..Len(Special)
      BY VocabularyAssumption
    <2>2. /\ 2 \in DOMAIN Special /\ 3 \in DOMAIN Special
          /\ Len(Special) - 1 \in DOMAIN Special /\ Len(Special) \in DOMAIN Special
      BY <2>1
    <2>3. \A k \in DOMAIN Special : Special[k].text \in P
      BY SpecialIs, CodesAreText
    <2>4. LineFeed \in P /\ \A role \in DOMAIN RoleText : RoleText[role] \in P
      BY TextAssumption, CodesAreText
    <2> HIDE DEF P
    <2> QED
      BY <2>2, <2>3, <2>4 DEF ImStart, ImEnd, Think, EndThink
  <1>7. GenerationPrompt \in P
    <2>1. "assistant" \in DOMAIN RoleText
      BY DEF RoleText
    <2>2. RoleText["assistant"] \in P
      BY <1>6, <2>1
    <2> DEFINE r == RoleText["assistant"]
    <2> HIDE DEF P, r
    <2>3. GenerationPrompt = ImStart \o r \o LineFeed \o Think \o LineFeed \o LineFeed
                               \o EndThink \o LineFeed \o LineFeed
      BY Zenon DEF GenerationPrompt, r
    <2>4. r \in P
      BY <2>2 DEF r
    <2> QED
      BY <1>4, <1>6, <2>3, <2>4
  <1>8. ASSUME NEW m \in 1..Len(messages) PROVE frame[m] \in P
    <2> DEFINE role == messages[m].role
               content == messages[m].content
               r == RoleText[role]
               t == Trimmed(content)
    <2>1. r \in P /\ t \in P
      BY <1>2, <1>3, <1>5, <1>6
    <2>2. frame[m] = Framed(role, content)
      BY <1>2
    <2>3. Framed(role, content) = ImStart \o r \o LineFeed \o t \o ImEnd \o LineFeed
      BY Zenon DEF Framed
    <2> HIDE DEF P, r, t, frame, role, content
    <2> QED
      BY <1>4, <1>6, <2>1, <2>2, <2>3
  <1>9. frame \in Seq(P)
    <2>1. frame = [m \in 1..Len(messages) |-> frame[m]]
      BY <1>2
    <2> HIDE DEF frame, P
    <2> QED
      BY <1>2, <1>8, <2>1
  <1>10. Lists!FlattenSeq(frame) \in P
    <2> HIDE DEF frame
    <2> QED
      BY <1>9, Flattened
  <1>11. Rendered(messages, prompt)
           = Lists!FlattenSeq(frame) \o IF prompt THEN GenerationPrompt ELSE << >>
    BY Zenon DEF Rendered
  <1>12. (IF prompt THEN GenerationPrompt ELSE << >>) \in P
    BY <1>4, <1>7, Zenon
  <1> HIDE DEF frame, P
  <1>13. Rendered(messages, prompt) \in P
    BY <1>4, <1>10, <1>11, <1>12
  <1> QED
    BY <1>13 DEF P

-----------------------------------------------------------------------------
(* The calls.                                                              *)

\* The words of a tokenizer's tables.
SpelledBy(t) ==
    [id \in Known |-> [k \in DOMAIN t.tokens[id + 1] |-> UnicodeToByte(t.tokens[id + 1][k])]]

\* The text and the output of an encoding.
EncodesText(c) ==
    /\ c.source \in Seq(Points) /\ Segments(c.source) \in Seq(SegmentSet(Codes))
    /\ c.status = "OK" =>
         \E e : /\ Encoder(e, SpelledBy(Tables))
                /\ c.output = Spread(SegmentIds(e), Segments(c.source))

\* What RoundTrip says of a call.
GoesRound(c) ==
    c.kind \in {"decode", "back"} /\ c.status = "OK" =>
      /\ Repaired(c.output) = c.output
      /\ c.kind = "back" =>
           LET segments == Segments(c.source)
           IN  c.output =
                 Lists!FlattenSeq([k \in DOMAIN segments |->
                   Bytes(Nfc9(segments[k].ordinary))
                     \o IF segments[k].special = 0 THEN << >>
                        ELSE Bytes(Special[segments[k].special].text)])

\* What a tokenizer and its call keep to: an open one has the tables of the
\* vocabulary, and only an open one answers.
CallFits(t, c) ==
    /\ t = NoTokenizer => c.kind # "encode"
    /\ t # NoTokenizer => Acceptable /\ t = Tables
    /\ c.kind = "encode" => EncodesText(c)
    /\ GoesRound(c)

\* The ids that are decoded back are those of an encoding.
BackOf(kind, ids, source, policy) ==
    kind = "back" =>
      /\ policy = "KEEP" /\ Segments(source) \in Seq(SegmentSet(Codes))
      /\ \E e : /\ Encoder(e, SpelledBy(Tables))
                /\ ids = Spread(SegmentIds(e), Segments(source))

\* The words of an open tokenizer are those of its tables.
LEMMA WordsSpelled ==
    ASSUME tokenizer = Tables
    PROVE  Texts = SpelledBy(Tables)
  <1>1. Texts = SpelledBy(tokenizer)
    BY Zenon DEF Texts, TokenBytes, SpelledBy
  <1> QED
    BY <1>1

\* What such a state has.
LEMMA FitGives ==
    ASSUME CallFits(tokenizer, call)
    PROVE  PretokensAsRegex /\ MergesAsReference /\ RoundTrip
  <1>1. CallText
    BY Zenon DEF CallFits, EncodesText, CallText
  <1>2. PretokensAsRegex
    BY <1>1, TextGivesRegex
  <1>3. RoundTrip
    <2>1. GoesRound(call)
      BY Zenon DEF CallFits
    <2> QED
      BY <2>1, Zenon DEF GoesRound, RoundTrip
  <1>4. MergesAsReference
    <2>1. CASE call.kind = "encode"
      <3>1. tokenizer # NoTokenizer
        BY <2>1, Zenon DEF CallFits
      <3>2. Acceptable /\ tokenizer = Tables
        BY <3>1, Zenon DEF CallFits
      <3>3. MergeTable /\ Spelling
        BY <3>2, TableOfMerges, TablesSpell
      <3> QED
        BY <1>1, <3>3, TextGivesReference
    <2>2. CASE call.kind # "encode"
      BY <2>2, Zenon DEF MergesAsReference
    <2> QED
      BY <2>1, <2>2
  <1> QED
    BY <1>2, <1>3, <1>4

\* No call fits, whether the tokenizer is open or not.
LEMMA NoCallFits ==
    ASSUME NEW t, t # NoTokenizer => Acceptable /\ t = Tables
    PROVE  CallFits(t, NoCall)
  <1>1. NoCall.kind = "none"
    BY DEF NoCall
  <1>2. ~(NoCall.kind = "encode") /\ ~(NoCall.kind \in {"decode", "back"})
    BY <1>1
  <1>3. GoesRound(NoCall)
    BY <1>2, Zenon DEF GoesRound
  <1> QED
    BY <1>2, <1>3, Zenon DEF CallFits

\* Nor does being opened.
LEMMA OpeningFits ==
    ASSUME NEW t, t # NoTokenizer => Acceptable /\ t = Tables, NEW next
    PROVE  CallFits(t, Constructing(next))
  <1>1. Constructing(next).kind = "open"
    BY DEF Constructing
  <1>2. /\ ~(Constructing(next).kind = "encode")
        /\ ~(Constructing(next).kind \in {"decode", "back"})
    BY <1>1
  <1>3. GoesRound(Constructing(next))
    BY <1>2, Zenon DEF GoesRound
  <1> QED
    BY <1>2, <1>3, Zenon DEF CallFits

\* What an answer says.
LEMMA AnswerIs ==
    ASSUME NEW kind, NEW source, NEW output, NEW capacity,
           NEW answer, answer = Answer(kind, source, output, capacity)
    PROVE  /\ answer.kind = kind /\ answer.source = source
           /\ answer.status = "OK" => answer.output = output
  <1> DEFINE n == Len(output)
  <1>1. n <= capacity =>
          answer = [kind |-> kind, source |-> source, required |-> n,
                    output |-> output, status |-> "OK"]
    BY Zenon DEF Answer
  <1>2. ~(n <= capacity) =>
          answer = [kind |-> kind, source |-> source, required |-> n,
                    output |-> << >>, status |-> "BUFFER_TOO_SMALL"]
    BY Zenon DEF Answer
  <1> DEFINE e == << >>
             small == n <= capacity
  <1>3. ~small =>
          answer = [kind |-> kind, source |-> source, required |-> n,
                    output |-> e, status |-> "BUFFER_TOO_SMALL"]
    BY <1>2
  <1>4. small =>
          answer = [kind |-> kind, source |-> source, required |-> n,
                    output |-> output, status |-> "OK"]
    BY <1>1
  <1> HIDE DEF n, e, small
  <1> QED
    BY ONLY <1>3, <1>4

\* A refusal says what was refused, and has no output.
LEMMA RefusedIs ==
    ASSUME NEW kind, NEW status, NEW answer, answer = Refused(kind, status)
    PROVE  answer.kind = kind /\ answer.source = << >> /\ answer.status = status
  BY DEF Refused

\* A refusal of an encoding.
LEMMA RefusedEncodingFits ==
    ASSUME CallFits(tokenizer, call), tokenizer # NoTokenizer,
           NEW status, status # "OK", NEW c, c = Refused("encode", status)
    PROVE  CallFits(tokenizer, c)
  <1> DEFINE e == << >>
  <1>1. c.kind = "encode" /\ c.source = e /\ c.status # "OK"
    BY RefusedIs
  <1>2. e \in Seq(Codes) /\ e \in Seq(Points)
    OBVIOUS
  <1> HIDE DEF e
  <1>3. Segments(e) \in Seq(SegmentSet(Codes))
    BY <1>2, SegmentsAre
  <1>4. EncodesText(c)
    BY <1>1, <1>2, <1>3, Zenon DEF EncodesText
  <1>5. GoesRound(c)
    <2>1. ~(c.kind \in {"decode", "back"})
      BY <1>1
    <2> QED
      BY <2>1, Zenon DEF GoesRound
  <1>6. Acceptable /\ tokenizer = Tables
    BY Zenon DEF CallFits
  <1> QED
    BY <1>4, <1>5, <1>6, Zenon DEF CallFits

\* An encoding.
LEMMA EncodingFits ==
    ASSUME CallFits(tokenizer, call), tokenizer # NoTokenizer,
           NEW text \in Seq(Points), NEW policy, EncodeRefusal(text, policy) = "OK",
           NEW capacity, NEW c, c = Answer("encode", text, Encoded(text), capacity)
    PROVE  CallFits(tokenizer, c)
  <1>1. /\ c.kind = "encode" /\ c.source = text
        /\ c.status = "OK" => c.output = Encoded(text)
    BY AnswerIs
  <1>2. Segments(text) \in Seq(SegmentSet(Codes))
    BY EncodeAccepts
  <1>3. Acceptable /\ tokenizer = Tables
    BY Zenon DEF CallFits
  <1>4. PICK e : Encoder(e, Texts) /\ Encoded(text) = Spread(SegmentIds(e), Segments(text))
    BY <1>2, <1>3, EncodedIs, TableOfMerges, TablesSpell
  <1>5. Texts = SpelledBy(Tables)
    BY <1>3, WordsSpelled
  <1>6. EncodesText(c)
    BY <1>1, <1>2, <1>4, <1>5, Zenon DEF EncodesText
  <1>7. GoesRound(c)
    <2>1. ~(c.kind \in {"decode", "back"})
      BY <1>1
    <2> QED
      BY <2>1, Zenon DEF GoesRound
  <1> QED
    BY <1>3, <1>6, <1>7, Zenon DEF CallFits

\* Whatever EncodeText makes of the call.
LEMMA EncodeTextFits ==
    ASSUME CallFits(tokenizer, call), tokenizer # NoTokenizer,
           NEW text \in Seq(Points), NEW policy, NEW capacity,
           EncodeText(text, policy, capacity)
    PROVE  CallFits(tokenizer, call')
  <1> DEFINE refusal == EncodeRefusal(text, policy)
             c == call'
  <1>1. \/ c = IF refusal = "OK" THEN Answer("encode", text, Encoded(text), capacity)
               ELSE Refused("encode", refusal)
        \/ c = Refused("encode", "OUT_OF_MEMORY")
    BY Zenon DEF EncodeText
  <1>2. "OUT_OF_MEMORY" # "OK"
    OBVIOUS
  <1> HIDE DEF c
  <1>3. CASE refusal = "OK" /\ c = Answer("encode", text, Encoded(text), capacity)
    <2>1. CallFits(tokenizer, c)
      BY <1>3, EncodingFits
    <2> QED
      BY <2>1 DEF c
  <1>4. CASE refusal # "OK" /\ c = Refused("encode", refusal)
    <2> HIDE DEF refusal
    <2>1. CallFits(tokenizer, c)
      BY <1>4, RefusedEncodingFits
    <2> QED
      BY <2>1 DEF c
  <1>5. CASE c = Refused("encode", "OUT_OF_MEMORY")
    <2>1. CallFits(tokenizer, c)
      BY <1>2, <1>5, RefusedEncodingFits
    <2> QED
      BY <2>1 DEF c
  <1> HIDE DEF refusal
  <1> QED
    BY <1>1, <1>3, <1>4, <1>5, Zenon

\* Decoding.
LEMMA DecodingFits ==
    ASSUME CallFits(tokenizer, call), tokenizer # NoTokenizer,
           NEW kind \in {"decode", "back"}, NEW ids \in Seq(Nat), NEW source, NEW policy,
           NEW capacity, DecodeRefusal(ids) = "OK",
           BackOf(kind, ids, source, policy),
           NEW c, c = Answer(kind, source, Decoded(ids, policy), capacity)
    PROVE  CallFits(tokenizer, c)
  <1>1. Acceptable /\ tokenizer = Tables
    BY Zenon DEF CallFits
  <1>2. Spelling /\ Texts = SpelledBy(Tables)
    BY <1>1, TablesSpell, WordsSpelled
  <1>3. ids \in Seq(Readable)
    BY <1>2, DecodeAccepts
  <1>4. /\ c.kind = kind /\ c.source = source
        /\ c.status = "OK" => c.output = Decoded(ids, policy)
    BY AnswerIs
  <1>5. Repaired(Decoded(ids, policy)) = Decoded(ids, policy)
    <2>1. Decoded(ids, policy) \in Wells
      BY <1>3, DecodedWell
    <2> QED
      BY <2>1, WellsAre, RepairedSame
  <1>6. ASSUME kind = "back", c.status = "OK"
        PROVE  c.output =
                 Lists!FlattenSeq([k \in DOMAIN Segments(source) |->
                   Bytes(Nfc9(Segments(source)[k].ordinary))
                     \o IF Segments(source)[k].special = 0 THEN << >>
                        ELSE Bytes(Special[Segments(source)[k].special].text)])
    <2>1. PICK e : /\ Encoder(e, SpelledBy(Tables))
                   /\ ids = Spread(SegmentIds(e), Segments(source))
      BY <1>6, Zenon DEF BackOf
    <2> DEFINE segments == Segments(source)
    <2>2. segments \in Seq(SegmentSet(Codes)) /\ policy = "KEEP"
      BY <1>6, Zenon DEF BackOf
    <2>3. Encoder(e, Texts) /\ ids = Spread(SegmentIds(e), segments)
      BY <1>2, <2>1
    <2> HIDE DEF segments
    <2>4. Decoded(ids, "KEEP") = Spread(SegmentBytes, segments)
      <3>1. Spread(SegmentIds(e), segments) \in Seq(Readable)
        BY <1>3, <2>3
      <3>2. Decoded(Spread(SegmentIds(e), segments), "KEEP") = Spread(SegmentBytes, segments)
        BY <1>2, <2>2, <2>3, <3>1, EncodingDecoded
      <3> QED
        BY <2>3, <3>2
    <2>5. c.output = Spread(SegmentBytes, segments)
      BY <1>4, <1>6, <2>2, <2>4
    <2> QED
      BY <2>2, <2>5, SegmentBytesAre, Zenon DEF segments
  <1>7. GoesRound(c)
    BY <1>4, <1>5, <1>6, Zenon DEF GoesRound
  <1>8. c.kind # "encode"
    BY <1>4
  <1> QED
    BY <1>1, <1>7, <1>8, Zenon DEF CallFits

\* Whatever Decode makes of the call.
LEMMA DecodeFits ==
    ASSUME CallFits(tokenizer, call),
           NEW kind \in {"decode", "back"}, NEW ids \in Seq(Nat), NEW source, NEW policy,
           NEW capacity, Decode(kind, ids, source, policy, capacity),
           BackOf(kind, ids, source, policy)
    PROVE  CallFits(tokenizer, call')
  <1> DEFINE refusal == DecodeRefusal(ids)
             c == call'
  <1>1. /\ tokenizer # NoTokenizer
        /\ \/ c = IF refusal = "OK" THEN Answer(kind, source, Decoded(ids, policy), capacity)
                  ELSE Refused(kind, refusal)
           \/ c = Refused(kind, "OUT_OF_MEMORY")
    BY Zenon DEF Decode, Closed
  <1>2. "OUT_OF_MEMORY" # "OK"
    OBVIOUS
  <1> HIDE DEF c
  <1>3. CASE refusal = "OK" /\ c = Answer(kind, source, Decoded(ids, policy), capacity)
    <2>1. /\ CallFits(tokenizer, call) /\ kind \in {"decode", "back"} /\ ids \in Seq(Nat)
          /\ BackOf(kind, ids, source, policy) /\ tokenizer # NoTokenizer
          /\ DecodeRefusal(ids) = "OK"
      BY <1>1, <1>3
    <2> DEFINE d == c
    <2>2. d = Answer(kind, source, Decoded(ids, policy), capacity)
      BY <1>3
    <2> HIDE DEF d
    <2>3. CallFits(tokenizer, d)
      BY ONLY <2>1, <2>2, DecodingFits
    <2> QED
      BY <2>3 DEF d, c
  <1>4. ASSUME NEW status, status # "OK", c = Refused(kind, status)
        PROVE  CallFits(tokenizer, c)
    <2>1. c.kind = kind /\ c.status # "OK"
      BY <1>4, RefusedIs
    <2>2. GoesRound(c)
      BY <2>1, Zenon DEF GoesRound
    <2>3. c.kind # "encode"
      BY <2>1
    <2>4. Acceptable /\ tokenizer = Tables
      BY <1>1, Zenon DEF CallFits
    <2> QED
      BY <1>1, <2>2, <2>3, <2>4, Zenon DEF CallFits
  <1>5. CallFits(tokenizer, c)
    <2> HIDE DEF refusal
    <2>1. \/ refusal = "OK" /\ c = Answer(kind, source, Decoded(ids, policy), capacity)
          \/ refusal # "OK" /\ c = Refused(kind, refusal)
          \/ c = Refused(kind, "OUT_OF_MEMORY")
      BY <1>1, Zenon
    <2>2. CASE refusal = "OK" /\ c = Answer(kind, source, Decoded(ids, policy), capacity)
      BY <1>3, <2>2 DEF c
    <2>3. CASE refusal # "OK" /\ c = Refused(kind, refusal)
      BY <1>4, <2>3
    <2>4. CASE c = Refused(kind, "OUT_OF_MEMORY")
      BY <1>2, <1>4, <2>4
    <2> QED
      BY <2>1, <2>2, <2>3, <2>4
  <1> QED
    BY <1>5 DEF c

\* A step of the tokenizer keeps it.
LEMMA TokenizerFits ==
    ASSUME CallFits(tokenizer, call), TokenizerNext
    PROVE  CallFits(tokenizer', call')
  <1>1. CASE OpenTokenizer
    <2>1. tokenizer' = NoTokenizer
      BY <1>1, Zenon DEF OpenTokenizer, Absent, Closed
    <2>2. call' = NoCall \/ call' = Constructing("tables")
      BY <1>1, Zenon DEF OpenTokenizer, Absent
    <2> QED
      BY <2>1, <2>2, NoCallFits, OpeningFits
  <1>2. CASE AllocateLookup
    <2>1. call' = Constructing("build") /\ tokenizer' = tokenizer
      BY <1>2, Zenon DEF AllocateLookup
    <2>2. tokenizer # NoTokenizer => Acceptable /\ tokenizer = Tables
      BY Zenon DEF CallFits
    <2> QED
      BY <2>1, <2>2, OpeningFits
  <1>3. CASE BuildTokenizer
    <2>1. /\ call' = NoCall
          /\ (Compatible /\ tokenizer' = Built) \/ tokenizer' = tokenizer
      BY <1>3, Zenon DEF BuildTokenizer
    <2>2. tokenizer # NoTokenizer => Acceptable /\ tokenizer = Tables
      BY Zenon DEF CallFits
    <2>3. tokenizer' # NoTokenizer => Acceptable /\ tokenizer' = Tables
      BY <2>1, <2>2, CompatibleIs
    <2> QED
      BY <2>1, <2>3, NoCallFits
  <1>4. CASE CloseTokenizer
    <2>1. tokenizer' = NoTokenizer /\ call' = NoCall
      BY <1>4, Zenon DEF CloseTokenizer
    <2> QED
      BY <2>1, NoCallFits
  <1>5. CASE Return
    <2>1. tokenizer' = tokenizer /\ call' = NoCall
      BY <1>5, Zenon DEF Return
    <2>2. tokenizer' # NoTokenizer => Acceptable /\ tokenizer' = Tables
      BY <2>1, Zenon DEF CallFits
    <2> QED
      BY <2>1, <2>2, NoCallFits
  <1>6. ASSUME NEW c \in Capacity, NEW text \in Text, NEW policy, Encode(text, policy, c)
        PROVE  CallFits(tokenizer', call')
    <2>1. tokenizer # NoTokenizer /\ tokenizer' = tokenizer /\ EncodeText(text, policy, c)
      BY <1>6, Zenon DEF Encode, Closed
    <2>2. text \in Seq(Points)
      BY TextAssumption
    <2>3. CallFits(tokenizer, call')
      BY <2>1, <2>2, EncodeTextFits
    <2> QED
      BY <2>1, <2>3
  <1>7. ASSUME NEW c \in Capacity, NEW messages \in Messages, NEW prompt, Chat(messages, prompt, c)
        PROVE  CallFits(tokenizer', call')
    <2> DEFINE refusal == RenderRefusal(messages)
    <2>1. /\ tokenizer # NoTokenizer /\ tokenizer' = tokenizer
          /\ \/ refusal = "OK" /\ EncodeText(Rendered(messages, prompt), "RECOGNIZE", c)
             \/ refusal # "OK" /\ call' = Refused("encode", refusal)
             \/ call' = Refused("encode", "OUT_OF_MEMORY")
      BY <1>7, Zenon DEF Chat, Closed
    <2>2. CASE refusal = "OK" /\ EncodeText(Rendered(messages, prompt), "RECOGNIZE", c)
      <3> DEFINE text == Rendered(messages, prompt)
      <3>1. text \in Seq(Points)
        BY <2>2, RenderedIs
      <3>2. EncodeText(text, "RECOGNIZE", c)
        BY <2>2
      <3> HIDE DEF text
      <3>3. CallFits(tokenizer, call')
        BY <2>1, <3>1, <3>2, EncodeTextFits
      <3> QED
        BY <2>1, <3>3
    <2> HIDE DEF refusal
    <2>3. ASSUME NEW status, status # "OK", call' = Refused("encode", status)
          PROVE  CallFits(tokenizer, call')
      <3> DEFINE d == call'
      <3>1. d = Refused("encode", status)
        BY <2>3
      <3> HIDE DEF d
      <3>2. CallFits(tokenizer, d)
        BY <2>1, <2>3, <3>1, RefusedEncodingFits
      <3> QED
        BY <3>2 DEF d
    <2>4. "OUT_OF_MEMORY" # "OK"
      OBVIOUS
    <2> QED
      BY <2>1, <2>2, <2>3, <2>4, Zenon
  <1>8. ASSUME NEW c \in Capacity, NEW ids \in Ids, NEW policy, DecodeIds(ids, policy, c)
        PROVE  CallFits(tokenizer', call')
    <2>1. ids \in Seq(Nat)
      BY TextAssumption
    <2>2. Decode("decode", ids, << >>, policy, c) /\ tokenizer' = tokenizer
      BY <1>8, Zenon DEF DecodeIds, Decode
    <2>3. "decode" \in {"decode", "back"} /\ "decode" # "back"
      OBVIOUS
    <2> DEFINE e == << >>
    <2>5. Decode("decode", ids, e, policy, c)
      BY <2>2
    <2> HIDE DEF e
    <2>6. BackOf("decode", ids, e, policy)
      BY <2>3, Zenon DEF BackOf
    <2>4. CallFits(tokenizer, call')
      BY <2>1, <2>3, <2>5, <2>6, DecodeFits
    <2> QED
      BY <2>2, <2>4
  <1>9. ASSUME NEW c \in Capacity, DecodeEncoded(c) PROVE CallFits(tokenizer', call')
    <2>1. /\ call.kind = "encode" /\ call.status = "OK" /\ tokenizer' = tokenizer
          /\ Decode("back", call.output, call.source, "KEEP", c)
      BY <1>9, Zenon DEF DecodeEncoded, Decode
    <2>2. EncodesText(call)
      BY <2>1, Zenon DEF CallFits
    <2> DEFINE source == call.source
               ids == call.output
    <2>3. /\ Segments(source) \in Seq(SegmentSet(Codes))
          /\ \E e : /\ Encoder(e, SpelledBy(Tables))
                    /\ ids = Spread(SegmentIds(e), Segments(source))
      BY <2>1, <2>2, Zenon DEF EncodesText
    <2>4. ids \in Seq(Nat)
      BY <2>3, EncoderGives
    <2>5. "back" \in {"decode", "back"}
      OBVIOUS
    <2>6. Decode("back", ids, source, "KEEP", c)
      BY <2>1
    <2>8. BackOf("back", ids, source, "KEEP")
      BY <2>3, Zenon DEF BackOf
    <2> HIDE DEF source, ids
    <2>7. CallFits(tokenizer, call')
      BY <2>4, <2>5, <2>6, <2>8, DecodeFits
    <2> QED
      BY <2>1, <2>7
  <1> QED
    BY <1>1, <1>2, <1>3, <1>4, <1>5, <1>6, <1>7, <1>8, <1>9, Zenon DEF TokenizerNext
=============================================================================
