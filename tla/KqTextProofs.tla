---------------------------- MODULE KqTextProofs ----------------------------
(***************************************************************************)
(* Proofs about the programs over the files, for files of any content, any *)
(* registry and any sampler.                                               *)
(*                                                                         *)
(* The container.  The checks of the code are sequences of pairs, of what  *)
(* must hold and the refusal given when it does not; "OK" is none of the   *)
(* refusals, so a verdict of "OK" means that every check of its sequence   *)
(* holds.  From the checks of a record its size and its type are known,    *)
(* from those of a span that it ends before the next one starts; because   *)
(* the sort order is total, the next one stands for all that follow.       *)
(*                                                                         *)
(* The random generator.  The inductive invariant says of the caller's     *)
(* generator, and of the snapshot it has taken, that its state is the one  *)
(* the seed's sequence has after as many steps as words were given away,   *)
(* and that those words are the sequence's: whatever is selected and why-  *)
(* ever it is refused, a word is spent exactly when an id is selected.     *)
(*                                                                         *)
(* The selection.  The sort is a bijection, because an id's place is the   *)
(* number of ids under it in a total order (OrderSorts); so the ids from a *)
(* place on are those with few ids above them, and the running sum over    *)
(* places is the total of the weights of ids (MassIsTotal), which grows    *)
(* with the place (MassGrows): the scan stops where the contract's sum     *)
(* over a set passes its bound (KeptAsContract).  The words an id owns are *)
(* the multiples of the total between two running totals, and those are as *)
(* many as their distance asks for, to within one (SharesProportional).    *)
(*                                                                         *)
(* The program.  What each stage may hold, the spans of an open container, *)
(* the tokenizer's parts and the generator make up the inductive invariant *)
(* of the program over the files.  The registry's steps move between the   *)
(* stages of an open container and change nothing the spans depend on.     *)
(*                                                                         *)
(* The registry.  Whether a row of the table is a plain tensor or one of   *)
(* shards, the tensors it explains are the parts that its names have in    *)
(* the file (Explained).  The names of different rows and parts differ,    *)
(* and so do the tensors of an accepted container; so what is bound after  *)
(* n rows is exactly the parts of those rows (SoFar), and where the parts  *)
(* of the whole table cover the file, each tensor is bound once.           *)
(*                                                                         *)
(* The views.  A view is a run of whole blocks inside its member's span;   *)
(* where the element that was asked for lies in those blocks is arithmetic *)
(* on the member's sizes, the same for binding, expert and PLE (Shown).    *)
(* No call a caller may count on is refused, because the checks are of     *)
(* what the table says already: a row's canonical shape has as many        *)
(* elements as its tensors (Sized), the tensors are of the table's shapes  *)
(* (SoFar) and of whole blocks (Blocked), and so are their members.        *)
(*                                                                         *)
(* Induction is by a least counterexample throughout.                      *)
(***************************************************************************)
EXTENDS KqText, KqTokenizerProofs, FiniteSetTheorems, SequenceTheorems, WellFoundedInduction, TLAPS

\* What a check may refuse with.
Refusals == {"TRUNCATED", "LIMIT_EXCEEDED", "MALFORMED_METADATA",
             "DUPLICATE_METADATA", "UNSUPPORTED_METADATA", "MALFORMED_TENSOR",
             "DUPLICATE_TENSOR", "UNSUPPORTED_TENSOR_TYPE", "INVALID_ALIGNMENT",
             "ARITHMETIC_OVERFLOW", "SPAN_OUT_OF_RANGE",
             "INCONSISTENT_DATA_SECTION", "BAD_MAGIC", "UNSUPPORTED_VERSION",
             "MODEL_TOPOLOGY_MISMATCH", "SEMANTIC_MAPPING_FAILED",
             "UNKNOWN_PHYSICAL_TENSOR", "INVALID_ARGUMENT", "NO_TENSOR_PAYLOAD",
             "INVALID_QUANTIZED_GEOMETRY", "TENSOR_LAYOUT_MISMATCH",
             "NONCONTIGUOUS_TENSOR_VIEW", "TENSOR_OWNERSHIP_MISMATCH"}

Verdicts == Refusals \cup {"OK"}

\* A check: whether it holds, and the refusal if it does not.
CheckType == {check \in BOOLEAN \X Verdicts : check[1] \/ check[2] \in Refusals}

\* A sequence of checks that refuses nothing has no check that fails.
LEMMA NoRefusal ==
    ASSUME NEW checks \in Seq(CheckType), FirstRefusal(checks) = "OK"
    PROVE  \A c \in 1..Len(checks) : checks[c][1]
  <1> DEFINE failed == {c \in DOMAIN checks : ~checks[c][1]}
  <1>0. DOMAIN checks = 1..Len(checks) /\ Len(checks) \in Nat
    OBVIOUS
  <1>1. SUFFICES ASSUME failed # {} PROVE FALSE
    BY <1>0
  <1>2. \E c \in failed : \A d \in failed : c <= d
    <2>1. failed \in SUBSET Nat
      BY <1>0
    <2> HIDE DEF failed
    <2> QED
      BY <2>1, <1>1, Least
  <1> DEFINE first == CHOOSE c \in failed : \A d \in failed : c <= d
  <1>3. first \in failed
    BY <1>2
  <1>4. checks[first][2] = "OK"
    BY <1>1 DEF FirstRefusal
  <1>5. checks[first] \in CheckType
    BY <1>0, <1>3
  <1> QED
    BY <1>3, <1>4, <1>5 DEF CheckType, Refusals

\* A condition with a refusal is a check.
LEMMA CheckIntro ==
    ASSUME NEW holds \in BOOLEAN, NEW refusal \in Refusals
    PROVE  <<holds, refusal>> \in CheckType
  <1> DEFINE check == <<holds, refusal>>
  <1>1. check[1] = holds /\ check[2] = refusal /\ check \in BOOLEAN \X Verdicts
    BY DEF Verdicts
  <1> HIDE DEF check
  <1>2. check \in CheckType
    BY <1>1 DEF CheckType
  <1> QED
    BY <1>2 DEF check

\* So is a verdict of its own with itself as the refusal.
LEMMA VerdictIntro ==
    ASSUME NEW verdict \in Verdicts
    PROVE  <<verdict = "OK", verdict>> \in CheckType
  <1> DEFINE check == <<verdict = "OK", verdict>>
  <1>1. /\ check[1] = (verdict = "OK") /\ check[2] = verdict
        /\ check \in BOOLEAN \X Verdicts
    OBVIOUS
  <1> HIDE DEF check
  <1>2. check \in CheckType
    BY <1>1 DEF CheckType, Verdicts
  <1> QED
    BY <1>2 DEF check

\* A function on an initial interval is a sequence over what its values are in.
LEMMA SequenceIntro ==
    ASSUME NEW S, NEW n \in Nat, NEW s, s = [c \in 1..n |-> s[c]],
           \A c \in 1..n : s[c] \in S
    PROVE  s \in Seq(S)
  OBVIOUS

\* When all checks of a concatenation hold, all of either part do.
LEMMA CatHolds ==
    ASSUME NEW s \in Seq(CheckType), NEW t \in Seq(CheckType),
           \A c \in 1..Len(s \o t) : (s \o t)[c][1]
    PROVE  /\ s \o t \in Seq(CheckType)
           /\ \A c \in 1..Len(s) : s[c][1]
           /\ \A c \in 1..Len(t) : t[c][1]
  <1>1. Len(s \o t) = Len(s) + Len(t) /\ Len(s) \in Nat /\ Len(t) \in Nat
    OBVIOUS
  <1>2. \A c \in 1..Len(s) : (s \o t)[c] = s[c]
    OBVIOUS
  <1>3. \A c \in 1..Len(t) : (s \o t)[Len(s) + c] = t[c]
    OBVIOUS
  <1>4. \A c \in 1..Len(t) : Len(s) + c \in 1..Len(s \o t)
    BY <1>1
  <1> QED
    BY <1>1, <1>2, <1>3, <1>4

\* Reading up to a place is a check (kq_reader_take).
LEMMA TakeType ==
    ASSUME file.size \in Nat, NEW end \in Int
    PROVE  Take(end) \in CheckType
  <1>1. ViewLength \in Int
    BY GgufAssumption DEF ViewLength
  <1>2. (end <= ViewLength) \in BOOLEAN
    BY <1>1
  <1>3. Take(end)[2] \in Refusals
    BY DEF Take, Refusals
  <1> QED
    BY <1>2, <1>3, CheckIntro DEF Take

\* Reading a text is four checks (kq_read_string).
LEMMA StringType ==
    ASSUME file.size \in Nat, NEW at \in Nat, NEW text
    PROVE  StringChecks(at, text) \in Seq(CheckType) /\ Len(StringChecks(at, text)) = 4
  <1>1. at + 8 \in Int /\ at + StringBytes \in Int
    BY GgufAssumption DEF StringBytes
  <1>2. Take(at + 8) \in CheckType /\ Take(at + StringBytes) \in CheckType
    BY <1>1, TakeType
  <1>3. <<text # TooLong, "LIMIT_EXCEEDED">> \in CheckType
    BY CheckIntro DEF Refusals
  <1>4. <<text # NotUtf8, "MALFORMED_METADATA">> \in CheckType
    BY CheckIntro DEF Refusals
  <1> QED
    BY <1>2, <1>3, <1>4 DEF StringChecks

\* Reading a scalar is a sequence of checks, of known and unknown types.
LEMMA ScalarType ==
    ASSUME file.size \in Nat, NEW at \in Nat, NEW m
    PROVE  ScalarChecks(at, m) \in Seq(CheckType)
  <1>1. CASE m.type \in DOMAIN ScalarBytes
    <2>1. at + ScalarBytes[m.type] \in Int
      BY <1>1 DEF ScalarBytes
    <2>2. Take(at + ScalarBytes[m.type]) \in CheckType
      BY <2>1, TakeType
    <2>3. <<m.type = "BOOL" => m.value \in {0, 1}, "MALFORMED_METADATA">> \in CheckType
      BY CheckIntro DEF Refusals
    <2> QED
      BY <1>1, <2>2, <2>3 DEF ScalarChecks
  <1>2. CASE m.type \notin DOMAIN ScalarBytes
    <2>1. <<FALSE, "UNSUPPORTED_METADATA">> \in CheckType
      BY CheckIntro DEF Refusals
    <2>2. ScalarChecks(at, m) = << <<FALSE, "UNSUPPORTED_METADATA">> >>
      BY <1>2 DEF ScalarChecks
    <2> QED
      BY <2>1, <2>2
  <1> QED
    BY <1>1, <1>2

\* So is reading an array, and it is not accepted with an element type whose
\* size is not known (kq_read_metadata_array).
LEMMA ArrayType ==
    ASSUME file.size \in Nat, NEW at \in Nat, NEW m,
           Len(m.value.items) \in Nat, MaxArray \in Nat
    PROVE  /\ ArrayChecks(at, m) \in Seq(CheckType)
           /\ FirstRefusal(ArrayChecks(at, m)) = "OK"
                => m.value.element \in DOMAIN ElementBytes
  <1> DEFINE items == m.value.items
             head  == << Take(at + 4), Take(at + 12),
                         <<Len(items) <= MaxArray, "LIMIT_EXCEEDED">>,
                         <<m.value.element \in DOMAIN ElementBytes,
                           "UNSUPPORTED_METADATA">> >>
  <1>1. head \in Seq(CheckType)
    <2>1. Take(at + 4) \in CheckType /\ Take(at + 12) \in CheckType
      BY TakeType
    <2>2. <<Len(items) <= MaxArray, "LIMIT_EXCEEDED">> \in CheckType
      <3>1. (Len(items) <= MaxArray) \in BOOLEAN
        OBVIOUS
      <3> QED
        BY <3>1, CheckIntro DEF Refusals
    <2>3. <<m.value.element \in DOMAIN ElementBytes, "UNSUPPORTED_METADATA">>
            \in CheckType
      <3>1. (m.value.element \in DOMAIN ElementBytes) \in BOOLEAN
        OBVIOUS
      <3> QED
        BY <3>1, CheckIntro DEF Refusals
    <2> QED
      BY <2>1, <2>2, <2>3
  <1>2. CASE m.value.element = "STRING"
    <2> DEFINE rest == [c \in 1..4 * Len(items) |->
                          StringChecks(at + 12 + StringBytes * ((c - 1) \div 4),
                                       items[(c - 1) \div 4 + 1])
                            [((c - 1) % 4) + 1]]
    <2>1. ASSUME NEW c \in 1..4 * Len(items)
          PROVE  rest[c] \in CheckType
      <3>1. (c - 1) \div 4 \in Nat /\ ((c - 1) % 4) + 1 \in 1..4
        OBVIOUS
      <3>2. StringBytes * ((c - 1) \div 4) \in Nat
        BY <3>1, GgufAssumption DEF StringBytes
      <3>3. at + 12 + StringBytes * ((c - 1) \div 4) \in Nat
        BY <3>2
      <3> QED
        BY <3>1, <3>3, StringType
    <2>2. rest \in Seq(CheckType)
      <3>1. 4 * Len(items) \in Nat /\ rest = [c \in 1..4 * Len(items) |-> rest[c]]
        OBVIOUS
      <3> HIDE DEF rest
      <3> QED
        BY <2>1, <3>1, SequenceIntro
    <2>3. ArrayChecks(at, m) = head \o rest
      BY <1>2 DEF ArrayChecks
    <2>4. m.value.element \in DOMAIN ElementBytes
      BY <1>2 DEF ElementBytes
    <2> HIDE DEF head, rest
    <2>5. head \o rest \in Seq(CheckType)
      BY <1>1, <2>2
    <2> QED
      BY <2>3, <2>4, <2>5
  <1>3. CASE m.value.element \in {"INT32", "UINT64"}
    <2>1. at + 12 + Len(items) * ElementBytes[m.value.element] \in Int
      BY <1>3 DEF ElementBytes
    <2>2. Take(at + 12 + Len(items) * ElementBytes[m.value.element]) \in CheckType
      BY <2>1, TakeType
    <2>3. ArrayChecks(at, m)
            = Append(head, Take(at + 12 + Len(items) * ElementBytes[m.value.element]))
      BY <1>3 DEF ArrayChecks
    <2> QED
      BY <1>1, <1>3, <2>2, <2>3 DEF ElementBytes
  <1>4. CASE m.value.element \notin {"STRING", "INT32", "UINT64"}
    <2>1. ArrayChecks(at, m) = head
      BY <1>4 DEF ArrayChecks
    <2>2. ASSUME FirstRefusal(head) = "OK" PROVE head[4][1]
      <3>1. Len(head) = 4
        OBVIOUS
      <3> HIDE DEF head
      <3> QED
        BY <1>1, <2>2, <3>1, NoRefusal
    <2> QED
      BY <1>1, <2>1, <2>2
  <1> QED
    BY <1>2, <1>3, <1>4

\* A concatenation that refuses nothing is made of parts that refuse nothing.
LEMMA CatOK ==
    ASSUME NEW s \in Seq(CheckType), NEW t \in Seq(CheckType),
           FirstRefusal(s \o t) = "OK"
    PROVE  FirstRefusal(s) = "OK" /\ FirstRefusal(t) = "OK"
  <1>1. s \o t \in Seq(CheckType)
    OBVIOUS
  <1>2. \A c \in 1..Len(s \o t) : (s \o t)[c][1]
    BY <1>1, NoRefusal
  <1>3. /\ \A c \in 1..Len(s) : s[c][1]
        /\ \A c \in 1..Len(t) : t[c][1]
    BY <1>2, CatHolds
  <1>4. DOMAIN s = 1..Len(s) /\ DOMAIN t = 1..Len(t)
    OBVIOUS
  <1>5. {c \in DOMAIN s : ~s[c][1]} = {} /\ {c \in DOMAIN t : ~t[c][1]} = {}
    BY <1>3, <1>4
  <1> QED
    BY <1>5 DEF FirstRefusal

\* An accepted value has a known number of bytes.
LEMMA ValueType ==
    ASSUME file.size \in Nat, NEW at \in Nat, NEW m,
           m.type = "ARRAY" => Len(m.value.items) \in Nat
    PROVE  /\ ValueChecks(at, m) \in Seq(CheckType)
           /\ FirstRefusal(ValueChecks(at, m)) = "OK" => ValueBytes(m) \in Nat
  <1>1. CASE m.type = "STRING"
    BY <1>1, StringType, GgufAssumption DEF ValueChecks, ValueBytes, StringBytes
  <1>2. CASE m.type = "ARRAY"
    <2>1. MaxArray \in Nat
      BY GgufAssumption
    <2>2. ValueChecks(at, m) = ArrayChecks(at, m)
      BY <1>2 DEF ValueChecks
    <2>3. ASSUME m.value.element \in DOMAIN ElementBytes PROVE ValueBytes(m) \in Nat
      <3>1. ElementBytes[m.value.element] \in Nat
        BY <2>3, GgufAssumption DEF ElementBytes, StringBytes
      <3>2. Len(m.value.items) * ElementBytes[m.value.element] \in Nat
        BY <1>2, <3>1
      <3> QED
        BY <1>2, <3>2 DEF ValueBytes
    <2> QED
      BY <1>2, <2>1, <2>2, <2>3, ArrayType
  <1>3. CASE m.type \notin {"STRING", "ARRAY"}
    <2>1. ValueChecks(at, m) = ScalarChecks(at, m) /\ ValueBytes(m) = ScalarBytes[m.type]
      BY <1>3 DEF ValueChecks, ValueBytes
    <2>2. CASE m.type \in DOMAIN ScalarBytes
      BY <2>1, <2>2, ScalarType DEF ScalarBytes
    <2>3. CASE m.type \notin DOMAIN ScalarBytes
      <3>1. ScalarChecks(at, m) = << <<FALSE, "UNSUPPORTED_METADATA">> >>
        BY <2>3 DEF ScalarChecks
      <3>2. ASSUME FirstRefusal(ScalarChecks(at, m)) = "OK" PROVE FALSE
        <4>1. \A c \in 1..Len(ScalarChecks(at, m)) : ScalarChecks(at, m)[c][1]
          BY <3>2, NoRefusal, ScalarType
        <4> DEFINE refused == <<FALSE, "UNSUPPORTED_METADATA">>
        <4>2. refused[1] = FALSE /\ ScalarChecks(at, m) = <<refused>>
          BY <3>1
        <4> HIDE DEF refused
        <4>3. Len(ScalarChecks(at, m)) = 1 /\ ScalarChecks(at, m)[1] = refused
          BY <4>2
        <4> QED
          BY <4>1, <4>2, <4>3
      <3> QED
        BY <2>1, <3>2, ScalarType
    <2> QED
      BY <2>2, <2>3
  <1> QED
    BY <1>1, <1>2, <1>3

\* The reader moves by a natural number over an accepted metadata record.
LEMMA MetadataAdvances ==
    ASSUME file.size \in Nat, NEW at \in Nat, NEW before \in Nat,
           file.metadata[before + 1].type = "ARRAY"
             => Len(file.metadata[before + 1].value.items) \in Nat,
           FirstRefusal(MetadataChecks(at, before)) = "OK"
    PROVE  MetadataBytes(file.metadata[before + 1]) \in Nat
  <1> DEFINE m     == file.metadata[before + 1]
             key   == StringChecks(at, m.key)
             fresh == << <<\A k \in 1..before : file.metadata[k].key # m.key,
                           "DUPLICATE_METADATA">>,
                         Take(at + StringBytes + 4) >>
             value == ValueChecks(at + StringBytes + 4, m)
             kinds == << <<m.key = "general.architecture" => m.type = "STRING",
                           "MALFORMED_METADATA">>,
                         <<m.key = "general.alignment" => m.type = "UINT32",
                           "MALFORMED_METADATA">> >>
  <1>1. MetadataChecks(at, before) = ((key \o fresh) \o value) \o kinds
    BY DEF MetadataChecks
  <1>2. StringBytes \in Nat /\ at + StringBytes + 4 \in Nat
    BY GgufAssumption, SMTT(30) DEF StringBytes
  <1>3. key \in Seq(CheckType)
    BY StringType
  <1>4. fresh \in Seq(CheckType)
    <2>1. (\A k \in 1..before : file.metadata[k].key # m.key) \in BOOLEAN
      OBVIOUS
    <2>2. <<\A k \in 1..before : file.metadata[k].key # m.key, "DUPLICATE_METADATA">>
            \in CheckType
      BY <2>1, CheckIntro DEF Refusals
    <2>3. Take(at + StringBytes + 4) \in CheckType
      BY <1>2, TakeType
    <2> QED
      BY <2>2, <2>3
  <1>5. value \in Seq(CheckType)
    BY <1>2, ValueType
  <1>6. kinds \in Seq(CheckType)
    <2>1. <<m.key = "general.architecture" => m.type = "STRING", "MALFORMED_METADATA">>
            \in CheckType
      BY CheckIntro DEF Refusals
    <2>2. <<m.key = "general.alignment" => m.type = "UINT32", "MALFORMED_METADATA">>
            \in CheckType
      BY CheckIntro DEF Refusals
    <2> QED
      BY <2>1, <2>2
  <1>7. FirstRefusal(value) = "OK"
    <2> HIDE DEF key, fresh, value, kinds
    <2>1. key \o fresh \in Seq(CheckType) /\ (key \o fresh) \o value \in Seq(CheckType)
      BY <1>3, <1>4, <1>5
    <2>2. FirstRefusal((key \o fresh) \o value) = "OK"
      BY <1>1, <1>6, <2>1, CatOK
    <2> QED
      BY <1>5, <2>1, <2>2, CatOK
  <1>8. ValueBytes(m) \in Nat
    BY <1>2, <1>7, ValueType
  <1> QED
    BY <1>2, <1>8 DEF MetadataBytes

\* One more factor of a product that may have overflowed.
Times(p, x) == IF p = 0 \/ x > MaxWord \div p THEN 0 ELSE p * x

\* The table of the products of the first dimensions.
Tabulates(f, dimensions, n) ==
    f = [d \in 0..n |-> IF d = 0 THEN 1 ELSE Times(f[d - 1], dimensions[d])]

\* There is such a table: a least number of dimensions without one would have
\* the one before it, to which a factor can be added.
LEMMA TableExists ==
    ASSUME NEW dimensions, NEW n \in Nat
    PROVE  \E f : Tabulates(f, dimensions, n)
  <1> DEFINE without == {k \in 0..n : ~\E g : Tabulates(g, dimensions, k)}
  <1>1. SUFFICES ASSUME without # {} PROVE FALSE
    <2>1. n \in 0..n
      OBVIOUS
    <2> QED
      BY <2>1
  <1>2. PICK k \in without : \A j \in without : k <= j
    <2>1. without \in SUBSET Nat
      OBVIOUS
    <2> HIDE DEF without
    <2> QED
      BY <1>1, <2>1, Least
  <1>3. k \in 0..n /\ ~\E f : Tabulates(f, dimensions, k)
    OBVIOUS
  <1>4. CASE k = 0
    <2>1. Tabulates([d \in 0..0 |-> 1], dimensions, 0)
      BY DEF Tabulates
    <2> QED
      BY <1>3, <1>4, <2>1
  <1>5. CASE k # 0
    <2>1. k - 1 \in 0..n /\ ~(k <= k - 1)
      BY <1>3, <1>5
    <2>2. k - 1 \notin without
      <3> HIDE DEF without
      <3> QED
        BY <1>2, <2>1
    <2>3. PICK g : Tabulates(g, dimensions, k - 1)
      BY <2>1, <2>2
    <2> DEFINE h == [d \in 0..k |-> IF d = k THEN Times(g[k - 1], dimensions[k]) ELSE g[d]]
    <2>4. \A d \in 0..k - 1 : h[d] = g[d]
      BY <1>3
    <2>5. h[k] = Times(g[k - 1], dimensions[k])
      BY <1>3
    <2>6. h = [d \in 0..k |-> h[d]]
      OBVIOUS
    <2> HIDE DEF h
    <2>7. \A d \in 0..k - 1 : g[d] = IF d = 0 THEN 1 ELSE Times(g[d - 1], dimensions[d])
      BY <2>3 DEF Tabulates
    <2>8. ASSUME NEW d \in 0..k
          PROVE  h[d] = IF d = 0 THEN 1 ELSE Times(h[d - 1], dimensions[d])
      <3>1. CASE d = k
        <4>1. k - 1 \in 0..k - 1
          BY <1>3, <1>5
        <4>2. h[k - 1] = g[k - 1]
          BY <2>4, <4>1
        <4> QED
          BY <1>5, <2>5, <3>1, <4>2
      <3>2. CASE d # k
        <4>1. d \in 0..k - 1 /\ (d # 0 => d - 1 \in 0..k - 1)
          BY <1>3, <3>2
        <4>2. h[d] = g[d] /\ (d # 0 => h[d - 1] = g[d - 1])
          BY <2>4, <4>1
        <4> QED
          BY <2>7, <4>1, <4>2
      <3> QED
        BY <3>1, <3>2
    <2>9. Tabulates(h, dimensions, k)
      BY <2>6, <2>8, Zenon DEF Tabulates
    <2> QED
      BY <1>3, <2>9
  <1> QED
    BY <1>4, <1>5

\* Two tables agree as far as both go.
LEMMA TablesAgree ==
    ASSUME NEW dimensions, NEW m \in Nat, NEW n \in Nat, m <= n,
           NEW f, Tabulates(f, dimensions, m), NEW g, Tabulates(g, dimensions, n)
    PROVE  f[m] = g[m]
  <1> DEFINE apart == {d \in 0..m : f[d] # g[d]}
  <1>1. \A d \in 0..m : f[d] = IF d = 0 THEN 1 ELSE Times(f[d - 1], dimensions[d])
    BY DEF Tabulates
  <1>2. \A d \in 0..n : g[d] = IF d = 0 THEN 1 ELSE Times(g[d - 1], dimensions[d])
    BY DEF Tabulates
  <1>3. apart = {}
    <2>1. SUFFICES ASSUME apart # {} PROVE FALSE
      OBVIOUS
    <2>2. apart \in SUBSET Nat
      OBVIOUS
    <2>3. PICK d \in apart : \A e \in apart : d <= e
      <3> HIDE DEF apart
      <3> QED
        BY <2>1, <2>2, Least
    <2>4. d \in 0..m /\ d \in 0..n /\ f[d] # g[d]
      OBVIOUS
    <2>5. d # 0
      BY <1>1, <1>2, <2>4
    <2>6. d - 1 \in 0..m /\ ~(d <= d - 1)
      BY <2>4, <2>5
    <2>7. d - 1 \notin apart
      <3> HIDE DEF apart
      <3> QED
        BY <2>3, <2>6
    <2>8. f[d - 1] = g[d - 1]
      BY <2>6, <2>7
    <2> QED
      BY <1>1, <1>2, <2>4, <2>5, <2>8
  <1>4. m \in 0..m
    OBVIOUS
  <1> QED
    BY <1>3, <1>4

\* A product is the value of any table.
LEMMA ProductTabulated ==
    ASSUME NEW dimensions, NEW n \in Nat
    PROVE  \E f : Tabulates(f, dimensions, n) /\ Product(dimensions, n) = f[n]
  <1> DEFINE f == CHOOSE g : Tabulates(g, dimensions, n)
  <1>1. Tabulates(f, dimensions, n)
    BY TableExists
  <1>2. Product(dimensions, n) = f[n]
    BY Zenon DEF Product, Tabulates, Times
  <1> HIDE DEF f
  <1> QED
    BY <1>1, <1>2

\* Dimension by dimension.
LEMMA ProductStep ==
    ASSUME NEW dimensions, NEW n \in Nat
    PROVE  Product(dimensions, n) =
             IF n = 0 THEN 1 ELSE Times(Product(dimensions, n - 1), dimensions[n])
  <1>1. PICK f : Tabulates(f, dimensions, n) /\ Product(dimensions, n) = f[n]
    BY ProductTabulated
  <1>2. n \in 0..n
    OBVIOUS
  <1>3. f[n] = IF n = 0 THEN 1 ELSE Times(f[n - 1], dimensions[n])
    BY <1>1, <1>2 DEF Tabulates
  <1>4. CASE n = 0
    BY <1>1, <1>3, <1>4
  <1>5. CASE n # 0
    <2>1. n - 1 \in Nat /\ n - 1 <= n
      BY <1>5
    <2>2. PICK g : Tabulates(g, dimensions, n - 1) /\ Product(dimensions, n - 1) = g[n - 1]
      BY <2>1, ProductTabulated
    <2>3. g[n - 1] = f[n - 1]
      BY <1>1, <2>1, <2>2, TablesAgree
    <2> QED
      BY <1>1, <1>3, <1>5, <2>2, <2>3
  <1> QED
    BY <1>4, <1>5

\* What a factor does to a number.
LEMMA TimesType ==
    ASSUME NEW p \in Nat, NEW x \in Nat
    PROVE  /\ Times(p, x) = IF p * x <= MaxWord THEN p * x ELSE 0
           /\ Times(p, x) \in Nat
  <1>0. MaxWord \in Nat
    BY GgufAssumption
  <1>1. CASE p = 0
    BY <1>0, <1>1 DEF Times
  <1>2. CASE p # 0
    <2> DEFINE q == MaxWord \div p
               r == MaxWord % p
    <2>1. q \in Nat /\ r \in Nat /\ r < p /\ MaxWord = p * q + r
      BY <1>0, <1>2
    <2> HIDE DEF q, r
    <2>2. x > q <=> p * x > MaxWord
      <3>1. CASE x <= q
        <4>1. p * x <= p * q
          BY <2>1, <3>1
        <4>2. p * x \in Nat /\ p * q \in Nat
          BY <2>1
        <4> QED
          BY <1>0, <2>1, <3>1, <4>1, <4>2
      <3>2. CASE x > q
        <4>1. x >= q + 1
          BY <2>1, <3>2
        <4>2. p * x >= p * (q + 1)
          BY <2>1, <4>1
        <4>3. p * (q + 1) = p * q + p
          BY <2>1
        <4>4. p * x \in Nat /\ p * q \in Nat
          BY <2>1
        <4> QED
          BY <1>0, <2>1, <3>2, <4>2, <4>3, <4>4
      <3> QED
        BY <2>1, <3>1, <3>2
    <2>3. p * x \in Nat
      OBVIOUS
    <2> QED
      BY <1>0, <1>2, <2>2, <2>3 DEF Times, q
  <1> QED
    BY <1>1, <1>2

\* A product is a natural number, and a multiple of whatever its first factor
\* is a multiple of.
LEMMA ProductFacts ==
    ASSUME NEW dimensions \in Seq(Nat), NEW n \in 0..Len(dimensions)
    PROVE  /\ Product(dimensions, n) \in Nat
           /\ \A e \in Nat \ {0} :
                n # 0 /\ dimensions[1] % e = 0 => Product(dimensions, n) % e = 0
  <1> DEFINE holds(k) ==
               /\ Product(dimensions, k) \in Nat
               /\ \A e \in Nat \ {0} :
                    k # 0 /\ dimensions[1] % e = 0 => Product(dimensions, k) % e = 0
             fails == {k \in 0..n : ~holds(k)}
  <1>1. SUFFICES ASSUME fails # {} PROVE FALSE
    <2>1. n \in 0..n
      OBVIOUS
    <2>2. holds(n)
      <3> HIDE DEF holds
      <3> QED
        BY <2>1
    <2> QED
      BY <2>2
  <1>2. PICK k \in fails : \A j \in fails : k <= j
    <2>1. fails \in SUBSET Nat
      OBVIOUS
    <2> HIDE DEF fails
    <2> QED
      BY <1>1, <2>1, Least
  <1>3. k \in 0..n /\ ~holds(k)
    <2> HIDE DEF holds
    <2> QED
      OBVIOUS
  <1>4. k # 0
    <2>1. Product(dimensions, 0) = 1
      BY ProductStep
    <2> QED
      BY <1>3, <2>1
  <1>5. k - 1 \in 0..n /\ ~(k <= k - 1) /\ k \in Nat /\ k \in 1..Len(dimensions)
    BY <1>3, <1>4
  <1>6. holds(k - 1)
    <2>1. k - 1 \notin fails
      <3> HIDE DEF fails
      <3> QED
        BY <1>2, <1>5
    <2> HIDE DEF holds
    <2> QED
      BY <1>5, <2>1
  <1> DEFINE p == Product(dimensions, k - 1)
             x == dimensions[k]
  <1>7. Product(dimensions, k) = Times(p, x)
    BY <1>4, <1>5, ProductStep
  <1>8. p \in Nat /\ x \in Nat
    BY <1>5, <1>6
  <1>9. Product(dimensions, k) \in Nat
    BY <1>7, <1>8, TimesType
  <1>10. ASSUME NEW e \in Nat \ {0}, dimensions[1] % e = 0
         PROVE  Product(dimensions, k) % e = 0
    <2>1. x % e = 0 \/ p % e = 0
      <3>1. k = 1 => x % e = 0
        BY <1>10
      <3>2. k # 1 => k - 1 # 0
        BY <1>5
      <3> QED
        BY <1>6, <1>10, <3>1, <3>2
    <2>2. (p * x) % e = 0
      <3>1. \A a \in Nat, b \in Nat : a % e = 0 => (a * b) % e = 0
        <4> SUFFICES ASSUME NEW a \in Nat, NEW b \in Nat, a % e = 0 PROVE (a * b) % e = 0
          OBVIOUS
        <4> DEFINE q == a \div e
        <4>1. q \in Nat /\ a = e * q
          OBVIOUS
        <4> HIDE DEF q
        <4>2. a * b = e * (q * b) /\ q * b \in Nat
          BY <4>1
        <4>3. \A c \in Nat : (e * c) % e = 0
          OBVIOUS
        <4> QED
          BY <4>2, <4>3
      <3>2. p * x = x * p
        BY <1>8
      <3> HIDE DEF p, x
      <3> QED
        BY <1>8, <2>1, <3>1, <3>2
    <2>3. 0 % e = 0
      OBVIOUS
    <2> HIDE DEF p, x
    <2> QED
      BY <1>7, <1>8, <2>2, <2>3, TimesType
  <1> QED
    BY <1>3, <1>9, <1>10

\* The packed size of a tensor of a known type is a natural number.
LEMMA PackedType ==
    ASSUME NEW t, t.dimensions \in Seq(Nat), t.type \in DOMAIN TypeInfo
    PROVE  /\ TypeInfo[t.type].elements \in Nat \ {0}
           /\ TypeInfo[t.type].bytes \in Nat \ {0}
           /\ Elements(t) \in Nat
           /\ Packed(t) \in Nat
  <1>1. TypeInfo[t.type].elements \in Nat \ {0} /\ TypeInfo[t.type].bytes \in Nat \ {0}
    BY DEF TypeInfo
  <1>2. Elements(t) \in Nat
    <2>1. Len(t.dimensions) \in 0..Len(t.dimensions)
      OBVIOUS
    <2> QED
      BY <2>1, ProductFacts DEF Elements
  <1>3. Elements(t) \div TypeInfo[t.type].elements \in Nat
    <2>1. \A a \in Nat, b \in Nat \ {0} : a \div b \in Nat
      OBVIOUS
    <2> QED
      BY ONLY <1>1, <1>2, <2>1, Zenon
  <1>4. (Elements(t) \div TypeInfo[t.type].elements) * TypeInfo[t.type].bytes \in Nat
    <2>1. \A a, b \in Nat : a * b \in Nat
      OBVIOUS
    <2> QED
      BY ONLY <1>1, <1>3, <2>1, Zenon
  <1> QED
    BY <1>1, <1>2, <1>4 DEF Packed

\* The last three tests of a tensor record are checks.
LEMMA LayoutType ==
    ASSUME NEW t, t.dimensions \in Seq(Nat), t.type \in DOMAIN TypeInfo
    PROVE  LayoutChecks(t) \in Seq(CheckType)
  <1>1. <<t.offset % gguf.alignment = 0, "INVALID_ALIGNMENT">> \in CheckType
    BY CheckIntro DEF Refusals
  <1>2. <<t.dimensions[1] % TypeInfo[t.type].elements = 0, "MALFORMED_TENSOR">>
          \in CheckType
    BY CheckIntro DEF Refusals
  <1>3. <<PackedFits(t), "ARITHMETIC_OVERFLOW">> \in CheckType
    <2>1. Elements(t) \div TypeInfo[t.type].elements \in Int
      BY PackedType
    <2>2. MaxWord \div TypeInfo[t.type].bytes \in Int
      BY PackedType, GgufAssumption
    <2>3. PackedFits(t) \in BOOLEAN
      BY <2>1, <2>2 DEF PackedFits
    <2> QED
      BY <2>3, CheckIntro DEF Refusals
  <1> QED
    BY <1>1, <1>2, <1>3 DEF LayoutChecks

\* A tensor of a known type, with dimensions, the fastest of which is whole
\* blocks of it, whose elements can be counted and their bytes too.
Blocked(t) ==
    /\ t.type \in DOMAIN TypeInfo /\ Len(t.dimensions) \in 1..MaxDimensions
    /\ t.dimensions[1] % TypeInfo[t.type].elements = 0
    /\ Elements(t) # 0 /\ Elements(t) % TypeInfo[t.type].elements = 0
    /\ PackedFits(t)

\* An accepted tensor record has a known type and whole blocks of it, and the
\* reader moves by a natural number over it (one turn of the loop of
\* kq_parse_tensors).
LEMMA TensorAdvances ==
    ASSUME file.size \in Nat, NEW at \in Nat, NEW before \in Nat,
           file.tensors[before + 1].dimensions \in Seq(Nat),
           FirstRefusal(TensorChecks(at, before)) = "OK"
    PROVE  /\ Blocked(file.tensors[before + 1])
           /\ TensorBytes(file.tensors[before + 1]) \in Nat
  <1> DEFINE t      == file.tensors[before + 1]
             dims   == at + StringBytes + 4
             rank   == Len(t.dimensions)
             ends   == dims + 8 * rank
             name   == StringChecks(at, t.name)
             fresh  == << <<\A k \in 1..before : file.tensors[k].name # t.name,
                            "DUPLICATE_TENSOR">>,
                          Take(dims),
                          <<Len(t.dimensions) \in 1..MaxDimensions,
                            "MALFORMED_TENSOR">> >>
             shape  == DimensionChecks(dims, t)
             known  == << Take(ends + 4),
                          <<t.type \in DOMAIN TypeInfo, "UNSUPPORTED_TENSOR_TYPE">> >>
             layout == IF t.type \in DOMAIN TypeInfo /\ t.dimensions # << >>
                         THEN <<Take(ends + 12)>> \o LayoutChecks(t)
                         ELSE << >>
  <1>1. TensorChecks(at, before) = (((name \o fresh) \o shape) \o known) \o layout
    BY DEF TensorChecks
  <1>2. /\ StringBytes \in Nat /\ dims \in Nat /\ ends \in Nat
        /\ rank \in Nat
    <2>1. StringBytes \in Nat
      BY GgufAssumption DEF StringBytes
    <2>2. rank \in Nat
      OBVIOUS
    <2> HIDE DEF rank
    <2> QED
      BY <2>1, <2>2
  <1>3. name \in Seq(CheckType)
    BY StringType
  <1>4. fresh \in Seq(CheckType)
    <2>1. (\A k \in 1..before : file.tensors[k].name # t.name) \in BOOLEAN
      OBVIOUS
    <2>2. <<\A k \in 1..before : file.tensors[k].name # t.name, "DUPLICATE_TENSOR">>
            \in CheckType
      BY <2>1, CheckIntro DEF Refusals
    <2>3. Take(dims) \in CheckType
      BY <1>2, TakeType
    <2>4. <<Len(t.dimensions) \in 1..MaxDimensions, "MALFORMED_TENSOR">> \in CheckType
      <3>1. (Len(t.dimensions) \in 1..MaxDimensions) \in BOOLEAN
        OBVIOUS
      <3> QED
        BY <3>1, CheckIntro DEF Refusals
    <2> QED
      BY <2>2, <2>3, <2>4
  <1>5. shape \in Seq(CheckType)
    <2> DEFINE check(c) ==
                 LET d == (c - 1) \div 3 + 1
                 IN  << Take(dims + 8 * d),
                        <<t.dimensions[d] # 0, "MALFORMED_TENSOR">>,
                        <<Product(t.dimensions, d) # 0, "ARITHMETIC_OVERFLOW">> >>
                       [((c - 1) % 3) + 1]
    <2>1. ASSUME NEW c \in 1..3 * Len(t.dimensions) PROVE check(c) \in CheckType
      <3> DEFINE d == (c - 1) \div 3 + 1
      <3>1. d \in Nat /\ ((c - 1) % 3) + 1 \in 1..3
        OBVIOUS
      <3>2. Take(dims + 8 * d) \in CheckType
        <4>1. dims + 8 * d \in Int
          BY <1>2, <3>1
        <4> QED
          BY <4>1, TakeType
      <3>3. <<t.dimensions[d] # 0, "MALFORMED_TENSOR">> \in CheckType
        BY CheckIntro DEF Refusals
      <3>4. <<Product(t.dimensions, d) # 0, "ARITHMETIC_OVERFLOW">> \in CheckType
        BY CheckIntro DEF Refusals
      <3> DEFINE turn == << Take(dims + 8 * d),
                            <<t.dimensions[d] # 0, "MALFORMED_TENSOR">>,
                            <<Product(t.dimensions, d) # 0, "ARITHMETIC_OVERFLOW">> >>
      <3>5. turn \in Seq(CheckType) /\ Len(turn) = 3
        BY <3>2, <3>3, <3>4
      <3> DEFINE at3 == ((c - 1) % 3) + 1
      <3>6. check(c) = turn[at3]
        OBVIOUS
      <3>7. at3 \in 1..3
        BY <3>1
      <3>8. DOMAIN turn = 1..3 /\ \A k \in 1..3 : turn[k] \in CheckType
        BY <3>5
      <3> HIDE DEF turn, check, at3
      <3> QED
        BY <3>6, <3>7, <3>8
    <2>2. shape = [c \in 1..3 * Len(t.dimensions) |-> check(c)]
      BY DEF DimensionChecks
    <2>3. 3 * Len(t.dimensions) \in Nat
      OBVIOUS
    <2> HIDE DEF shape, check
    <2> QED
      BY <2>1, <2>2, <2>3, SequenceIntro
  <1>6. known \in Seq(CheckType)
    <2>1. Take(ends + 4) \in CheckType
      <3> HIDE DEF ends
      <3> QED
        BY <1>2, TakeType
    <2>2. <<t.type \in DOMAIN TypeInfo, "UNSUPPORTED_TENSOR_TYPE">> \in CheckType
      <3>1. (t.type \in DOMAIN TypeInfo) \in BOOLEAN
        OBVIOUS
      <3> QED
        BY <3>1, CheckIntro DEF Refusals
    <2> QED
      BY <2>1, <2>2
  <1>7. layout \in Seq(CheckType)
    <2>1. Take(ends + 12) \in CheckType
      <3> HIDE DEF ends
      <3> QED
        BY <1>2, TakeType
    <2>2. t.type \in DOMAIN TypeInfo => LayoutChecks(t) \in Seq(CheckType)
      BY LayoutType
    <2>3. << >> \in Seq(CheckType)
      OBVIOUS
    <2> QED
      BY <2>1, <2>2, <2>3
  <1>8. /\ FirstRefusal(known) = "OK" /\ FirstRefusal(layout) = "OK"
        /\ FirstRefusal(fresh) = "OK" /\ FirstRefusal(shape) = "OK"
    <2> HIDE DEF name, fresh, shape, known, layout
    <2>1. /\ name \o fresh \in Seq(CheckType)
          /\ (name \o fresh) \o shape \in Seq(CheckType)
          /\ ((name \o fresh) \o shape) \o known \in Seq(CheckType)
      BY <1>3, <1>4, <1>5, <1>6
    <2>2. /\ FirstRefusal(((name \o fresh) \o shape) \o known) = "OK"
          /\ FirstRefusal(layout) = "OK"
      BY <1>1, <1>7, <2>1, CatOK
    <2>3. FirstRefusal((name \o fresh) \o shape) = "OK" /\ FirstRefusal(known) = "OK"
      BY <1>6, <2>1, <2>2, CatOK
    <2>4. FirstRefusal(name \o fresh) = "OK" /\ FirstRefusal(shape) = "OK"
      BY <1>5, <2>1, <2>3, CatOK
    <2> QED
      BY <1>3, <1>4, <2>2, <2>3, <2>4, CatOK
  <1>9. t.type \in DOMAIN TypeInfo
    <2>1. SUFFICES ASSUME t.type \notin DOMAIN TypeInfo PROVE FALSE
      OBVIOUS
    <2> DEFINE unknown == <<t.type \in DOMAIN TypeInfo, "UNSUPPORTED_TENSOR_TYPE">>
    <2>2. unknown[1] = FALSE
      <3> DEFINE is == t.type \in DOMAIN TypeInfo
      <3>1. is = FALSE
        BY <2>1
      <3>2. unknown = <<is, "UNSUPPORTED_TENSOR_TYPE">>
        OBVIOUS
      <3> HIDE DEF is, unknown
      <3> QED
        BY <3>1, <3>2
    <2> HIDE DEF unknown
    <2>3. Len(known) = 2 /\ known[2][1] = FALSE
      <3>1. known = <<Take(ends + 4), unknown>>
        BY DEF unknown
      <3> HIDE DEF known
      <3> QED
        BY <2>2, <3>1
    <2> HIDE DEF known
    <2>4. \A c \in 1..Len(known) : known[c][1]
      BY <1>6, <1>8, NoRefusal
    <2> QED
      BY <2>3, <2>4
  <1>10. TensorBytes(t) \in Nat
    <2>1. TensorBytes(t) = StringBytes + 4 + 8 * rank + 4 + 8
      BY DEF TensorBytes
    <2> HIDE DEF rank
    <2> QED
      BY <1>2, <2>1
  <1>11. rank \in 1..MaxDimensions
    <2> DEFINE ranked == rank \in 1..MaxDimensions
               check  == <<ranked, "MALFORMED_TENSOR">>
    <2>1. check[1] = ranked
      OBVIOUS
    <2>2. Len(fresh) = 3 /\ fresh[3] = check
      OBVIOUS
    <2> HIDE DEF fresh, check
    <2>3. fresh[3][1]
      <3>1. FirstRefusal(fresh) = "OK" /\ 3 \in 1..Len(fresh)
        BY <1>8, <2>2
      <3> QED
        BY ONLY <1>4, <3>1, NoRefusal
    <2> HIDE DEF ranked
    <2>4. ranked
      BY <2>1, <2>2, <2>3
    <2> QED
      BY <2>4 DEF ranked
  <1>12. t.dimensions[1] % TypeInfo[t.type].elements = 0 /\ PackedFits(t)
    <2> DEFINE whole == t.dimensions[1] % TypeInfo[t.type].elements = 0
               fits  == PackedFits(t)
               check == <<whole, "MALFORMED_TENSOR">>
               last  == <<fits, "ARITHMETIC_OVERFLOW">>
               tail  == LayoutChecks(t)
    <2>1. check[1] = whole /\ last[1] = fits
      OBVIOUS
    <2>2. t.dimensions # << >>
      BY <1>11
    <2>3. layout = <<Take(ends + 12)>> \o tail
      BY <1>9, <2>2
    <2>4. <<Take(ends + 12)>> \in Seq(CheckType)
      <3>1. Take(ends + 12) \in CheckType
        <4> HIDE DEF ends
        <4> QED
          BY <1>2, TakeType
      <3> QED
        BY <3>1
    <2>5. tail \in Seq(CheckType)
      BY <1>9, LayoutType
    <2>6. Len(tail) = 3 /\ tail[2] = check /\ tail[3] = last
      BY DEF LayoutChecks
    <2> HIDE DEF tail, layout, check, last
    <2>7. FirstRefusal(tail) = "OK"
      BY <1>8, <2>3, <2>4, <2>5, CatOK
    <2>8. tail[2][1] /\ tail[3][1]
      <3>1. \A c \in 1..3 : tail[c][1]
        BY <2>5, <2>6, <2>7, NoRefusal
      <3> QED
        BY <3>1
    <2> HIDE DEF whole, fits
    <2>9. whole /\ fits
      BY <2>1, <2>6, <2>8
    <2> QED
      BY <2>9 DEF whole, fits
  <1>13. Elements(t) % TypeInfo[t.type].elements = 0
    <2> DEFINE e == TypeInfo[t.type].elements
    <2>1. e \in Nat \ {0}
      BY <1>9, PackedType
    <2>2. rank \in 0..rank /\ rank # 0
      BY <1>11
    <2> HIDE DEF e
    <2>3. Product(t.dimensions, rank) % e = 0
      BY <1>12, <2>1, <2>2, ProductFacts DEF e
    <2> QED
      BY <2>3 DEF e, Elements
  <1>14. Elements(t) # 0
    <2> DEFINE m == 3 * rank
               counted == Product(t.dimensions, rank) # 0
               turn == << Take(dims + 8 * rank),
                          <<t.dimensions[rank] # 0, "MALFORMED_TENSOR">>,
                          <<counted, "ARITHMETIC_OVERFLOW">> >>
    <2>1. m \in 1..m /\ (m - 1) \div 3 + 1 = rank /\ ((m - 1) % 3) + 1 = 3
      <3> HIDE DEF rank
      <3>1. rank \in Nat \ {0}
        BY <1>11 DEF MaxDimensions
      <3> QED
        BY <3>1
    <2>2. turn[3][1] = counted
      <3> DEFINE last == <<counted, "ARITHMETIC_OVERFLOW">>
      <3>1. turn[3] = last /\ last[1] = counted
        OBVIOUS
      <3> QED
        BY <3>1
    <2>3. shape[m] = turn[3]
      <3> DEFINE check(d, k) ==
                   << Take(dims + 8 * d),
                      <<t.dimensions[d] # 0, "MALFORMED_TENSOR">>,
                      <<Product(t.dimensions, d) # 0, "ARITHMETIC_OVERFLOW">> >>[k]
      <3>1. shape = [c \in 1..m |-> check((c - 1) \div 3 + 1, ((c - 1) % 3) + 1)]
        BY DEF DimensionChecks
      <3>2. check(rank, 3) = turn[3]
        OBVIOUS
      <3> HIDE DEF check, shape, turn, m
      <3> QED
        BY <2>1, <3>1, <3>2
    <2>4. DOMAIN shape = 1..m
      BY DEF DimensionChecks
    <2> HIDE DEF turn, shape, counted
    <2>5. m \in 1..Len(shape)
      <3>1. DOMAIN shape = 1..Len(shape)
        BY <1>5
      <3> HIDE DEF m
      <3> QED
        BY <2>1, <2>4, <3>1
    <2>6. shape[m][1]
      BY <1>5, <1>8, <2>5, NoRefusal
    <2>7. counted
      BY <2>2, <2>3, <2>6
    <2> QED
      BY <2>7 DEF counted, Elements
  <1> QED
    BY <1>9, <1>10, <1>11, <1>12, <1>13, <1>14 DEF Blocked

\* An accepted header keeps both counts within the limits the tables have.
LEMMA HeaderBounds ==
    ASSUME {file.metadata_count, file.tensor_count} \subseteq Nat,
           FirstRefusal(HeaderChecks) = "OK"
    PROVE  file.metadata_count <= MaxMetadata /\ file.tensor_count <= MaxTensors
  <1> DEFINE fits(n) == n <= MaxWord \div EntryBytes
  <1>1. \A n \in Nat : fits(n) \in BOOLEAN
    <2>1. MaxWord \div EntryBytes \in Int
      BY GgufAssumption
    <2> QED
      BY <2>1
  <1>2. /\ (file.metadata_count <= MaxMetadata) \in BOOLEAN
        /\ (file.tensor_count <= MaxTensors) \in BOOLEAN
    BY GgufAssumption
  <1> DEFINE c1 == <<file.magic = "GGUF", "BAD_MAGIC">>
             c2 == <<file.version = 3, "UNSUPPORTED_VERSION">>
             c3 == <<file.tensor_count # 0 /\ file.metadata_count # 0,
                     "MALFORMED_METADATA">>
             c4 == <<fits(file.metadata_count), "ARITHMETIC_OVERFLOW">>
             c5 == <<fits(file.tensor_count), "ARITHMETIC_OVERFLOW">>
             c6 == <<file.metadata_count <= MaxMetadata, "LIMIT_EXCEEDED">>
             c7 == <<file.tensor_count <= MaxTensors, "LIMIT_EXCEEDED">>
  <1>3. /\ c1 \in CheckType /\ c2 \in CheckType /\ c3 \in CheckType
    BY CheckIntro DEF Refusals
  <1>4. /\ c4 \in CheckType /\ c5 \in CheckType
    BY <1>1, CheckIntro DEF Refusals
  <1>5. /\ c6 \in CheckType /\ c7 \in CheckType
    BY <1>2, CheckIntro DEF Refusals
  <1>6. HeaderChecks = <<c1, c2, c3, c4, c5, c6, c7>>
    BY DEF HeaderChecks
  <1>7. c6[1] = (file.metadata_count <= MaxMetadata)
    OBVIOUS
  <1>8. c7[1] = (file.tensor_count <= MaxTensors)
    OBVIOUS
  <1> HIDE DEF c1, c2, c3, c4, c5, c6, c7
  <1>9. HeaderChecks \in Seq(CheckType) /\ Len(HeaderChecks) = 7
    BY <1>3, <1>4, <1>5, <1>6
  <1>10. c6[1] /\ c7[1]
    <2>1. \A c \in 1..7 : HeaderChecks[c][1]
      BY <1>9, NoRefusal
    <2> QED
      BY <1>6, <2>1
  <1> QED
    BY <1>7, <1>8, <1>10

\* Some tensors have a first one in the order of the directory: the order
\* is total because equal offsets are told apart by the place in the table.
LEMMA FirstBefore ==
    ASSUME NEW S \in SUBSET Nat, S # {}, \A i \in S : Offset(i) \in Nat
    PROVE  \E i \in S : \A j \in S : j = i \/ Before(i, j)
  <1>1. PICK o \in {Offset(i) : i \in S} : \A p \in {Offset(i) : i \in S} : o <= p
    <2>1. {Offset(i) : i \in S} \in SUBSET Nat /\ {Offset(i) : i \in S} # {}
      OBVIOUS
    <2> QED
      BY <2>1, Least
  <1>2. PICK i \in {j \in S : Offset(j) = o} : \A j \in {k \in S : Offset(k) = o} : i <= j
    <2>1. {j \in S : Offset(j) = o} \in SUBSET Nat /\ {j \in S : Offset(j) = o} # {}
      OBVIOUS
    <2> QED
      BY <2>1, Least
  <1>3. ASSUME NEW j \in S, j # i PROVE Before(i, j)
    <2>1. i \in S /\ Offset(i) = o /\ o <= Offset(j) /\ o \in Nat
      BY <1>1, <1>2
    <2>2. CASE Offset(j) = o
      BY <1>2, <1>3, <2>1, <2>2 DEF Before
    <2>3. CASE Offset(j) # o
      BY <2>1, <2>3 DEF Before
    <2> QED
      BY <2>2, <2>3
  <1> QED
    BY <1>2, <1>3

\* When the loop over the spans refuses none, all of them end in the file
\* and before the one that follows.
LEMMA AcceptedSpans ==
    ASSUME parsed.tensors \in Nat, gguf.data_section \in Nat, file.size \in Nat,
           \A i \in Tensors : Offset(i) \in Nat /\ Packed(Tensor(i)) \in Nat,
           SpansRefusal = "OK"
    PROVE  \A i \in Tensors : /\ gguf.data_section + End(i) <= file.size
                              /\ StopsBeforeFollowing(i)
  <1>1. Tensors \in SUBSET Nat
    BY DEF Tensors
  <1>2. BadSpans = {}
    <2>1. SUFFICES ASSUME BadSpans # {} PROVE FALSE
      OBVIOUS
    <2>2. \E i \in BadSpans : \A j \in BadSpans : j = i \/ Before(i, j)
      BY <1>1, <2>1, FirstBefore DEF BadSpans
    <2> DEFINE bad == CHOOSE i \in BadSpans : \A j \in BadSpans : j = i \/ Before(i, j)
    <2>3. bad \in BadSpans
      BY <2>2
    <2>4. FirstRefusal(SpanChecks(bad)) = "OK"
      BY <2>1 DEF SpansRefusal
    <2> HIDE DEF bad
    <2> QED
      BY <2>3, <2>4 DEF BadSpans
  <1> SUFFICES ASSUME NEW i \in Tensors
               PROVE  gguf.data_section + End(i) <= file.size /\ StopsBeforeFollowing(i)
    OBVIOUS
  <1>3. FirstRefusal(SpanChecks(i)) = "OK"
    BY <1>2 DEF BadSpans
  <1>4. Offset(i) \in Nat /\ Packed(Tensor(i)) \in Nat /\ End(i) \in Nat
    BY DEF End
  <1> DEFINE b1 == AddFits(Offset(i), Packed(Tensor(i)))
             b2 == AddFits(gguf.data_section, End(i))
             b3 == gguf.data_section + End(i) <= file.size
             b4 == StopsBeforeFollowing(i)
  <1>5. b1 \in BOOLEAN /\ b2 \in BOOLEAN /\ b3 \in BOOLEAN
    BY <1>4, GgufAssumption DEF AddFits
  <1>6. b4 \in BOOLEAN
    BY DEF StopsBeforeFollowing
  <1>7. SpanChecks(i) = << <<b1, "ARITHMETIC_OVERFLOW">>, <<b2, "ARITHMETIC_OVERFLOW">>,
                           <<b3, "SPAN_OUT_OF_RANGE">>,
                           <<b4, "INCONSISTENT_DATA_SECTION">> >>
    BY DEF SpanChecks
  <1> HIDE DEF b1, b2, b3, b4
  <1> DEFINE c1 == <<b1, "ARITHMETIC_OVERFLOW">>
             c2 == <<b2, "ARITHMETIC_OVERFLOW">>
             c3 == <<b3, "SPAN_OUT_OF_RANGE">>
             c4 == <<b4, "INCONSISTENT_DATA_SECTION">>
  <1>8. c1 \in CheckType /\ c2 \in CheckType /\ c3 \in CheckType /\ c4 \in CheckType
    BY <1>5, <1>6, CheckIntro DEF Refusals
  <1>9. c3[1] = b3 /\ c4[1] = b4 /\ SpanChecks(i) = <<c1, c2, c3, c4>>
    BY <1>7
  <1> HIDE DEF c1, c2, c3, c4
  <1>10. SpanChecks(i) \in Seq(CheckType) /\ Len(SpanChecks(i)) = 4
    BY <1>8, <1>9
  <1>11. \A c \in 1..4 : SpanChecks(i)[c][1]
    BY <1>3, <1>10, NoRefusal
  <1>12. b3 /\ b4
    BY <1>9, <1>11
  <1> QED
    BY <1>12 DEF b3, b4

\* A span that ends before the following one starts ends before all others
\* behind it: no two spans overlap (the one comparison of kq_validate_spans).
LEMMA NeighboursSuffice ==
    ASSUME parsed.tensors \in Nat,
           \A i \in Tensors : /\ Offset(i) \in Nat /\ Packed(Tensor(i)) \in Nat
                             /\ StopsBeforeFollowing(i),
           NEW i \in Tensors, NEW j \in Tensors \ {i}
    PROVE  End(i) <= Offset(j) \/ End(j) <= Offset(i)
  <1>1. Tensors \in SUBSET Nat
    BY DEF Tensors
  <1>2. \A k \in Tensors : Offset(k) \in Nat /\ End(k) \in Nat
    BY DEF End
  <1>3. ASSUME NEW p \in Tensors, NEW q \in Tensors, Before(p, q)
        PROVE  End(p) <= Offset(q)
    <2>1. q \in After(p) /\ After(p) \in SUBSET Tensors
      BY <1>3 DEF After
    <2>2. \E k \in After(p) : \A l \in After(p) : l = k \/ Before(k, l)
      BY <1>1, <1>2, <2>1, FirstBefore
    <2>3. /\ Following(p) \in After(p)
          /\ \A l \in After(p) : l = Following(p) \/ Before(Following(p), l)
      BY <2>2 DEF Following
    <2>4. End(p) <= Offset(Following(p))
      BY <2>1 DEF StopsBeforeFollowing
    <2>5. q = Following(p) \/ Before(Following(p), q)
      BY <2>1, <2>3
    <2>6. Offset(Following(p)) <= Offset(q)
      BY <1>2, <2>1, <2>3, <2>5 DEF Before
    <2> QED
      BY <1>2, <2>1, <2>3, <2>4, <2>6
  <1>4. Before(i, j) \/ Before(j, i)
    BY <1>1, <1>2 DEF Before
  <1> QED
    BY <1>3, <1>4

\* Aligning moves forward.
LEMMA AlignUpAbove ==
    ASSUME NEW value \in Nat, gguf.alignment \in Alignments
    PROVE  AlignUp(value) \in Nat /\ value <= AlignUp(value)
  BY DEF AlignUp, Alignments
-----------------------------------------------------------------------------
(* The inductive invariant.                                                *)

\* What an open file holds.
FileParts == {"handle", "mapping", "file"}

\* What may be held in each stage.
HeldAt ==
    [path |-> {}, handle |-> {"handle"}, sized |-> {"handle"},
     mapped |-> {"handle", "mapping"}, granularity |-> FileParts,
     file |-> FileParts, gguf |-> FileParts \cup {"gguf"},
     header |-> FileParts \cup {"gguf", "directory"},
     tables |-> FileParts \cup {"gguf", "directory"},
     metadata |-> FileParts \cup Container, tensors |-> FileParts \cup Container,
     order |-> FileParts \cup Container,
     spans |-> FileParts \cup Container \cup {"order"},
     container |-> FileParts \cup Container,
     entries |-> FileParts \cup Container \cup RegistryParts,
     allocated |-> FileParts \cup Container \cup RegistryParts,
     identity |-> FileParts \cup Container \cup RegistryParts,
     registry |-> FileParts \cup Container \cup RegistryParts,
     model |-> FileParts \cup Container \cup RegistryParts \cup TokenizerParts,
     cleanup |-> FileParts, closed |-> {}]

\* Nothing is held that the exits of the stage do not release.
HeldByStage == stage \in DOMAIN HeldAt /\ held \subseteq HeldAt[stage]

\* The file is one of those given; the cursor and the counts are numbers.
Typed ==
    /\ \E f \in Files : file = Image(f)
    /\ reader \in Nat /\ parsed \in [metadata : Nat, tensors : Nat]
    /\ DOMAIN gguf = DOMAIN EmptyGguf

\* The stages in which no tensor has been read, those of an open container,
\* and all behind the first.
Early == {"path", "handle", "sized", "mapped", "granularity", "file", "gguf",
          "header", "tables", "metadata"}

Opened == {"container", "entries", "allocated", "identity", "registry", "model"}

Directory == {"tensors", "order", "spans"} \cup Opened

\* What has been counted so far: the counts of the header are within the
\* limits, and every tensor that was parsed is whole blocks of a known type.
Counted ==
    /\ stage \in Early => parsed.tensors = 0
    /\ stage \in {"tables", "metadata"} \cup Directory =>
         file.metadata_count <= MaxMetadata /\ file.tensor_count <= MaxTensors
    /\ stage \in Directory =>
         /\ parsed.tensors <= file.tensor_count
         /\ gguf.alignment \in Alignments
         /\ \A i \in 1..parsed.tensors : Blocked(file.tensors[i])

\* The data section, once it is located, lies behind the directory.
Located ==
    stage \in Directory \ {"tensors"} =>
      gguf.data_section \in Nat /\ reader <= gguf.data_section

\* The spans are disjoint for as long as the container is open.
SpansKept ==
    stage \in Opened =>
      \A i \in Tensors :
        /\ reader <= DataOffset(i)
        /\ gguf.data_section + End(i) <= file.size
        /\ \A j \in Tensors \ {i} : End(i) <= Offset(j) \/ End(j) <= Offset(i)

\* The inductive invariant of the files.
FileInvariant == HeldByStage /\ Typed /\ Counted /\ Located /\ SpansKept

\* It holds before anything is opened.
LEMMA FileInit == GgufInit => FileInvariant
  BY GgufAssumption DEF GgufInit, FileInvariant, HeldByStage, HeldAt, Typed, Counted, Located,
     SpansKept, Directory, Opened, EmptyGguf

\* A step that only acquires or releases.
Still == UNCHANGED <<file, reader, parsed, gguf>>

\* A step that only acquires or releases keeps it, if what is held then is
\* what the next stage may hold.
LEMMA StillInv ==
    ASSUME FileInvariant, Still, stage' \in DOMAIN HeldAt, held' \subseteq HeldAt[stage'],
           \/ stage' \in {"cleanup", "closed"}
           \/ stage \in Early /\ stage' \in Early \ {"tables", "metadata"}
           \/ stage \in Opened /\ stage' \in Opened
    PROVE  FileInvariant'
  <1>1. HeldByStage'
    BY DEF HeldByStage, HeldAt, FileParts, Container
  <1>2. Typed'
    BY DEF FileInvariant, Still, Typed, EmptyGguf
  <1>3. Counted'
    BY DEF FileInvariant, Still, Counted, Early, Directory, Opened
  <1>4. Located'
    BY DEF FileInvariant, Still, Located, Early, Directory, Opened
  <1>5. SpansKept'
    BY DEF FileInvariant, Still, SpansKept, Early, Opened, Tensors, DataOffset, End,
       Offset, Tensor
  <1> QED
    BY <1>1, <1>2, <1>3, <1>4, <1>5 DEF FileInvariant

\* Every refusal of the container's open gives back all that is not the file's.
LEMMA RefuseInv ==
    ASSUME FileInvariant, NEW status, RefuseOpen(status),
           stage \in {"gguf", "header", "tables", "metadata", "tensors", "order"}
    PROVE  FileInvariant'
  <1>1. Still /\ stage' = "cleanup" /\ held' = held \ Container
    BY DEF RefuseOpen, Fail, Still
  <1>2. held' \subseteq HeldAt[stage']
    BY <1>1 DEF FileInvariant, HeldByStage, HeldAt, Container
  <1> QED
    BY <1>1, <1>2, StillInv DEF HeldAt

\* So do the calls of kq_file_open_readonly, each with its own exits.
LEMMA FileInv == ASSUME FileInvariant, FileNext PROVE FileInvariant'
  <1>1. CASE CreateFile
    BY <1>1, StillInv DEF CreateFile, Acquire, Fail, Still, FileInvariant, HeldByStage, HeldAt,
       FileParts, Early
  <1>2. CASE GetSize
    BY <1>2, StillInv DEF GetSize, Acquire, Fail, Still, FileInvariant, HeldByStage, HeldAt,
       FileParts, Early
  <1>3. CASE CreateMapping
    BY <1>3, StillInv DEF CreateMapping, Acquire, Fail, Still, FileInvariant, HeldByStage, HeldAt,
       FileParts, Early
  <1>4. CASE AllocateFile
    BY <1>4, StillInv DEF AllocateFile, Acquire, Fail, Still, FileInvariant, HeldByStage, HeldAt,
       FileParts, Early
  <1>5. CASE ReadGranularity
    BY <1>5, StillInv DEF ReadGranularity, Acquire, Fail, Still, FileInvariant, HeldByStage, HeldAt,
       FileParts, Early
  <1> QED
    BY <1>1, <1>2, <1>3, <1>4, <1>5 DEF FileNext

\* What is known of any file: its counts, and its records as far as it has
\* as many as it says.
LEMMA ImageFacts ==
    ASSUME Typed
    PROVE  /\ {file.size, file.metadata_count, file.tensor_count} \subseteq Nat
           /\ file.metadata_count <= MaxMetadata =>
                1..file.metadata_count \subseteq DOMAIN file.metadata
           /\ file.tensor_count <= MaxTensors =>
                1..file.tensor_count \subseteq DOMAIN file.tensors
           /\ \A k \in DOMAIN file.metadata :
                file.metadata[k].type = "ARRAY" =>
                  Len(file.metadata[k].value.items) \in Nat
           /\ \A i \in DOMAIN file.tensors :
                file.tensors[i].dimensions \in Seq(Nat) /\ file.tensors[i].offset \in Nat
  BY GgufAssumption DEF Typed

\* The allocation, the mapping and the header keep the invariant.
LEMMA HeaderInv == ASSUME FileInvariant, AllocateGguf \/ MapDirectory \/ ReadHeader PROVE FileInvariant'
  <1>1. CASE AllocateGguf
    BY <1>1, StillInv DEF AllocateGguf, Acquire, Fail, Still, FileInvariant, HeldByStage, HeldAt,
       FileParts, Early
  <1>2. CASE MapDirectory
    <2>1. CASE Acquire({"directory"}, "header")
      BY <1>2, <2>1, StillInv DEF MapDirectory, Acquire, Still, FileInvariant, HeldByStage, HeldAt,
         FileParts, Early
    <2>2. CASE \E status \in {"FILE_MAP_FAILED", "OUT_OF_MEMORY"} : RefuseOpen(status)
      BY <1>2, <2>2, RefuseInv DEF MapDirectory
    <2> QED
      BY <1>2, <2>1, <2>2 DEF MapDirectory
  <1>3. CASE ReadHeader
    <2>1. CASE FirstRefusal(HeaderChecks) = "OK"
      <3>1. /\ stage = "header" /\ stage' = "tables" /\ reader' = HeaderBytes
            /\ UNCHANGED <<file, held, parsed, gguf>>
        BY <1>3, <2>1 DEF ReadHeader
      <3>2. HeldByStage'
        BY <3>1 DEF FileInvariant, HeldByStage, HeldAt
      <3>3. Typed'
        BY <3>1 DEF FileInvariant, Typed, HeaderBytes, EmptyGguf
      <3>4. file.metadata_count <= MaxMetadata /\ file.tensor_count <= MaxTensors
        BY <2>1, HeaderBounds, ImageFacts DEF FileInvariant
      <3>5. Counted'
        BY <3>1, <3>4 DEF FileInvariant, Counted, Early, Directory, Opened
      <3>6. Located' /\ SpansKept'
        BY <3>1 DEF Located, SpansKept, Directory, Opened
      <3> QED
        BY <3>2, <3>3, <3>5, <3>6 DEF FileInvariant
    <2>2. CASE FirstRefusal(HeaderChecks) # "OK"
      BY <1>3, <2>2, RefuseInv DEF ReadHeader
    <2> QED
      BY <2>1, <2>2
  <1> QED
    BY <1>1, <1>2, <1>3

\* The allocation of the tables does.
LEMMA TablesInv == ASSUME FileInvariant, AllocateTables PROVE FileInvariant'
  <1>1. CASE RefuseOpen("OUT_OF_MEMORY")
    BY <1>1, RefuseInv DEF AllocateTables
  <1>2. CASE Acquire({"metadata", "tensors"}, "metadata")
    <2>1. /\ stage = "tables" /\ stage' = "metadata"
          /\ held' = held \cup {"metadata", "tensors"}
          /\ UNCHANGED <<file, reader, parsed, gguf>>
      BY <1>2 DEF AllocateTables, Acquire
    <2>2. HeldByStage'
      BY <2>1 DEF FileInvariant, HeldByStage, HeldAt, Container
    <2>3. Typed' /\ Counted'
      BY <2>1 DEF FileInvariant, Typed, Counted, Early, Directory, Opened, EmptyGguf
    <2>4. Located' /\ SpansKept'
      BY <2>1 DEF Located, SpansKept, Directory, Opened
    <2> QED
      BY <2>2, <2>3, <2>4 DEF FileInvariant
  <1> QED
    BY <1>1, <1>2 DEF AllocateTables

\* A metadata record and the checks behind the last one do.
LEMMA MetadataInv == ASSUME FileInvariant, ReadMetadata \/ EndMetadata PROVE FileInvariant'
  <1>1. CASE ReadMetadata
    <2> DEFINE verdict == FirstRefusal(MetadataChecks(reader, parsed.metadata))
               m       == file.metadata[parsed.metadata + 1]
    <2>1. CASE verdict = "OK"
      <3>1. /\ stage = "metadata" /\ parsed.metadata < file.metadata_count
            /\ reader' = reader + MetadataBytes(m)
            /\ parsed' = [parsed EXCEPT !.metadata = @ + 1]
            /\ \/ gguf' = [gguf EXCEPT !.architecture = m.value]
               \/ gguf' = [gguf EXCEPT !.alignment = m.value]
               \/ gguf' = gguf
            /\ UNCHANGED <<file, stage, held>>
        BY <1>1, <2>1 DEF ReadMetadata
      <3>2. parsed.metadata + 1 \in DOMAIN file.metadata
        BY <3>1, ImageFacts DEF FileInvariant, Typed, Counted
      <3>3. MetadataBytes(m) \in Nat
        BY <2>1, <3>2, ImageFacts, MetadataAdvances DEF FileInvariant, Typed
      <3>4. HeldByStage'
        BY <3>1 DEF FileInvariant, HeldByStage
      <3>5. Typed'
        <4>1. (\E f \in Files : file = Image(f))' /\ DOMAIN gguf' = DOMAIN EmptyGguf
          BY <3>1 DEF FileInvariant, Typed, EmptyGguf
        <4>2. reader' \in Nat /\ parsed' \in [metadata : Nat, tensors : Nat]
          BY <3>1, <3>3 DEF FileInvariant, Typed
        <4> QED
          BY <4>1, <4>2 DEF Typed, EmptyGguf
      <3>6. Counted'
        BY <3>1 DEF FileInvariant, Typed, Counted, Early, Directory, Opened
      <3>7. Located' /\ SpansKept'
        BY <3>1 DEF Located, SpansKept, Directory, Opened
      <3> QED
        BY <3>4, <3>5, <3>6, <3>7 DEF FileInvariant
    <2>2. CASE verdict # "OK"
      BY <1>1, <2>2, RefuseInv DEF ReadMetadata
    <2> QED
      BY <2>1, <2>2
  <1>2. CASE EndMetadata
    <2> DEFINE ends == << <<HasMetadata("general.architecture"), "MALFORMED_METADATA">>,
                          <<gguf.alignment \in Alignments, "INVALID_ALIGNMENT">> >>
    <2>1. CASE FirstRefusal(ends) = "OK"
      <3>1. /\ stage = "metadata" /\ stage' = "tensors" /\ held' = held \cup {}
            /\ UNCHANGED <<file, reader, parsed, gguf>>
        BY <1>2, <2>1 DEF EndMetadata, Acquire
      <3>2. gguf.alignment \in Alignments
        <4> DEFINE has == HasMetadata("general.architecture")
                   power == gguf.alignment \in Alignments
        <4>1. has \in BOOLEAN /\ power \in BOOLEAN
          BY DEF HasMetadata
        <4>2. ends = << <<has, "MALFORMED_METADATA">>, <<power, "INVALID_ALIGNMENT">> >>
          OBVIOUS
        <4> HIDE DEF has, power, ends
        <4> DEFINE c1 == <<has, "MALFORMED_METADATA">>
                   c2 == <<power, "INVALID_ALIGNMENT">>
        <4>3. c1 \in CheckType /\ c2 \in CheckType
          BY <4>1, CheckIntro DEF Refusals
        <4>4. ends = <<c1, c2>> /\ c2[1] = power
          BY <4>2
        <4> HIDE DEF c1, c2
        <4>5. ends \in Seq(CheckType) /\ Len(ends) = 2
          BY <4>3, <4>4
        <4>6. \A c \in 1..2 : ends[c][1]
          BY <2>1, <4>5, NoRefusal
        <4>7. power
          BY <4>4, <4>6
        <4> QED
          BY <4>7 DEF power
      <3>3. HeldByStage'
        BY <3>1 DEF FileInvariant, HeldByStage, HeldAt
      <3>4. Typed'
        BY <3>1 DEF FileInvariant, Typed, EmptyGguf
      <3>5. Counted'
        BY <3>1, <3>2, ImageFacts DEF FileInvariant, Counted, Early, Directory, Opened
      <3>6. Located' /\ SpansKept'
        BY <3>1 DEF Located, SpansKept, Directory, Opened
      <3> QED
        BY <3>3, <3>4, <3>5, <3>6 DEF FileInvariant
    <2>2. CASE FirstRefusal(ends) # "OK"
      BY <1>2, <2>2, RefuseInv DEF EndMetadata
    <2> QED
      BY <2>1, <2>2
  <1> QED
    BY <1>1, <1>2

\* A tensor record does: its type becomes one of the known ones.
LEMMA TensorInv == ASSUME FileInvariant, ReadTensor PROVE FileInvariant'
  <1> DEFINE verdict == FirstRefusal(TensorChecks(reader, parsed.tensors))
             n       == parsed.tensors + 1
  <1>1. CASE verdict = "OK"
    <2>1. /\ stage = "tensors" /\ parsed.tensors < file.tensor_count
          /\ reader' = reader + TensorBytes(file.tensors[n])
          /\ parsed' = [parsed EXCEPT !.tensors = @ + 1]
          /\ UNCHANGED <<file, stage, held, gguf>>
      BY <1>1 DEF ReadTensor
    <2>2. n \in DOMAIN file.tensors /\ parsed.tensors \in Nat /\ file.tensor_count \in Nat
      BY <2>1, ImageFacts DEF FileInvariant, Typed, Counted, Directory, Opened
    <2>3. Blocked(file.tensors[n]) /\ TensorBytes(file.tensors[n]) \in Nat
      BY <1>1, <2>2, ImageFacts, TensorAdvances DEF FileInvariant, Typed
    <2>4. HeldByStage' /\ Located' /\ SpansKept'
      BY <2>1 DEF FileInvariant, HeldByStage, Located, SpansKept, Directory, Opened
    <2>5. Typed'
      <3>1. (\E f \in Files : file = Image(f))' /\ DOMAIN gguf' = DOMAIN EmptyGguf
        BY <2>1 DEF FileInvariant, Typed, EmptyGguf
      <3>2. reader' \in Nat /\ parsed' \in [metadata : Nat, tensors : Nat]
        BY <2>1, <2>3 DEF FileInvariant, Typed
      <3> QED
        BY <3>1, <3>2 DEF Typed, EmptyGguf
    <2>6. Counted'
      <3>1. parsed'.tensors = n /\ n <= file.tensor_count
        BY <2>1, <2>2 DEF FileInvariant, Typed
      <3>2. \A i \in 1..n : Blocked(file.tensors[i])
        <4>1. \A i \in 1..n : i = n \/ i \in 1..parsed.tensors
          BY <2>2
        <4> QED
          BY <2>1, <2>3, <4>1 DEF FileInvariant, Counted, Directory, Opened
      <3> QED
        BY <2>1, <3>1, <3>2 DEF FileInvariant, Counted, Early, Directory, Opened
    <2> QED
      BY <2>4, <2>5, <2>6 DEF FileInvariant
  <1>2. CASE verdict # "OK"
    BY <1>2, RefuseInv DEF ReadTensor
  <1> QED
    BY <1>1, <1>2

\* So does the placing of the data section.
LEMMA LocateInv == ASSUME FileInvariant, LocateData PROVE FileInvariant'
  <1>1. CASE \E status : RefuseOpen(status)
    BY <1>1, RefuseInv DEF LocateData
  <1>2. CASE ~\E status : RefuseOpen(status)
    <2>1. /\ stage = "tensors" /\ stage' = "order"
          /\ gguf' = [gguf EXCEPT !.data_section = AlignUp(reader)]
          /\ UNCHANGED <<file, held, reader, parsed>>
      BY <1>2 DEF LocateData
    <2>2. AlignUp(reader) \in Nat /\ reader <= AlignUp(reader)
      BY <2>1, AlignUpAbove DEF FileInvariant, Typed, Counted, Directory, Opened
    <2>3. gguf'.alignment = gguf.alignment /\ gguf'.data_section = AlignUp(reader)
      BY <2>1 DEF FileInvariant, Typed, EmptyGguf
    <2>4. HeldByStage'
      BY <2>1 DEF FileInvariant, HeldByStage, HeldAt
    <2>5. Typed'
      BY <2>1 DEF FileInvariant, Typed, EmptyGguf
    <2>6. Counted'
      BY <2>1, <2>3 DEF FileInvariant, Counted, Early, Directory, Opened
    <2>7. Located' /\ SpansKept'
      BY <2>1, <2>2, <2>3 DEF Located, SpansKept, Opened
    <2> QED
      BY <2>4, <2>5, <2>6, <2>7 DEF FileInvariant
  <1> QED
    BY <1>1, <1>2

\* The allocation of the sorted table does.
LEMMA OrderInv == ASSUME FileInvariant, AllocateOrder PROVE FileInvariant'
  <1>1. CASE RefuseOpen("OUT_OF_MEMORY")
    BY <1>1, RefuseInv DEF AllocateOrder
  <1>2. CASE Acquire({"order"}, "spans")
    <2>1. /\ stage = "order" /\ stage' = "spans" /\ held' = held \cup {"order"}
          /\ UNCHANGED <<file, reader, parsed, gguf>>
      BY <1>2 DEF AllocateOrder, Acquire
    <2>2. HeldByStage'
      BY <2>1 DEF FileInvariant, HeldByStage, HeldAt
    <2>3. Typed' /\ Counted' /\ Located' /\ SpansKept'
      BY <2>1 DEF FileInvariant, Typed, Counted, Located, SpansKept, Early, Directory, Opened, EmptyGguf
    <2> QED
      BY <2>2, <2>3 DEF FileInvariant
  <1> QED
    BY <1>1, <1>2 DEF AllocateOrder

\* What the accepted directory is, before the step that opens the container.
LEMMA Accepted ==
    ASSUME FileInvariant, stage = "spans", SpansRefusal = "OK"
    PROVE  \A i \in Tensors :
             /\ reader <= DataOffset(i)
             /\ gguf.data_section + End(i) <= file.size
             /\ \A j \in Tensors \ {i} : End(i) <= Offset(j) \/ End(j) <= Offset(i)
  <1>1. /\ parsed.tensors \in Nat /\ file.size \in Nat /\ reader \in Nat
        /\ gguf.data_section \in Nat /\ reader <= gguf.data_section
    BY ImageFacts DEF FileInvariant, Typed, Located, Directory, Opened
  <1>2. \A i \in Tensors : Offset(i) \in Nat /\ Packed(Tensor(i)) \in Nat
    <2> SUFFICES ASSUME NEW i \in Tensors
                 PROVE  Offset(i) \in Nat /\ Packed(Tensor(i)) \in Nat
      OBVIOUS
    <2>1. i \in DOMAIN file.tensors
      <3>1. i \in 1..file.tensor_count /\ file.tensor_count <= MaxTensors
        BY <1>1, ImageFacts DEF FileInvariant, Counted, Directory, Opened, Tensors
      <3> QED
        BY <3>1, ImageFacts DEF FileInvariant
    <2>2. file.tensors[i].type \in DOMAIN TypeInfo
      BY DEF FileInvariant, Counted, Directory, Opened, Tensors, Blocked
    <2>3. file.tensors[i].dimensions \in Seq(Nat) /\ file.tensors[i].offset \in Nat
      BY <2>1, ImageFacts DEF FileInvariant
    <2> QED
      BY <2>2, <2>3, PackedType DEF Offset, Tensor
  <1>3. \A i \in Tensors : gguf.data_section + End(i) <= file.size /\ StopsBeforeFollowing(i)
    BY <1>1, <1>2, AcceptedSpans
  <1>4. \A i \in Tensors : reader <= DataOffset(i)
    BY <1>1, <1>2 DEF DataOffset
  <1>5. \A i \in Tensors : \A j \in Tensors \ {i} :
          End(i) <= Offset(j) \/ End(j) <= Offset(i)
    BY <1>1, <1>2, <1>3, NeighboursSuffice
  <1> QED
    BY <1>3, <1>4, <1>5

\* The check of the spans establishes that they are disjoint.
LEMMA SpansInv == ASSUME FileInvariant, ValidateSpans PROVE FileInvariant'
  <1>1. CASE SpansRefusal = "OK"
    <2>1. /\ stage = "spans" /\ stage' = "container" /\ held' = held \ {"order"}
          /\ gguf' = [gguf EXCEPT !.packed = PackedTotal]
          /\ UNCHANGED <<file, reader, parsed>>
      BY <1>1 DEF ValidateSpans
    <2>2. gguf'.alignment = gguf.alignment /\ gguf'.data_section = gguf.data_section
      BY <2>1 DEF FileInvariant, Typed, EmptyGguf
    <2>3. HeldByStage'
      BY <2>1 DEF FileInvariant, HeldByStage, HeldAt, FileParts, Container
    <2>4. Typed'
      BY <2>1 DEF FileInvariant, Typed, EmptyGguf
    <2>5. Counted' /\ Located'
      BY <2>1, <2>2 DEF FileInvariant, Counted, Located, Early, Directory, Opened
    <2>6. SpansKept'
      BY <1>1, <2>1, <2>2, Accepted
         DEF SpansKept, Opened, Tensors, DataOffset, End, Offset, Tensor
    <2> QED
      BY <2>3, <2>4, <2>5, <2>6 DEF FileInvariant
  <1>2. CASE SpansRefusal # "OK"
    <2>1. /\ Still /\ stage' = "cleanup" /\ stage = "spans"
          /\ held' = held \ (Container \cup {"order"})
      BY <1>2 DEF ValidateSpans, Fail, Still
    <2>2. held' \subseteq HeldAt[stage']
      BY <2>1 DEF FileInvariant, HeldByStage, HeldAt, Container
    <2> QED
      BY <2>1, <2>2, StillInv DEF HeldAt
  <1> QED
    BY <1>1, <1>2

\* Closing releases what the stage before it may hold.
LEMMA CloseInv == ASSUME FileInvariant, CloseContainer \/ CloseFile PROVE FileInvariant'
  <1>1. Still /\ stage' \in {"cleanup", "closed"}
    BY DEF CloseContainer, CloseFile, Still
  <1>2. held' \subseteq HeldAt[stage']
    BY DEF CloseContainer, CloseFile, FileInvariant, HeldByStage, HeldAt, FileParts, Container
  <1> QED
    BY <1>1, <1>2, StillInv DEF HeldAt

\* Every step keeps the invariant.
LEMMA FileNextInv == ASSUME FileInvariant, [GgufNext]_ggufVars PROVE FileInvariant'
  <1>1. CASE UNCHANGED ggufVars
    BY <1>1 DEF FileInvariant, ggufVars, HeldByStage, Typed, Counted, Located, SpansKept,
       Tensors, DataOffset, End, Offset, Tensor, EmptyGguf
  <1>2. CASE ContainerNext
    BY <1>2, HeaderInv, TablesInv, MetadataInv, TensorInv, LocateInv, OrderInv, SpansInv
       DEF ContainerNext
  <1> QED
    BY <1>1, <1>2, FileInv, CloseInv DEF GgufNext

-----------------------------------------------------------------------------
(* The sequence of states a seed gives.                                    *)

\* The first n steps from a seed, one function for all of them.
Steps(seed, stream, n) ==
    LET state[k \in 0..n] ==
          IF k = 0 THEN Seeded(seed, stream).state
          ELSE NextState(state[k - 1], stream)
    IN  state

StateAfter(seed, stream, n) == Steps(seed, stream, n)[n]

\* The recursive function of the states exists, and is what its equation says.
LEMMA StepsUnfold ==
    ASSUME NEW seed, NEW stream, NEW n \in Nat
    PROVE  /\ Steps(seed, stream, n)[0] = Seeded(seed, stream).state
           /\ \A k \in 1..n : Steps(seed, stream, n)[k]
                                = NextState(Steps(seed, stream, n)[k - 1], stream)
  <1> DEFINE Unrolled(g, k) == IF k = 0 THEN Seeded(seed, stream).state
                           ELSE NextState(g[k - 1], stream)
             Unfolds(g, m) == g = [k \in 0..m |-> Unrolled(g, k)]
             without == {m \in 0..n : ~\E g : Unfolds(g, m)}
  <1>1. without = {}
    <2>1. SUFFICES ASSUME without # {} PROVE FALSE
      OBVIOUS
    <2>2. PICK m \in without : \A j \in without : m <= j
      <3>1. without \in SUBSET Nat
        OBVIOUS
      <3> HIDE DEF without
      <3> QED
        BY <2>1, <3>1, Least
    <2>3. CASE m = 0
      <3>1. Unfolds([k \in 0..0 |-> Seeded(seed, stream).state], 0)
        OBVIOUS
      <3> QED
        BY <2>2, <2>3, <3>1
    <2>4. CASE m # 0
      <3>1. m \in 1..n /\ m - 1 \in 0..n /\ m - 1 \notin without
        <4>1. m \in 0..n
          OBVIOUS
        <4>2. m \in 1..n /\ m - 1 \in 0..n /\ ~(m <= m - 1)
          BY <2>4, <4>1
        <4> HIDE DEF without
        <4> QED
          BY <2>2, <4>2
      <3>2. PICK g : Unfolds(g, m - 1)
        BY <3>1
      <3> DEFINE h == [k \in 0..m |-> IF k = m THEN Unrolled(g, m) ELSE g[k]]
      <3>3. \A k \in 0..m : h[k] = Unrolled(h, k)
        <4>1. \A k \in 0..m - 1 : g[k] = Unrolled(g, k)
          BY <3>2
        <4>2. \A k \in 1..m : h[k - 1] = g[k - 1]
          BY <3>1
        <4>3. \A k \in 0..m - 1 : h[k] = g[k]
          BY <3>1
        <4>4. h[m] = Unrolled(g, m)
          BY <3>1
        <4> HIDE DEF h
        <4>5. \A k \in 0..m : Unrolled(h, k) = Unrolled(g, k)
          BY <4>2, <3>1
        <4>6. \A k \in 0..m : k = m \/ k \in 0..m - 1
          BY <3>1
        <4> QED
          BY <4>1, <4>3, <4>4, <4>5, <4>6
      <3>4. Unfolds(h, m)
        <4>1. h = [k \in 0..m |-> h[k]]
          OBVIOUS
        <4> HIDE DEF h, Unrolled
        <4> QED
          BY <3>3, <4>1
      <3> QED
        BY <2>2, <3>4
    <2> QED
      BY <2>3, <2>4
  <1>2. \E g : Unfolds(g, n)
    BY <1>1
  <1>3. Steps(seed, stream, n) = CHOOSE g : Unfolds(g, n)
    BY DEF Steps
  <1>4. Unfolds(Steps(seed, stream, n), n)
    <2> HIDE DEF Unfolds
    <2> QED
      BY <1>2, <1>3
  <1> QED
    BY <1>4

\* How many steps are computed does not change those before.
LEMMA StepsAgree ==
    ASSUME NEW seed, NEW stream, NEW n \in Nat, NEW m \in 0..n
    PROVE  Steps(seed, stream, n)[m] = StateAfter(seed, stream, m)
  <1> DEFINE f == Steps(seed, stream, n)
             g == Steps(seed, stream, m)
             apart == {k \in 0..m : f[k] # g[k]}
  <1>1. /\ f[0] = g[0]
        /\ \A k \in 1..m : f[k] = NextState(f[k - 1], stream)
        /\ \A k \in 1..m : g[k] = NextState(g[k - 1], stream)
    BY StepsUnfold
  <1> HIDE DEF f, g
  <1>2. apart = {}
    <2>1. SUFFICES ASSUME apart # {} PROVE FALSE
      OBVIOUS
    <2>2. PICK k \in apart : \A j \in apart : k <= j
      <3>1. apart \in SUBSET Nat
        OBVIOUS
      <3> HIDE DEF apart
      <3> QED
        BY <2>1, <3>1, Least
    <2>3. k \in 1..m /\ k - 1 \in 0..m /\ k - 1 \notin apart
      BY <1>1, <2>2
    <2> QED
      BY <1>1, <2>3
  <1> QED
    BY <1>2 DEF f, g, StateAfter

\* One more word is one more step.
LEMMA StateAdvances ==
    ASSUME NEW seed, NEW stream, NEW n \in Nat
    PROVE  /\ StateAfter(seed, stream, 0) = Seeded(seed, stream).state
           /\ StateAfter(seed, stream, n + 1)
                = NextState(StateAfter(seed, stream, n), stream)
  <1>1. StateAfter(seed, stream, 0) = Seeded(seed, stream).state
    BY StepsUnfold DEF StateAfter
  <1>2. n + 1 \in Nat /\ n + 1 \in 1..n + 1 /\ n \in 0..n + 1 /\ (n + 1) - 1 = n
    OBVIOUS
  <1>3. Steps(seed, stream, n + 1)[n + 1]
          = NextState(Steps(seed, stream, n + 1)[(n + 1) - 1], stream)
    BY <1>2, StepsUnfold
  <1>4. Steps(seed, stream, n + 1)[n] = StateAfter(seed, stream, n)
    BY <1>2, StepsAgree
  <1> QED
    BY <1>1, <1>2, <1>3, <1>4 DEF StateAfter

\* The words of a stream, by the states they are read from.
LEMMA StreamIs ==
    ASSUME NEW r, NEW n \in Nat
    PROVE  StreamOf(r, n)
             = [k \in 1..n |-> Permuted[StateAfter(r.seed, r.stream, k - 1)]]
  <1>1. StreamOf(r, n)
          = [k \in 1..n |-> Permuted[Steps(r.seed, r.stream, n)[k - 1]]]
    BY DEF StreamOf, Steps
  <1>2. \A k \in 1..n : k - 1 \in 0..n
    OBVIOUS
  <1> QED
    BY <1>1, <1>2, StepsAgree
-----------------------------------------------------------------------------
(* The inductive invariant.                                                *)

\* A generator that has given away the first words of its seed's stream.
Follows(r) ==
    r.valid =>
      \E n \in Nat : /\ r.draws = n
                     /\ r.given = StreamOf(r, n)
                     /\ r.state = StateAfter(r.seed, r.stream, n)

StreamInvariant ==
    /\ DOMAIN rng = DOMAIN NoRng /\ DOMAIN saved = DOMAIN NoRng
    /\ Follows(rng) /\ Follows(saved)
    /\ Selected => /\ rng.valid /\ rng.draws > 0
                   /\ rng.given[Len(rng.given)] = selection.word

\* A generator that was just seeded has given nothing away.
LEMMA SeededFollows ==
    ASSUME NEW seed, NEW stream
    PROVE  Follows(Seeded(seed, stream)) /\ DOMAIN Seeded(seed, stream) = DOMAIN NoRng
  <1> DEFINE r == Seeded(seed, stream)
  <1>1. /\ r.draws = 0 /\ r.given = << >> /\ r.seed = seed /\ r.stream = stream
        /\ DOMAIN r = DOMAIN NoRng
    BY DEF Seeded, NoRng
  <1> HIDE DEF r
  <1>2. StreamOf(r, 0) = << >>
    BY StreamIs
  <1>3. r.state = StateAfter(r.seed, r.stream, 0)
    BY <1>1, StateAdvances DEF r
  <1>4. Follows(r)
    BY <1>1, <1>2, <1>3 DEF Follows
  <1> QED
    BY <1>1, <1>4 DEF r

\* One word later it is one word ahead, and that word is the last it gave.
LEMMA DrawnFollows ==
    ASSUME NEW r, DOMAIN r = DOMAIN NoRng, r.valid, Follows(r)
    PROVE  /\ Follows(Drawn(r)) /\ DOMAIN Drawn(r) = DOMAIN NoRng
           /\ Drawn(r).valid /\ Drawn(r).draws > 0
           /\ Drawn(r).given[Len(Drawn(r).given)] = Word32(r)
  <1> DEFINE d == Drawn(r)
  <1>1. PICK n \in Nat : /\ r.draws = n
                         /\ r.given = StreamOf(r, n)
                         /\ r.state = StateAfter(r.seed, r.stream, n)
    BY DEF Follows
  <1>2. /\ d.seed = r.seed /\ d.stream = r.stream /\ d.valid = r.valid
        /\ d.state = NextState(r.state, r.stream) /\ d.draws = r.draws + 1
        /\ d.given = Append(r.given, Word32(r)) /\ DOMAIN d = DOMAIN NoRng
    BY DEF Drawn, NoRng
  <1> HIDE DEF d
  <1>3. d.state = StateAfter(d.seed, d.stream, n + 1)
    BY <1>1, <1>2, StateAdvances
  <1> DEFINE word(k) == Permuted[StateAfter(r.seed, r.stream, k - 1)]
             W       == {word(k) : k \in 1..n + 1}
             given   == [k \in 1..n |-> word(k)]
  <1>4. r.given = given /\ StreamOf(d, n + 1) = [k \in 1..n + 1 |-> word(k)]
    <2>1. /\ StreamOf(r, n) = [k \in 1..n |-> Permuted[StateAfter(r.seed, r.stream, k - 1)]]
          /\ StreamOf(d, n + 1)
               = [k \in 1..n + 1 |-> Permuted[StateAfter(d.seed, d.stream, k - 1)]]
      BY StreamIs
    <2> QED
      BY <1>1, <1>2, <2>1
  <1>5. Word32(r) = word(n + 1)
    BY <1>1 DEF Word32
  <1>6. /\ Append(given, word(n + 1)) = [k \in 1..n + 1 |-> word(k)]
        /\ Len([k \in 1..n + 1 |-> word(k)]) = n + 1
    <2>1. \A k \in 1..n + 1 : word(k) \in W
      OBVIOUS
    <2> HIDE DEF word, W
    <2>2. given \in Seq(W) /\ Len(given) = n /\ word(n + 1) \in W
      BY <2>1
    <2> QED
      BY <2>2
  <1>7. d.given = StreamOf(d, n + 1) /\ Len(d.given) = n + 1
        /\ d.given[n + 1] = word(n + 1)
    <2>1. d.given = [k \in 1..n + 1 |-> word(k)]
      BY <1>2, <1>4, <1>5, <1>6
    <2> HIDE DEF word
    <2> QED
      BY <1>4, <1>6, <2>1
  <1>8. Follows(d)
    BY <1>1, <1>2, <1>3, <1>7 DEF Follows
  <1> QED
    BY <1>1, <1>2, <1>5, <1>7, <1>8 DEF d

\* A selection is only made with a valid generator.
LEMMA SelectionNeedsSeed ==
    ASSUME NEW logits, NEW fault, SelectRefusal(logits, fault) = "OK"
    PROVE  rng.valid
  BY DEF SelectRefusal

\* It holds before anything is seeded.
LEMMA StreamInit == SamplingInit => StreamInvariant
  BY DEF SamplingInit, StreamInvariant, Follows, NoRng, NoSelection, Selected

\* Every call keeps it.
LEMMA StreamNextInv == ASSUME StreamInvariant, [SamplingNext]_samplingVars PROVE StreamInvariant'
  <1> USE DEF StreamInvariant
  <1>1. CASE \E seed \in Seeds, stream \in Streams : Seed(seed, stream)
    <2>1. PICK seed \in Seeds, stream \in Streams : Seed(seed, stream)
      BY <1>1
    <2>2. CASE stream <= MaxStream
      BY <2>1, <2>2, SeededFollows DEF Seed, Follows, Selected, NoSelection
    <2>3. CASE ~(stream <= MaxStream)
      BY <2>1, <2>3 DEF Seed, Follows, Selected
    <2> QED
      BY <2>2, <2>3
  <1>2. CASE Reset
    <2>1. CASE rng.valid
      BY <1>2, <2>1, SeededFollows DEF Reset, Follows, Selected, NoSelection
    <2>2. CASE ~rng.valid
      BY <1>2, <2>2 DEF Reset, Follows, Selected
    <2> QED
      BY <2>1, <2>2
  <1>3. CASE Snapshot \/ Import
    BY <1>3 DEF Snapshot, Import, Follows, Selected, NoSelection
  <1>4. CASE NextU32
    <2>1. CASE rng.valid /\ rng.draws < MaxDraws
      BY <1>4, <2>1, DrawnFollows DEF NextU32, Follows, Selected, NoSelection
    <2>2. CASE ~(rng.valid /\ rng.draws < MaxDraws)
      BY <1>4, <2>2 DEF NextU32, Follows, Selected
    <2> QED
      BY <2>1, <2>2
  <1>5. CASE \/ \E policy \in Policies : OpenSampler(policy)
             \/ CloseSampler \/ Published \/ UNCHANGED samplingVars
    BY <1>5 DEF OpenSampler, CloseSampler, Published, samplingVars, Follows,
       Selected, NoSelection
  <1>6. CASE \E logits \in Logits, fault \in Faults : Select(logits, fault)
    <2>1. PICK logits \in Logits, fault \in Faults : Select(logits, fault)
      BY <1>6
    <2>2. CASE SelectRefusal(logits, fault) = "OK"
      <3>1. /\ rng' = Drawn(rng) /\ saved' = saved
            /\ selection'.word = Word32(rng)
        BY <2>1, <2>2 DEF Select
      <3>2. rng.valid
        BY <2>2, SelectionNeedsSeed
      <3> QED
        BY <3>1, <3>2, DrawnFollows DEF Follows, Selected
    <2>3. CASE SelectRefusal(logits, fault) # "OK"
      BY <2>1, <2>3 DEF Select, Refuse, Follows, Selected
    <2> QED
      BY <2>2, <2>3
  <1> QED
    BY <1>1, <1>2, <1>3, <1>4, <1>5, <1>6 DEF SamplingNext

-----------------------------------------------------------------------------
(* The program over the files.                                             *)

\* A tokenizer is open only over an open model, and holds nothing when closed.
TokenizerHeld ==
    /\ stage # "model" => Absent
    /\ Absent => held \cap TokenizerParts = {}

\* The inductive invariant of the program.
TextInvariant == FileInvariant /\ TokenizerHeld /\ StreamInvariant

\* It holds at the start.
LEMMA TextStarts == TextInit => TextInvariant
  <1>1. TextInit => TokenizerHeld
    BY DEF TextInit, ViewInit, RegistryInit, GgufInit, TokenizerInit, TokenizerHeld, Absent,
       Closed
  <1> QED
    BY <1>1, FileInit, StreamInit DEF TextInit, TextInvariant, ViewInit, RegistryInit

\* Outside of an open model nothing of a tokenizer may be held at all.
LEMMA NoTokenizerParts ==
    ASSUME HeldByStage, stage # "model"
    PROVE  held \cap TokenizerParts = {}
  BY DEF HeldByStage, HeldAt, FileParts, Container, RegistryParts, TokenizerParts

\* The steps of the file and the container.
LEMMA FileStepInv == ASSUME TextInvariant, FileStep PROVE TextInvariant'
  <1>1. FileInvariant'
    BY FileNextInv DEF FileStep, TextInvariant
  <1>2. stage # "model" /\ stage' # "model"
    BY DEF FileStep, GgufNext, FileNext, ContainerNext, CreateFile, GetSize,
       CreateMapping, AllocateFile, ReadGranularity, AllocateGguf, MapDirectory,
       ReadHeader, AllocateTables, ReadMetadata, EndMetadata, ReadTensor,
       LocateData, AllocateOrder, ValidateSpans, CloseContainer, CloseFile,
       Acquire, Fail, RefuseOpen
  <1>3. HeldByStage'
    BY <1>1 DEF FileInvariant
  <1>4. held' \cap TokenizerParts = {}
    BY <1>2, <1>3 DEF HeldByStage, HeldAt, FileParts, Container, RegistryParts,
       TokenizerParts
  <1>5. TokenizerHeld'
    BY <1>2, <1>4 DEF FileStep, tokenizerVars, TextInvariant, TokenizerHeld, Absent, Closed
  <1>6. StreamInvariant'
    BY StreamNextInv DEF FileStep, TextInvariant
  <1> QED
    BY <1>1, <1>5, <1>6 DEF TextInvariant

\* The steps of the registry move between the stages of an open container.
LEMMA RegistryMoves ==
    ASSUME FileInvariant, TokenizerHeld, RegistryStep
    PROVE  /\ Still /\ stage \in Opened /\ stage' \in Opened
           /\ held' \subseteq HeldAt[stage']
           /\ held' \cap TokenizerParts = {}
  <1> USE DEF FileInvariant, HeldByStage, HeldAt, Opened, Still, RegistryParts
  <1>1. CASE AllocateModel
    BY <1>1, NoTokenizerParts DEF AllocateModel, Acquire, RefuseModel, TokenizerParts
  <1>2. CASE AllocateEntries
    <2>1. PICK given \in SUBSET {"semantics", "coverage"} : Acquire(given, "allocated")
      BY <1>2 DEF AllocateEntries
    <2>2. stage = "entries" /\ given \subseteq RegistryParts
      BY <1>2 DEF AllocateEntries
    <2>3. held \cap TokenizerParts = {} /\ held \subseteq FileParts \cup Container \cup RegistryParts
      BY <2>2, NoTokenizerParts
    <2> QED
      BY <2>1, <2>2, <2>3 DEF Acquire, TokenizerParts
  <1>3. CASE CheckEntries
    BY <1>3, NoTokenizerParts DEF CheckEntries, Acquire, RefuseModel, TokenizerParts
  <1>4. CASE ValidateIdentity
    BY <1>4, NoTokenizerParts DEF ValidateIdentity, Acquire, RefuseModel, TokenizerParts
  <1>5. CASE Register
    BY <1>5, NoTokenizerParts DEF Register, RefuseModel, TokenizerParts, ggufVars
  <1>6. CASE CompleteRegistry
    BY <1>6, NoTokenizerParts DEF CompleteRegistry, Acquire, RefuseModel, TokenizerParts
  <1>7. CASE CloseModel /\ Absent
    BY <1>7 DEF CloseModel, TokenizerHeld, TokenizerParts
  <1> QED
    BY <1>1, <1>2, <1>3, <1>4, <1>5, <1>6, <1>7 DEF RegistryStep, RegistryNext

\* The registry's steps keep it.
LEMMA RegistryStepInv == ASSUME TextInvariant, RegistryStep PROVE TextInvariant'
  <1>1. /\ Still /\ stage \in Opened /\ stage' \in Opened
        /\ held' \subseteq HeldAt[stage'] /\ held' \cap TokenizerParts = {}
    BY RegistryMoves DEF TextInvariant
  <1>2. FileInvariant'
    BY <1>1, StillInv DEF TextInvariant, Opened, HeldAt
  <1>3. Absent /\ Absent'
    BY DEF RegistryStep, RegistryNext, AllocateModel, AllocateEntries, CheckEntries,
       ValidateIdentity, Register, CompleteRegistry, TextInvariant, TokenizerHeld, Absent,
       Closed, tokenizerVars
  <1>4. StreamInvariant'
    BY StreamNextInv DEF RegistryStep, TextInvariant
  <1> QED
    BY <1>1, <1>2, <1>3, <1>4 DEF TextInvariant, TokenizerHeld

\* A view acquires nothing that outlives it but itself.
LEMMA ViewStepInv == ASSUME TextInvariant, ViewStep PROVE TextInvariant'
  <1>1. Still /\ UNCHANGED <<held, stage>>
    BY DEF ViewStep, ViewNext, OpenView, CloseView, registryVars, ggufVars, Still
  <1>2. FileInvariant'
    BY <1>1, StillInv DEF TextInvariant, FileInvariant, HeldByStage, HeldAt, ViewStep,
       Opened
  <1>3. TokenizerHeld'
    BY <1>1 DEF ViewStep, TextInvariant, TokenizerHeld, Absent, Closed, tokenizerVars
  <1>4. StreamInvariant'
    BY StreamNextInv DEF ViewStep, TextInvariant
  <1> QED
    BY <1>2, <1>3, <1>4 DEF TextInvariant

\* The calls of the tokenizer hold what they held, but to open it and close it.
LEMMA TokenizerMoves ==
    ASSUME FileInvariant, TokenizerHeld, TokenizerStep
    PROVE  Still /\ stage' = "model" /\ held' \subseteq HeldAt["model"] /\ TokenizerHeld'
  <1>1. stage = "model" /\ held \subseteq HeldAt["model"]
    BY DEF TokenizerStep, FileInvariant, HeldByStage
  <1>2. CASE OpenTokenizer
    <2>1. Still /\ UNCHANGED stage
      BY <1>2 DEF OpenTokenizer, Still
    <2>2. CASE UNCHANGED <<held, call, tokenizer>>
      BY <1>1, <2>1, <2>2 DEF TokenizerHeld, Absent, Closed
    <2>3. CASE held' = held \cup {"tokenizer"} /\ call' = Constructing("tables")
      <3>1. ~Absent'
        BY <2>3 DEF Absent, Constructing, NoCall
      <3> QED
        BY <1>1, <2>1, <2>3, <3>1 DEF HeldAt, TokenizerHeld, TokenizerParts
    <2> QED
      BY <1>2, <2>2, <2>3 DEF OpenTokenizer
  <1>3. CASE AllocateLookup
    <2>1. Still /\ UNCHANGED stage
      BY <1>3 DEF AllocateLookup, Still
    <2>2. ~Absent'
      BY <1>3 DEF AllocateLookup, Absent, Constructing, NoCall
    <2> QED
      BY <1>1, <1>3, <2>1, <2>2 DEF AllocateLookup, HeldAt, TokenizerHeld, TokenizerParts
  <1>4. CASE BuildTokenizer
    <2>1. Still /\ UNCHANGED stage
      BY <1>4 DEF BuildTokenizer, Still
    <2>2. CASE tokenizer' = Built /\ UNCHANGED held
      <3>1. DOMAIN Built.byte = ByteValues
        BY Zenon DEF Built
      <3>2. DOMAIN NoTokenizer.byte = {}
        BY DEF NoTokenizer
      <3>3. ~Absent'
        BY <2>2, <3>1, <3>2, BytesAssumption DEF Absent, Closed
      <3> QED
        BY <1>1, <2>1, <2>2, <3>3 DEF TokenizerHeld
    <2>3. CASE held' = held \ TokenizerParts
      BY <1>1, <2>1, <2>3 DEF TokenizerHeld
    <2> QED
      BY <1>4, <2>2, <2>3 DEF BuildTokenizer
  <1>5. CASE CloseTokenizer
    BY <1>1, <1>5 DEF CloseTokenizer, Still, TokenizerHeld
  <1>6. CASE ~Closed /\ UNCHANGED <<ggufVars, tokenizer>>
    BY <1>1, <1>6 DEF ggufVars, Still, TokenizerHeld, Absent, Closed
  <1> QED
    BY <1>2, <1>3, <1>4, <1>5, <1>6 DEF TokenizerStep, TokenizerNext, Return, Encode, Chat,
       DecodeIds, DecodeEncoded, Decode

\* So do the tokenizer's.
LEMMA TokenizerStepInv == ASSUME TextInvariant, TokenizerStep PROVE TextInvariant'
  <1>1. Still /\ stage' = "model" /\ held' \subseteq HeldAt["model"] /\ TokenizerHeld'
    BY TokenizerMoves DEF TextInvariant
  <1>2. FileInvariant'
    BY <1>1, StillInv DEF TextInvariant, HeldAt, TokenizerStep, Opened
  <1>3. StreamInvariant'
    BY StreamNextInv DEF TokenizerStep, TextInvariant
  <1> QED
    BY <1>1, <1>2, <1>3 DEF TextInvariant

\* The calls of the sampler touch nothing else.
LEMMA SamplingStepInv == ASSUME TextInvariant, SamplingStep PROVE TextInvariant'
  <1>1. UNCHANGED ggufVars /\ UNCHANGED tokenizerVars
    BY DEF SamplingStep, viewVars, registryVars, tokenizerVars
  <1>2. FileInvariant'
    BY <1>1, FileNextInv DEF TextInvariant
  <1>3. TokenizerHeld'
    BY <1>1 DEF TextInvariant, TokenizerHeld, Absent, Closed, ggufVars, tokenizerVars
  <1>4. CASE Forget
    <2>1. StreamInvariant'
      BY <1>4 DEF Forget, StreamInvariant, TextInvariant, Follows, NoRng, Selected,
         NoSelection
    <2> QED
      BY <1>2, <1>3, <2>1 DEF TextInvariant
  <1>5. CASE SamplingNext
    <2>1. StreamInvariant'
      BY <1>5, StreamNextInv DEF TextInvariant
    <2> QED
      BY <1>2, <1>3, <2>1 DEF TextInvariant
  <1> QED
    BY <1>4, <1>5 DEF SamplingStep

\* So do all.
LEMMA TextNextInv == ASSUME TextInvariant, [TextNext]_textVars PROVE TextInvariant'
  <1>1. CASE UNCHANGED textVars
    <2>1. UNCHANGED <<ggufVars, tokenizerVars, samplingVars>>
      BY <1>1 DEF textVars, viewVars, registryVars
    <2>2. FileInvariant' /\ StreamInvariant'
      BY <2>1, FileNextInv, StreamNextInv DEF TextInvariant
    <2>3. TokenizerHeld'
      BY <2>1 DEF TextInvariant, TokenizerHeld, Absent, Closed, ggufVars, tokenizerVars
    <2> QED
      BY <2>2, <2>3 DEF TextInvariant
  <1> QED
    BY <1>1, FileStepInv, RegistryStepInv, ViewStepInv, TokenizerStepInv,
       SamplingStepInv DEF TextNext, Ended

\* The inductive invariant holds of every program over any file.
THEOREM TextInvariantHolds == TextSpec => []TextInvariant
  <1>1. TextInvariant /\ [TextNext]_textVars => TextInvariant'
    BY TextNextInv
  <1> QED
    BY TextStarts, <1>1, PTL DEF TextSpec

\* No byte of the data section belongs to two tensors, for files with any
\* number of tensors of any shapes at any offsets, and whatever is opened and
\* closed over the container meanwhile: the one comparison made for each span
\* (kq_gguf.c:766) is enough because the order is total.
THEOREM SpansAreDisjoint == TextSpec => []SpansDisjoint
  <1>1. TextInvariant => SpansDisjoint
    BY DEF TextInvariant, FileInvariant, SpansKept, SpansDisjoint, Opened
  <1> QED
    BY TextInvariantHolds, <1>1, PTL

\* A failed open, at whatever call or record it fails, has given everything
\* back, and so has a program that ends: the file, the container, the registry
\* and the tokenizer (kq_gguf.c:936, kq_file_win32.c:62-122, kq_model.c:1448).
THEOREM NothingLeaks == TextSpec => []RefusalLeavesNothing
  <1>1. TextInvariant => RefusalLeavesNothing
    BY DEF TextInvariant, FileInvariant, HeldByStage, HeldAt, FileParts, Container,
       RegistryParts, TokenizerHeld, RefusalLeavesNothing
  <1> QED
    BY TextInvariantHolds, <1>1, PTL

\* Whatever is selected, refused, saved and restored, the words given away
\* since the last seeding are the first words of the seed's stream, none
\* skipped and none given twice (kq_sampling.c:741-771).
THEOREM StreamIsUnbroken == TextSpec => []StreamUnbroken
  <1>1. ASSUME StreamInvariant PROVE StreamUnbroken
    <2> SUFFICES ASSUME rng.valid
                 PROVE  /\ rng.draws = Len(rng.given)
                        /\ rng.given = StreamOf(rng, Len(rng.given))
                        /\ Selected => rng.given[Len(rng.given)] = selection.word
      BY DEF StreamUnbroken
    <2>1. PICK n \in Nat : rng.draws = n /\ rng.given = StreamOf(rng, n)
      BY <1>1 DEF StreamInvariant, Follows
    <2>2. Len(rng.given) = n
      BY <2>1, StreamIs
    <2> QED
      BY <1>1, <2>1, <2>2 DEF StreamInvariant
  <1>2. TextInvariant => StreamUnbroken
    BY <1>1 DEF TextInvariant
  <1> QED
    BY TextInvariantHolds, <1>2, PTL
-----------------------------------------------------------------------------
(* The elements of a shape.                                                *)

\* A number that fits a word, or the overflow's 0.
Fit(y) == IF y <= MaxWord THEN y ELSE 0

\* An overflow stays one: the product of the rest is above a word, or 0.
LEMMA TimesFit == ASSUME NEW p \in Nat, NEW x \in Nat PROVE Times(Fit(p), x) = Fit(p * x)
  <1>0. MaxWord \in Nat /\ p * x \in Nat
    BY GgufAssumption
  <1>1. CASE p <= MaxWord
    BY <1>1, TimesType DEF Fit
  <1>2. CASE p > MaxWord
    <2>1. Times(Fit(p), x) = 0
      BY <1>0, <1>2 DEF Fit, Times
    <2>2. x = 0 => p * x = 0
      OBVIOUS
    <2>3. x # 0 => p * x >= p
      <3>1. x # 0 => p * x >= p * 1
        OBVIOUS
      <3> QED
        BY <3>1
    <2> QED
      BY <1>0, <1>2, <2>1, <2>2, <2>3 DEF Fit
  <1> QED
    BY <1>0, <1>1, <1>2

\* The products of up to four dimensions.
LEMMA ShortProducts ==
    ASSUME NEW d \in Seq(Nat), Len(d) >= 1
    PROVE  /\ Product(d, 1) = Fit(d[1])
           /\ Len(d) >= 2 => Product(d, 2) = Fit(d[1] * d[2])
           /\ Len(d) >= 3 => Product(d, 3) = Fit(d[1] * d[2] * d[3])
           /\ Len(d) >= 4 => Product(d, 4) = Fit(d[1] * d[2] * d[3] * d[4])
  <1>1. \A n \in 1..Len(d) : d[n] \in Nat
    OBVIOUS
  <1>2. Product(d, 0) = 1
    BY ProductStep
  <1>3. \A n \in Nat \ {0} : Product(d, n) = Times(Product(d, n - 1), d[n])
    BY ProductStep
  <1>4. Product(d, 1) = Fit(d[1])
    <2>1. Product(d, 1) = Times(1, d[1])
      BY <1>2, <1>3
    <2>2. d[1] \in Nat
      BY <1>1
    <2>3. Times(1, d[1]) = IF 1 * d[1] <= MaxWord THEN 1 * d[1] ELSE 0
      BY <2>2, TimesType
    <2>4. 1 * d[1] = d[1]
      BY <2>2
    <2> QED
      BY <2>1, <2>3, <2>4 DEF Fit
  <1>5. Len(d) >= 2 => Product(d, 2) = Fit(d[1] * d[2])
    <2>1. SUFFICES ASSUME Len(d) >= 2 PROVE Product(d, 2) = Fit(d[1] * d[2])
      OBVIOUS
    <2>2. Product(d, 2) = Times(Product(d, 1), d[2])
      BY <1>3
    <2>3. d[1] \in Nat /\ d[2] \in Nat
      BY <1>1, <2>1
    <2> QED
      BY ONLY <1>4, <2>2, <2>3, TimesFit
  <1>6. Len(d) >= 3 => Product(d, 3) = Fit(d[1] * d[2] * d[3])
    <2>1. SUFFICES ASSUME Len(d) >= 3 PROVE Product(d, 3) = Fit(d[1] * d[2] * d[3])
      OBVIOUS
    <2>2. Product(d, 3) = Times(Product(d, 2), d[3])
      BY <1>3
    <2>3. d[1] \in Nat /\ d[2] \in Nat /\ d[3] \in Nat
      BY <1>1, <2>1
    <2>4. d[1] * d[2] \in Nat
      BY <2>3
    <2>5. Product(d, 2) = Fit(d[1] * d[2])
      BY <1>5, <2>1
    <2> QED
      BY ONLY <2>2, <2>3, <2>4, <2>5, TimesFit
  <1>7. Len(d) >= 4 => Product(d, 4) = Fit(d[1] * d[2] * d[3] * d[4])
    <2>1. SUFFICES ASSUME Len(d) >= 4 PROVE Product(d, 4) = Fit(d[1] * d[2] * d[3] * d[4])
      OBVIOUS
    <2>2. Product(d, 4) = Times(Product(d, 3), d[4])
      BY <1>3
    <2>3. d[1] \in Nat /\ d[2] \in Nat /\ d[3] \in Nat /\ d[4] \in Nat
      BY <1>1, <2>1
    <2>4. d[1] * d[2] * d[3] \in Nat
      BY <2>3, SMTT(30)
    <2>5. Product(d, 3) = Fit(d[1] * d[2] * d[3])
      BY <1>6, <2>1
    <2> QED
      BY ONLY <2>2, <2>3, <2>4, <2>5, TimesFit
  <1> QED
    BY <1>4, <1>5, <1>6, <1>7

\* Sizes are natural numbers.
LEMMA SizesNatural ==
    ASSUME NEW d \in Seq(Nat), NEW n, n = Len(d) PROVE \A k \in 1..n : d[k] \in Nat
  OBVIOUS

\* The products of one, of two and of three sizes.
LEMMA SizesProduct ==
    /\ \A a \in Nat : Product(<<a>>, 1) = Fit(a)
    /\ \A a, b \in Nat : Product(<<a, b>>, 2) = Fit(a * b)
    /\ \A a, b, c \in Nat : Product(<<a, b, c>>, 3) = Fit(a * b * c)
  <1>1. ASSUME NEW a \in Nat PROVE Product(<<a>>, 1) = Fit(a)
    <2> DEFINE d == <<a>>
    <2>1. d \in Seq(Nat) /\ Len(d) = 1 /\ d[1] = a
      OBVIOUS
    <2> HIDE DEF d
    <2>2. Product(d, 1) = Fit(a)
      BY <2>1, ShortProducts
    <2> QED
      BY <2>2 DEF d
  <1>2. ASSUME NEW a \in Nat, NEW b \in Nat PROVE Product(<<a, b>>, 2) = Fit(a * b)
    <2> DEFINE d == <<a, b>>
    <2>1. d \in Seq(Nat) /\ Len(d) = 2 /\ d[1] = a /\ d[2] = b
      OBVIOUS
    <2> HIDE DEF d
    <2>2. Product(d, 2) = Fit(d[1] * d[2])
      BY <2>1, ShortProducts
    <2> QED
      BY <2>1, <2>2 DEF d
  <1>3. ASSUME NEW a \in Nat, NEW b \in Nat, NEW c \in Nat
        PROVE  Product(<<a, b, c>>, 3) = Fit(a * b * c)
    <2> DEFINE d == <<a, b, c>>
    <2>1. d \in Seq(Nat) /\ Len(d) = 3 /\ d[1] = a /\ d[2] = b /\ d[3] = c
      OBVIOUS
    <2> HIDE DEF d
    <2>2. d \in Seq(Nat) /\ Len(d) >= 1 /\ Len(d) >= 3
      BY <2>1
    <2>3. Product(d, 3) = Fit(d[1] * d[2] * d[3])
      BY ONLY <2>2, ShortProducts
    <2> QED
      BY <2>1, <2>3 DEF d
  <1> QED
    BY <1>1, <1>2, <1>3
-----------------------------------------------------------------------------
(* The registry's table.                                                   *)

\* The one tensor that several semantics are bound to.
Fused == <<NoLayer, "per_layer_token_embd">>

\* The number of elements of a part's tensor, if the file has what it says.
PartElements(part) == Product(part.dimensions, Len(part.dimensions))

Countable(part) == part.dimensions \in Seq(Nat) /\ PartElements(part) # 0

\* The halves of a split are different tensors of one kind, and together they
\* have the canonical elements.
SplitSized(s) ==
    /\ Len(s.parts) = 2 /\ s.parts[1].name # s.parts[2].name
    /\ \/ s.parts[1].role = "GATE" /\ s.parts[2].role = "UP"
       \/ s.parts[1].role = "INDEX_QUERY" /\ s.parts[2].role = "INDEX_KEY"
    /\ Countable(s.parts[1]) /\ Countable(s.parts[2]) =>
         /\ CanonicalElements(s) # 0
         /\ CanonicalElements(s) = PartElements(s.parts[1]) + PartElements(s.parts[2])

\* A tensor that is no half has the canonical elements.
WholeSized(s) ==
    /\ Len(s.parts) = 1
    /\ Countable(s.parts[1]) => CanonicalElements(s) = PartElements(s.parts[1])

\* The routed experts are the slowest dimension of their stacks.
StackSized(s) ==
    /\ s.relation \in {"RENAMED", "SPLIT"}
    /\ s.axis = 0 /\ Len(s.canonical) = 3 /\ s.canonical[1] = Dim.experts
    /\ \A p \in 1..Len(s.parts) :
         /\ s.parts[p].axis = 2
         /\ Len(s.parts[p].dimensions) = 3 /\ s.parts[p].dimensions[3] = Dim.experts

\* What a row that has tensors of its own says of their sizes.
Sized(s) ==
    /\ s.relation \in {"METADATA_DERIVED", "RENAMED", "TRANSFORMED", "SPLIT"}
    /\ s.component # "PLE_TABLE"
    /\ \A p \in 1..Len(s.parts) : Len(s.parts[p].dimensions) \in 1..3
    /\ s.relation \in {"RENAMED", "TRANSFORMED"} => WholeSized(s)
    /\ s.relation = "SPLIT" => SplitSized(s)
    /\ s.component = "ROUTED" => StackSized(s)

\* A row with one or two tensors of its own, and a row with none.
Plain(s) ==
    /\ Len(s.parts) \in 0..2 /\ DOMAIN s.parts = 1..Len(s.parts)
    /\ \A p \in 1..Len(s.parts) :
         /\ s.parts[p].role # "FUSED_MEMBER" /\ s.parts[p].name # Fused
         /\ s.parts[p].axis \in {2, NoAxis}
    /\ Sized(s)

\* A list all of whose rows are plain.
Rows(list, n) ==
    n \in Nat /\ list = [k \in 1..n |-> list[k]] /\ \A k \in 1..n : Plain(list[k])

\* A list of rows is a sequence of them.
LEMMA RowsLength == ASSUME NEW list, NEW n, Rows(list, n) PROVE Len(list) = n /\ list \in Seq({list[k] : k \in 1..n})
  BY DEF Rows

\* A row of one tensor is plain if the tensor is not the fused one and has the
\* canonical elements.
LEMMA SinglePlain ==
    ASSUME NEW id, NEW component, component \notin {"ROUTED", "PLE_TABLE"},
           NEW relation \in {"RENAMED", "TRANSFORMED"}, NEW canonical, NEW l, NEW name,
           NEW physical, NEW types, name # "per_layer_token_embd",
           Len(physical) \in 1..3,
           physical \in Seq(Nat) /\ Product(physical, Len(physical)) # 0 =>
             Product(canonical, Len(canonical)) = Product(physical, Len(physical))
    PROVE  Plain(Single(id, component, relation, canonical, <<l, name>>, physical, types))
  <1> DEFINE s == Single(id, component, relation, canonical, <<l, name>>, physical, types)
             part == Part(<<l, name>>, physical, types, "WHOLE", 0, NoAxis)
  <1>1. /\ s.parts = <<part>> /\ s.component = component /\ s.relation = relation
        /\ s.canonical = canonical
    BY DEF Single, Semantic
  <1>2. /\ part.role = "WHOLE" /\ part.name = <<l, name>> /\ part.axis = NoAxis
        /\ part.dimensions = physical
    BY DEF Part
  <1>3. <<l, name>> # Fused
    BY DEF Fused
  <1> HIDE DEF s, part
  <1>4. Len(s.parts) = 1 /\ DOMAIN s.parts = 1..1 /\ s.parts[1] = part
    BY <1>1
  <1>5. WholeSized(s)
    BY <1>1, <1>2, <1>4 DEF WholeSized, Countable, PartElements, CanonicalElements
  <1>6. Sized(s)
    BY <1>1, <1>2, <1>4, <1>5 DEF Sized
  <1>7. Plain(s)
    <2>1. part.role # "FUSED_MEMBER" /\ part.name # Fused /\ part.axis \in {2, NoAxis}
      BY <1>2, <1>3
    <2> QED
      BY <1>4, <1>6, <2>1 DEF Plain
  <1> QED
    BY <1>7 DEF s

\* Such as a vector,
LEMMA VectorPlain ==
    ASSUME NEW id, NEW component, component \notin {"ROUTED", "PLE_TABLE"},
           NEW relation \in {"RENAMED", "TRANSFORMED"}, NEW l, NEW name, NEW length,
           NEW types, name # "per_layer_token_embd"
    PROVE  Plain(Vector(id, <<l, name>>, component, relation, length, types))
  <1>1. Len(<<length>>) \in 1..3
    OBVIOUS
  <1> QED
    BY <1>1, SinglePlain DEF Vector

\* a matrix, stored by columns,
LEMMA MatrixPlain ==
    ASSUME NEW id, NEW component, component \notin {"ROUTED", "PLE_TABLE"},
           NEW relation \in {"RENAMED", "TRANSFORMED"}, NEW l, NEW name, NEW rows,
           NEW columns, NEW types, name # "per_layer_token_embd"
    PROVE  Plain(Matrix(id, <<l, name>>, component, relation, rows, columns, types))
  <1> DEFINE physical == <<columns, rows>>
             canonical == <<rows, columns>>
  <1>1. Len(physical) = 2 /\ Len(canonical) = 2
    OBVIOUS
  <1>2. ASSUME physical \in Seq(Nat) PROVE Product(canonical, 2) = Product(physical, 2)
    <2>1. columns \in Nat /\ rows \in Nat
      <3>1. physical[1] = columns /\ physical[2] = rows
        OBVIOUS
      <3> HIDE DEF physical
      <3>2. \A k \in 1..2 : physical[k] \in Nat
        BY <1>1, <1>2, SizesNatural
      <3> QED
        BY <3>1, <3>2
    <2>2. columns * rows = rows * columns
      BY <2>1
    <2> QED
      BY <2>1, <2>2, SizesProduct
  <1> HIDE DEF physical, canonical
  <1>3. Len(physical) \in 1..3
    BY <1>1
  <1>4. physical \in Seq(Nat) /\ Product(physical, Len(physical)) # 0 =>
          Product(canonical, Len(canonical)) = Product(physical, Len(physical))
    BY <1>1, <1>2
  <1>5. Plain(Single(id, component, relation, canonical, <<l, name>>, physical, types))
    BY <1>3, <1>4, SinglePlain
  <1> QED
    BY <1>5 DEF Matrix, physical, canonical

\* or the taps of a convolution, which the checkpoint has a dimension more for.
LEMMA ConvolutionPlain ==
    ASSUME NEW id, NEW component, component \notin {"ROUTED", "PLE_TABLE"},
           NEW l, NEW name, NEW channels, name # "per_layer_token_embd"
    PROVE  Plain(Convolution(id, <<l, name>>, component, channels))
  <1> DEFINE physical == <<4, channels>>
             canonical == <<channels, 1, 4>>
  <1>1. Len(physical) = 2 /\ Len(canonical) = 3
    OBVIOUS
  <1>2. ASSUME physical \in Seq(Nat) PROVE Product(canonical, 3) = Product(physical, 2)
    <2>1. channels \in Nat
      <3>1. physical[2] = channels
        OBVIOUS
      <3> HIDE DEF physical
      <3>2. \A k \in 1..2 : physical[k] \in Nat
        BY <1>1, <1>2, SizesNatural
      <3> QED
        BY <3>1, <3>2
    <2>2. channels * 1 * 4 = 4 * channels
      BY <2>1
    <2> QED
      BY <2>1, <2>2, SizesProduct
  <1> HIDE DEF physical, canonical
  <1>3. Len(physical) \in 1..3
    BY <1>1
  <1>4. physical \in Seq(Nat) /\ Product(physical, Len(physical)) # 0 =>
          Product(canonical, Len(canonical)) = Product(physical, Len(physical))
    BY <1>1, <1>2
  <1>5. "TRANSFORMED" \in {"RENAMED", "TRANSFORMED"}
    OBVIOUS
  <1>6. Plain(Single(id, component, "TRANSFORMED", canonical, <<l, name>>, physical, {"F32"}))
    BY <1>3, <1>4, <1>5, SinglePlain
  <1> QED
    BY <1>6 DEF Convolution, physical, canonical

\* The rows of no layer are plain.
LEMMA TopRows == Rows(TopLevel, 5)
  <1>1. TopLevel = [k \in 1..5 |-> TopLevel[k]]
    BY DEF TopLevel
  <1>2. Plain(TopLevel[1]) /\ Plain(TopLevel[2]) /\ Plain(TopLevel[3]) /\ Plain(TopLevel[4])
        /\ Plain(TopLevel[5])
    BY MatrixPlain, VectorPlain DEF TopLevel
  <1> QED
    BY <1>1, <1>2 DEF Rows

\* So are the rows of two halves: the indexer's projection,
LEMMA IndexerPlain == ASSUME NEW l PROVE Plain(Qsa(l)[9])
  <1> DEFINE da == <<Dim.hidden, Dim.index_query>>
             db == <<Dim.hidden, Dim.index_key>>
             a == Part(<<l, "indexer.q_proj">>, da, {"BF16"}, "INDEX_QUERY", 0, NoAxis)
             b == Part(<<l, "indexer.k_proj">>, db, {"BF16"}, "INDEX_KEY", 0, NoAxis)
             whole == <<Dim.index_query + Dim.index_key, Dim.hidden>>
             s == Semantic(<<l, "qsa.indexer.qk">>, "INDEXER", "SPLIT", whole, NoAxis, <<a, b>>)
  <1>1. Qsa(l)[9] = s
    BY DEF Qsa
  <1>2. /\ s.parts = <<a, b>> /\ s.canonical = whole
        /\ s.relation = "SPLIT" /\ s.component = "INDEXER"
    BY DEF Semantic
  <1>3. /\ a.role = "INDEX_QUERY" /\ a.name = <<l, "indexer.q_proj">> /\ a.axis = NoAxis
        /\ b.role = "INDEX_KEY" /\ b.name = <<l, "indexer.k_proj">> /\ b.axis = NoAxis
        /\ a.dimensions = da /\ b.dimensions = db
    BY DEF Part
  <1>4. <<l, "indexer.q_proj">> # Fused /\ <<l, "indexer.k_proj">> # Fused
    BY DEF Fused
  <1>5. /\ da[1] = Dim.hidden /\ da[2] = Dim.index_query /\ db[2] = Dim.index_key
        /\ Len(da) = 2 /\ Len(db) = 2 /\ Len(whole) = 2
    OBVIOUS
  <1>6. ASSUME da \in Seq(Nat), db \in Seq(Nat), Product(da, 2) # 0, Product(db, 2) # 0
        PROVE  /\ Product(whole, 2) # 0
               /\ Product(whole, 2) = Product(da, 2) + Product(db, 2)
    <2> DEFINE h == Dim.hidden
               x == Dim.index_query
               y == Dim.index_key
    <2>1. h \in Nat /\ x \in Nat /\ y \in Nat
      <3> HIDE DEF da, db
      <3>1. (\A k \in 1..2 : da[k] \in Nat) /\ (\A k \in 1..2 : db[k] \in Nat)
        BY <1>5, <1>6, SizesNatural
      <3> QED
        BY <1>5, <3>1
    <2>2. (x + y) * h <= MaxWord
      BY SizesAssumption
    <2> HIDE DEF h, x, y
    <2>3. Product(<<h, x>>, 2) = Fit(h * x) /\ Product(<<h, y>>, 2) = Fit(h * y)
      BY <2>1, SizesProduct
    <2>4. Product(<<x + y, h>>, 2) = Fit((x + y) * h)
      BY <2>1, SizesProduct
    <2>5. (x + y) * h = h * x + h * y /\ h * x \in Nat /\ h * y \in Nat
      BY <2>1
    <2>6. Fit(h * x) = h * x /\ Fit(h * y) = h * y /\ Fit((x + y) * h) = (x + y) * h
      BY <2>2, <2>5, GgufAssumption DEF Fit
    <2>7. Product(da, 2) = h * x /\ Product(db, 2) = h * y /\ Product(whole, 2) = (x + y) * h
      BY <2>3, <2>4, <2>6 DEF h, x, y
    <2> HIDE DEF da, db, whole
    <2> QED
      BY <1>6, <2>5, <2>7
  <1> HIDE DEF s, a, b, da, db, whole
  <1>7. Len(s.parts) = 2 /\ DOMAIN s.parts = 1..2 /\ s.parts[1] = a /\ s.parts[2] = b
    BY <1>2
  <1>8. a.name # b.name
    BY <1>3
  <1>9. SplitSized(s)
    BY <1>2, <1>3, <1>5, <1>6, <1>7, <1>8
       DEF SplitSized, Countable, PartElements, CanonicalElements
  <1>10. Sized(s)
    BY <1>2, <1>3, <1>5, <1>7, <1>9 DEF Sized
  <1>11. Plain(s)
    BY <1>3, <1>4, <1>7, <1>10 DEF Plain
  <1> QED
    BY <1>1, <1>11

\* the gates of the experts and the rows above them,
LEMMA GateUpPlain == ASSUME NEW l PROVE Plain(Moe(l)[7])
  <1> DEFINE d == <<Dim.hidden, Dim.intermediate, Dim.experts>>
             a == Part(<<l, "ffn_gate_exps">>, d, {"Q4_K", "Q5_K"}, "GATE", 0, 2)
             b == Part(<<l, "ffn_up_exps">>, d, {"Q4_K", "Q5_K"}, "UP", 0, 2)
             whole == <<Dim.experts, 2 * Dim.intermediate, Dim.hidden>>
             s == Semantic(<<l, "moe.routed.gate_up">>, "ROUTED", "SPLIT", whole, 0, <<a, b>>)
  <1>1. Moe(l)[7] = s
    BY DEF Moe
  <1>2. /\ s.parts = <<a, b>> /\ s.canonical = whole /\ s.axis = 0
        /\ s.relation = "SPLIT" /\ s.component = "ROUTED"
    BY DEF Semantic
  <1>3. /\ a.role = "GATE" /\ a.name = <<l, "ffn_gate_exps">> /\ a.axis = 2
        /\ b.role = "UP" /\ b.name = <<l, "ffn_up_exps">> /\ b.axis = 2
        /\ a.dimensions = d /\ b.dimensions = d
    BY DEF Part
  <1>4. <<l, "ffn_gate_exps">> # Fused /\ <<l, "ffn_up_exps">> # Fused
    BY DEF Fused
  <1>5. /\ d[1] = Dim.hidden /\ d[2] = Dim.intermediate /\ d[3] = Dim.experts
        /\ Len(d) = 3 /\ Len(whole) = 3 /\ whole[1] = Dim.experts
    OBVIOUS
  <1>6. ASSUME d \in Seq(Nat), Product(d, 3) # 0
        PROVE  Product(whole, 3) # 0 /\ Product(whole, 3) = Product(d, 3) + Product(d, 3)
    <2> DEFINE h == Dim.hidden
               x == Dim.intermediate
               y == Dim.experts
    <2>1. h \in Nat /\ x \in Nat /\ y \in Nat
      <3> HIDE DEF d
      <3>1. \A k \in 1..3 : d[k] \in Nat
        BY <1>5, <1>6, SizesNatural
      <3> QED
        BY <1>5, <3>1
    <2>2. y * (2 * x) * h <= MaxWord
      BY SizesAssumption
    <2> HIDE DEF h, x, y
    <2>3. Product(<<h, x, y>>, 3) = Fit(h * x * y)
      BY <2>1, SizesProduct
    <2>4. Product(<<y, 2 * x, h>>, 3) = Fit(y * (2 * x) * h)
      BY <2>1, SizesProduct
    <2> DEFINE z == h * x * y
    <2>5. z \in Nat /\ y * (2 * x) * h = z + z
      <3> DEFINE p == x * y
      <3>1. p \in Nat /\ y * (2 * x) = 2 * p
        BY <2>1
      <3>2. h * x * y = h * p
        BY <2>1
      <3> HIDE DEF p
      <3>3. 2 * p * h = h * p + h * p /\ h * p \in Nat
        BY <2>1, <3>1
      <3> QED
        BY <3>1, <3>2, <3>3
    <2> HIDE DEF z
    <2>6. Fit(z) = z /\ Fit(z + z) = z + z
      BY <2>2, <2>5, GgufAssumption DEF Fit
    <2>7. Product(d, 3) = z /\ Product(whole, 3) = z + z
      BY <2>3, <2>4, <2>5, <2>6 DEF h, x, y, z
    <2> HIDE DEF d, whole
    <2> QED
      BY <1>6, <2>5, <2>7
  <1> HIDE DEF s, a, b, d, whole
  <1>7. Len(s.parts) = 2 /\ DOMAIN s.parts = 1..2 /\ s.parts[1] = a /\ s.parts[2] = b
    BY <1>2
  <1>8. a.name # b.name
    BY <1>3
  <1>9. SplitSized(s)
    BY <1>2, <1>3, <1>5, <1>6, <1>7, <1>8
       DEF SplitSized, Countable, PartElements, CanonicalElements
  <1>10. StackSized(s)
    BY <1>2, <1>3, <1>5, <1>7 DEF StackSized
  <1>11. Sized(s)
    BY <1>2, <1>3, <1>5, <1>7, <1>9, <1>10 DEF Sized
  <1>12. Plain(s)
    BY <1>3, <1>4, <1>7, <1>11 DEF Plain
  <1> QED
    BY <1>1, <1>12

\* and that of their stack of rows below.
LEMMA StackPlain == ASSUME NEW l PROVE Plain(Moe(l)[2])
  <1> DEFINE d == <<Dim.intermediate, Dim.hidden, Dim.experts>>
             a == Part(<<l, "ffn_down_exps">>, d, {"Q5_1", "Q8_0"}, "WHOLE", 0, 2)
             whole == <<Dim.experts, Dim.hidden, Dim.intermediate>>
             s == Semantic(<<l, "moe.routed.down">>, "ROUTED", "RENAMED", whole, 0, <<a>>)
  <1>1. Moe(l)[2] = s
    BY DEF Moe
  <1>2. /\ s.parts = <<a>> /\ s.canonical = whole /\ s.axis = 0
        /\ s.relation = "RENAMED" /\ s.component = "ROUTED"
    BY DEF Semantic
  <1>3. /\ a.role = "WHOLE" /\ a.name = <<l, "ffn_down_exps">> /\ a.axis = 2
        /\ a.dimensions = d
    BY DEF Part
  <1>4. <<l, "ffn_down_exps">> # Fused
    BY DEF Fused
  <1>5. /\ d[1] = Dim.intermediate /\ d[2] = Dim.hidden /\ d[3] = Dim.experts
        /\ Len(d) = 3 /\ Len(whole) = 3 /\ whole[1] = Dim.experts
    OBVIOUS
  <1>6. ASSUME d \in Seq(Nat) PROVE Product(whole, 3) = Product(d, 3)
    <2> DEFINE h == Dim.hidden
               x == Dim.intermediate
               y == Dim.experts
    <2>1. h \in Nat /\ x \in Nat /\ y \in Nat
      <3> HIDE DEF d
      <3>1. \A k \in 1..3 : d[k] \in Nat
        BY <1>5, <1>6, SizesNatural
      <3> QED
        BY <1>5, <3>1
    <2> HIDE DEF h, x, y
    <2>2. Product(<<x, h, y>>, 3) = Fit(x * h * y) /\ Product(<<y, h, x>>, 3) = Fit(y * h * x)
      BY <2>1, SizesProduct
    <2>3. x * h * y = y * h * x
      BY <2>1
    <2> QED
      BY <2>2, <2>3 DEF h, x, y
  <1> HIDE DEF s, a, d, whole
  <1>7. Len(s.parts) = 1 /\ DOMAIN s.parts = 1..1 /\ s.parts[1] = a
    BY <1>2
  <1>8. WholeSized(s)
    BY <1>2, <1>3, <1>5, <1>6, <1>7 DEF WholeSized, Countable, PartElements, CanonicalElements
  <1>9. StackSized(s)
    BY <1>2, <1>3, <1>5, <1>7 DEF StackSized
  <1>10. Sized(s)
    BY <1>2, <1>3, <1>5, <1>7, <1>8, <1>9 DEF Sized
  <1>11. Plain(s)
    BY <1>3, <1>4, <1>7, <1>10 DEF Plain
  <1> QED
    BY <1>1, <1>11

\* So are those of the residual read and write of a layer,
LEMMA GatedResidualRows == ASSUME NEW l PROVE Rows(GatedResidual(l), 8)
  <1>1. GatedResidual(l) = [k \in 1..8 |-> GatedResidual(l)[k]]
    BY DEF GatedResidual
  <1>2. /\ Plain(GatedResidual(l)[1])
        /\ Plain(GatedResidual(l)[2])
        /\ Plain(GatedResidual(l)[3])
        /\ Plain(GatedResidual(l)[4])
    BY MatrixPlain, VectorPlain DEF GatedResidual
  <1>3. /\ Plain(GatedResidual(l)[5])
        /\ Plain(GatedResidual(l)[6])
        /\ Plain(GatedResidual(l)[7])
        /\ Plain(GatedResidual(l)[8])
    BY MatrixPlain, VectorPlain DEF GatedResidual
  <1> QED
    BY <1>1, <1>2, <1>3 DEF Rows

\* of its GDN operator,
LEMMA GdnRows == ASSUME NEW l PROVE Rows(Gdn(l), 9)
  <1>1. Gdn(l) = [k \in 1..9 |-> Gdn(l)[k]]
    BY DEF Gdn
  <1>2. /\ Plain(Gdn(l)[1])
        /\ Plain(Gdn(l)[2])
        /\ Plain(Gdn(l)[3])
        /\ Plain(Gdn(l)[4])
    BY MatrixPlain, VectorPlain, ConvolutionPlain DEF Gdn
  <1>3. /\ Plain(Gdn(l)[5])
        /\ Plain(Gdn(l)[6])
        /\ Plain(Gdn(l)[7])
        /\ Plain(Gdn(l)[8])
        /\ Plain(Gdn(l)[9])
    BY MatrixPlain, VectorPlain, ConvolutionPlain DEF Gdn
  <1> QED
    BY <1>1, <1>2, <1>3 DEF Rows

\* of the dense part of the PLE,
LEMMA PleDenseRows == ASSUME NEW l PROVE Rows(PleDense(l), 6)
  <1>1. PleDense(l) = [k \in 1..6 |-> PleDense(l)[k]]
    BY DEF PleDense
  <1>2. /\ Plain(PleDense(l)[1])
        /\ Plain(PleDense(l)[2])
        /\ Plain(PleDense(l)[3])
    BY MatrixPlain, VectorPlain, ConvolutionPlain DEF PleDense
  <1>3. /\ Plain(PleDense(l)[4])
        /\ Plain(PleDense(l)[5])
        /\ Plain(PleDense(l)[6])
    BY MatrixPlain, VectorPlain, ConvolutionPlain DEF PleDense
  <1> QED
    BY <1>1, <1>2, <1>3 DEF Rows

\* of its QSA operator, one of them split in two,
LEMMA QsaRows == ASSUME NEW l PROVE Rows(Qsa(l), 9)
  <1>1. Qsa(l) = [k \in 1..9 |-> Qsa(l)[k]]
    BY DEF Qsa
  <1>2. /\ Plain(Qsa(l)[1]) /\ Plain(Qsa(l)[2]) /\ Plain(Qsa(l)[3]) /\ Plain(Qsa(l)[4])
    BY MatrixPlain, VectorPlain DEF Qsa
  <1>3. /\ Plain(Qsa(l)[5]) /\ Plain(Qsa(l)[6]) /\ Plain(Qsa(l)[7]) /\ Plain(Qsa(l)[8])
    BY MatrixPlain, VectorPlain DEF Qsa
  <1>4. Plain(Qsa(l)[9])
    BY IndexerPlain
  <1> QED
    BY <1>1, <1>2, <1>3, <1>4 DEF Rows

\* and of its experts, of which one is a stack and one two halves.
LEMMA MoeRows == ASSUME NEW l PROVE Rows(Moe(l), 7)
  <1>1. Moe(l) = [k \in 1..7 |-> Moe(l)[k]]
    BY DEF Moe
  <1>2. Plain(Moe(l)[1]) /\ Plain(Moe(l)[3]) /\ Plain(Moe(l)[4]) /\ Plain(Moe(l)[5])
    BY MatrixPlain DEF Moe
  <1>3. Plain(Moe(l)[6])
    <2> DEFINE h == <<Dim.hidden>>
               whole == <<1, Dim.hidden>>
    <2>1. Len(h) = 1 /\ Len(whole) = 2
      OBVIOUS
    <2>2. ASSUME h \in Seq(Nat) PROVE Product(whole, 2) = Product(h, 1)
      <3>1. Dim.hidden \in Nat
        <4>1. h[1] = Dim.hidden
          OBVIOUS
        <4> HIDE DEF h
        <4>2. \A k \in 1..1 : h[k] \in Nat
          BY <2>1, <2>2, SizesNatural
        <4> QED
          BY <4>1, <4>2
      <3>2. 1 * Dim.hidden = Dim.hidden
        BY <3>1
      <3> QED
        BY <3>1, <3>2, SizesProduct
    <2>3. Moe(l)[6] = Single(<<l, "moe.shared.gate_weight">>, "SHARED", "RENAMED", whole,
                             <<l, "ffn_gate_inp_shexp">>, h, F32)
      BY DEF Moe
    <2> HIDE DEF h, whole
    <2>4. Len(h) \in 1..3
      BY <2>1
    <2>5. h \in Seq(Nat) /\ Product(h, Len(h)) # 0 =>
            Product(whole, Len(whole)) = Product(h, Len(h))
      BY <2>1, <2>2
    <2>6. "SHARED" \notin {"ROUTED", "PLE_TABLE"} /\ "RENAMED" \in {"RENAMED", "TRANSFORMED"}
      OBVIOUS
    <2> QED
      BY <2>3, <2>4, <2>5, <2>6, SinglePlain
  <1>4. Plain(Moe(l)[2]) /\ Plain(Moe(l)[7])
    BY StackPlain, GateUpPlain
  <1> QED
    BY <1>1, <1>2, <1>3, <1>4 DEF Rows

\* The metadata's rows have no tensor.
LEMMA AddressRows == ASSUME NEW l PROVE Rows(PleAddresses(l), 3)
  <1>1. PleAddresses(l) = [k \in 1..3 |-> PleAddresses(l)[k]]
    BY DEF PleAddresses
  <1>2. \A k \in 1..3 : /\ PleAddresses(l)[k].parts = << >>
                        /\ PleAddresses(l)[k].relation = "METADATA_DERIVED"
                        /\ PleAddresses(l)[k].component = "PLE_ADDRESS"
    BY DEF PleAddresses, Semantic
  <1>3. \A k \in 1..3 : Plain(PleAddresses(l)[k])
    BY <1>2 DEF Plain, Sized
  <1> QED
    BY <1>1, <1>3 DEF Rows

\* The elements of a concatenation are those of its parts.
LEMMA CatElements ==
    ASSUME NEW S, NEW s \in Seq(S), NEW t \in Seq(S)
    PROVE  /\ s \o t \in Seq(S) /\ Len(s \o t) = Len(s) + Len(t)
           /\ \A k \in 1..Len(s) + Len(t) :
                (s \o t)[k] = IF k <= Len(s) THEN s[k] ELSE t[k - Len(s)]
  <1>1. s \o t \in Seq(S) /\ Len(s \o t) = Len(s) + Len(t)
    OBVIOUS
  <1>2. ASSUME NEW k \in 1..Len(s) + Len(t)
        PROVE  (s \o t)[k] = IF k <= Len(s) THEN s[k] ELSE t[k - Len(s)]
    OBVIOUS
  <1> QED
    BY <1>1, <1>2

\* A sequence is the function of its elements.
LEMMA SequenceElements ==
    ASSUME NEW S, NEW s \in Seq(S)
    PROVE  s = [k \in 1..Len(s) |-> s[k]]
  OBVIOUS

\* Two lists of plain rows make one.
LEMMA CatRows ==
    ASSUME NEW s, NEW m, Rows(s, m), NEW t, NEW n, Rows(t, n)
    PROVE  Rows(s \o t, m + n)
  <1>1. m \in Nat /\ n \in Nat /\ Len(s) = m /\ Len(t) = n
    BY RowsLength DEF Rows
  <1> DEFINE S == {s[k] : k \in 1..m} \cup {t[k] : k \in 1..n}
  <1>2. s \in Seq(S) /\ t \in Seq(S)
    <2>1. s = [k \in 1..m |-> s[k]] /\ \A k \in 1..m : s[k] \in S
      BY DEF Rows
    <2>2. t = [k \in 1..n |-> t[k]] /\ \A k \in 1..n : t[k] \in S
      BY DEF Rows
    <2> HIDE DEF S
    <2>3. s \in Seq(S)
      BY ONLY <1>1, <2>1, SequenceIntro
    <2>4. t \in Seq(S)
      BY ONLY <1>1, <2>2, SequenceIntro
    <2> QED
      BY <2>3, <2>4
  <1> HIDE DEF S
  <1>3. /\ s \o t \in Seq(S) /\ Len(s \o t) = m + n
        /\ \A k \in 1..m + n : (s \o t)[k] = IF k <= m THEN s[k] ELSE t[k - m]
    BY <1>1, <1>2, CatElements
  <1>4. s \o t = [k \in 1..m + n |-> (s \o t)[k]]
    BY <1>3, SequenceElements
  <1>5. ASSUME NEW k \in 1..m + n PROVE Plain((s \o t)[k])
    <2>1. CASE k <= m
      <3>1. k \in 1..m
        BY <1>1, <2>1
      <3> QED
        BY <1>3, <2>1, <3>1 DEF Rows
    <2>2. CASE ~(k <= m)
      <3>1. k - m \in 1..n
        BY <1>1, <2>2
      <3>2. Plain(t[k - m])
        BY <3>1 DEF Rows
      <3> QED
        BY <1>3, <2>2, <3>2
    <2> QED
      BY <2>1, <2>2
  <1> QED
    BY <1>1, <1>4, <1>5 DEF Rows

\* What the registry appends for a layer.
LayerAppended(rows, layer) ==
    rows \o GatedResidual(layer) \o (IF IsQsaLayer(layer) THEN Qsa(layer) ELSE Gdn(layer))
         \o Moe(layer)

\* A layer has 24 rows, all plain.
LEMMA LayerRows ==
    ASSUME NEW rows, NEW n, Rows(rows, n), NEW layer
    PROVE  Rows(LayerAppended(rows, layer), n + 24)
  <1> DEFINE mixer == IF IsQsaLayer(layer) THEN Qsa(layer) ELSE Gdn(layer)
  <1>1. n \in Nat
    BY DEF Rows
  <1>2. Rows(rows \o GatedResidual(layer), n + 8)
    BY CatRows, GatedResidualRows
  <1>3. Rows(mixer, 9)
    BY QsaRows, GdnRows
  <1> HIDE DEF mixer
  <1>4. Rows(rows \o GatedResidual(layer) \o mixer, n + 8 + 9)
    BY <1>2, <1>3, CatRows
  <1>5. Rows(rows \o GatedResidual(layer) \o mixer \o Moe(layer), n + 8 + 9 + 7)
    BY <1>4, MoeRows, CatRows
  <1>6. n + 8 + 9 + 7 = n + 24
    BY <1>1
  <1> QED
    BY <1>5, <1>6 DEF LayerAppended, mixer

\* The tables up to a layer.
Unfolds(g, n) == g = [d \in 0..n |-> IF d = 0 THEN TopLevel ELSE LayerAppended(g[d - 1], d - 1)]

\* There is such a list of tables, whatever the number of layers.
LEMMA UnfoldsExists == \E g : Unfolds(g, Dim.layers)
  <1> DEFINE L == Dim.layers
             without == {k \in 0..L : ~\E g : Unfolds(g, k)}
  <1>0. L \in Nat
    BY RegistryAssumption
  <1> HIDE DEF L
  <1>1. SUFFICES ASSUME without # {} PROVE FALSE
    <2>1. L \in 0..L
      BY <1>0
    <2>2. \E g : Unfolds(g, L)
      BY <2>1, without = {}
    <2> QED
      BY <2>2 DEF L
  <1>2. PICK k \in without : \A j \in without : k <= j
    <2>1. without \in SUBSET Nat
      BY <1>0
    <2> HIDE DEF without
    <2> QED
      BY <1>1, <2>1, Least
  <1>3. k \in 0..L /\ ~\E g : Unfolds(g, k)
    OBVIOUS
  <1>4. CASE k = 0
    <2>1. Unfolds([d \in 0..0 |-> TopLevel], 0)
      BY DEF Unfolds
    <2> QED
      BY <1>3, <1>4, <2>1
  <1>5. CASE k # 0
    <2>1. k - 1 \in 0..L /\ ~(k <= k - 1)
      BY <1>0, <1>3, <1>5
    <2>2. k - 1 \notin without
      <3> HIDE DEF without
      <3> QED
        BY <1>2, <2>1
    <2>3. PICK g : Unfolds(g, k - 1)
      BY <2>1, <2>2
    <2> DEFINE h == [d \in 0..k |-> IF d = k THEN LayerAppended(g[k - 1], k - 1) ELSE g[d]]
    <2>4. \A d \in 0..k - 1 : h[d] = g[d]
      BY <1>0, <1>3
    <2>5. h[k] = LayerAppended(g[k - 1], k - 1)
      BY <1>0, <1>3
    <2>6. h = [d \in 0..k |-> h[d]]
      OBVIOUS
    <2> HIDE DEF h
    <2>7. \A d \in 0..k - 1 : g[d] = IF d = 0 THEN TopLevel ELSE LayerAppended(g[d - 1], d - 1)
      BY <2>3 DEF Unfolds
    <2>8. ASSUME NEW d \in 0..k
          PROVE  h[d] = IF d = 0 THEN TopLevel ELSE LayerAppended(h[d - 1], d - 1)
      <3>1. CASE d = k
        <4>1. k - 1 \in 0..k - 1
          BY <1>0, <1>3, <1>5
        <4>2. h[k - 1] = g[k - 1]
          BY <2>4, <4>1
        <4> QED
          BY <1>5, <2>5, <3>1, <4>2
      <3>2. CASE d # k
        <4>1. d \in 0..k - 1 /\ (d # 0 => d - 1 \in 0..k - 1)
          BY <1>0, <1>3, <3>2
        <4>2. h[d] = g[d] /\ (d # 0 => h[d - 1] = g[d - 1])
          BY <2>4, <4>1
        <4> QED
          BY <2>7, <4>1, <4>2
      <3> QED
        BY <3>1, <3>2
    <2>9. Unfolds(h, k)
      BY <2>6, <2>8, Zenon DEF Unfolds
    <2> QED
      BY <1>3, <2>9
  <1> QED
    BY <1>4, <1>5

\* However the tables are unfolded, they have only plain rows.
LEMMA UnfoldsRows ==
    ASSUME NEW g, Unfolds(g, Dim.layers)
    PROVE  \E n : Rows(g[Dim.layers], n)
  <1> DEFINE L == Dim.layers
             others == {k \in 0..L : ~\E n : Rows(g[k], n)}
  <1>0. L \in Nat
    BY RegistryAssumption
  <1>1. \A d \in 0..L : g[d] = IF d = 0 THEN TopLevel ELSE LayerAppended(g[d - 1], d - 1)
    BY DEF Unfolds
  <1>2. ASSUME others # {} PROVE FALSE
    <2>1. others \in SUBSET Nat
      BY <1>0
    <2>2. PICK k \in others : \A j \in others : k <= j
      <3> HIDE DEF others
      <3> QED
        BY <1>2, <2>1, Least
    <2>3. k \in 0..L /\ ~\E n : Rows(g[k], n)
      OBVIOUS
    <2> HIDE DEF L
    <2>4. k # 0
      <3>1. k = 0 => g[k] = TopLevel
        BY <1>0, <1>1
      <3> QED
        BY <2>3, <3>1, TopRows
    <2>5. k - 1 \in 0..L /\ ~(k <= k - 1)
      BY <1>0, <2>3, <2>4
    <2>6. k - 1 \notin others
      <3> HIDE DEF others
      <3> QED
        BY <2>2, <2>5
    <2>7. PICK n : Rows(g[k - 1], n)
      BY <2>5, <2>6
    <2>8. Rows(g[k], n + 24)
      BY <1>1, <2>3, <2>4, <2>7, LayerRows
    <2> QED
      BY <2>3, <2>8
  <1> HIDE DEF L
  <1>3. L \in 0..L
    BY <1>0
  <1>4. \E n : Rows(g[L], n)
    BY <1>2, <1>3
  <1> QED
    BY <1>4 DEF L

\* The row of one of the shards.
Shard(s, m) ==
    /\ s.component = "PLE_TABLE" /\ s.relation = "FUSED"
    /\ s.canonical = <<Dim.ple_rows, Dim.ple_width>>
    /\ Len(s.parts) = 1 /\ DOMAIN s.parts = {1}
    /\ s.parts[1].role = "FUSED_MEMBER" /\ s.parts[1].name = Fused
    /\ s.parts[1].fused = m /\ s.parts[1].axis = NoAxis
    /\ s.parts[1].dimensions = <<Dim.ple_width, Dim.ple_members * Dim.ple_rows>>

\* The rows of the fused tensor are those of its shards, in their order.
LEMMA TableRows ==
    ASSUME NEW l
    PROVE  /\ PleTable(l) = [k \in 1..Dim.ple_members |-> PleTable(l)[k]]
           /\ \A k \in 1..Dim.ple_members : Shard(PleTable(l)[k], k - 1)
  <1>1. PleTable(l) = [k \in 1..Dim.ple_members |-> PleTable(l)[k]]
    BY DEF PleTable
  <1>2. ASSUME NEW k \in 1..Dim.ple_members PROVE Shard(PleTable(l)[k], k - 1)
    <2> DEFINE part == Part(<<NoLayer, "per_layer_token_embd">>,
                            <<Dim.ple_width, Dim.ple_members * Dim.ple_rows>>,
                            {"IQ4_NL"}, "FUSED_MEMBER", k - 1, NoAxis)
               s == Semantic(<<l, "ple.table", k - 1>>, "PLE_TABLE", "FUSED",
                             <<Dim.ple_rows, Dim.ple_width>>, NoAxis, <<part>>)
    <2>1. PleTable(l)[k] = s
      BY DEF PleTable
    <2>2. /\ s.parts = <<part>> /\ s.component = "PLE_TABLE" /\ s.relation = "FUSED"
          /\ s.canonical = <<Dim.ple_rows, Dim.ple_width>>
      BY DEF Semantic
    <2>3. /\ part.role = "FUSED_MEMBER" /\ part.name = Fused /\ part.fused = k - 1
          /\ part.axis = NoAxis
          /\ part.dimensions = <<Dim.ple_width, Dim.ple_members * Dim.ple_rows>>
      BY DEF Part, Fused
    <2> HIDE DEF s, part
    <2>4. Shard(s, k - 1)
      BY <2>2, <2>3 DEF Shard
    <2> QED
      BY <2>1, <2>4
  <1> QED
    BY <1>1, <1>2

\* What comes before the shards.
LEMMA LeadingRows ==
    \E front, n : Rows(front, n) /\ Registry = front \o PleTable(Dim.ple_layer)
                                                     \o PleAddresses(Dim.ple_layer)
  <1> DEFINE f == CHOOSE g : Unfolds(g, Dim.layers)
             front == f[Dim.layers] \o PleDense(Dim.ple_layer)
  <1>1. Registry = front \o PleTable(Dim.ple_layer) \o PleAddresses(Dim.ple_layer)
    BY Zenon DEF Registry, Unfolds, LayerAppended
  <1>2. Unfolds(f, Dim.layers)
    BY UnfoldsExists
  <1> HIDE DEF f
  <1>3. PICK n : Rows(f[Dim.layers], n)
    BY <1>2, UnfoldsRows
  <1>4. Rows(front, n + 6)
    BY <1>3, PleDenseRows, CatRows
  <1> HIDE DEF front
  <1> QED
    BY <1>1, <1>4

\* The table: so many rows, then the shards, then the metadata's three.
TableIs(n) ==
    /\ n \in Nat /\ Len(Registry) = n + Dim.ple_members + 3
    /\ \A k \in 1..Len(Registry) :
         \/ k \in n + 1..n + Dim.ple_members /\ Shard(Registry[k], k - n - 1)
         \/ k \notin n + 1..n + Dim.ple_members /\ Plain(Registry[k])

\* The registry is such a table.
LEMMA RegistryTable == \E n : TableIs(n)
  <1> DEFINE B == PleTable(Dim.ple_layer)
             C == PleAddresses(Dim.ple_layer)
             m == Dim.ple_members
  <1>1. PICK A, n : Rows(A, n) /\ Registry = A \o B \o C
    BY LeadingRows
  <1>2. n \in Nat /\ m \in Nat
    BY <1>1, RegistryAssumption DEF Rows
  <1>3. B = [k \in 1..m |-> B[k]] /\ \A k \in 1..m : Shard(B[k], k - 1)
    BY TableRows
  <1>4. Rows(C, 3)
    BY AddressRows
  <1> HIDE DEF B, C, m
  <1> DEFINE S == {A[k] : k \in 1..n} \cup {B[k] : k \in 1..m} \cup {C[k] : k \in 1..3}
  <1>5. A \in Seq(S) /\ Len(A) = n
    <2>1. A = [k \in 1..n |-> A[k]] /\ \A k \in 1..n : A[k] \in S
      BY <1>1 DEF Rows
    <2>2. Len(A) = n
      BY <1>1, RowsLength
    <2> HIDE DEF S
    <2> QED
      BY ONLY <1>2, <2>1, <2>2, SequenceIntro
  <1>6. B \in Seq(S) /\ Len(B) = m
    <2>1. \A k \in 1..m : B[k] \in S
      OBVIOUS
    <2> HIDE DEF S
    <2>2. B \in Seq(S)
      BY ONLY <1>2, <1>3, <2>1, SequenceIntro
    <2>3. DOMAIN B = 1..m
      BY <1>3
    <2> QED
      BY ONLY <1>2, <2>2, <2>3
  <1>7. C \in Seq(S) /\ Len(C) = 3
    <2>1. C = [k \in 1..3 |-> C[k]] /\ \A k \in 1..3 : C[k] \in S
      BY <1>4 DEF Rows
    <2>2. Len(C) = 3
      BY <1>4, RowsLength
    <2> HIDE DEF S
    <2> QED
      BY ONLY <2>1, <2>2, SequenceIntro
  <1> HIDE DEF S
  <1>8. /\ A \o B \in Seq(S) /\ Len(A \o B) = n + m
        /\ \A k \in 1..n + m : (A \o B)[k] = IF k <= n THEN A[k] ELSE B[k - n]
    BY <1>5, <1>6, CatElements
  <1>9. /\ Len(Registry) = n + m + 3
        /\ \A k \in 1..n + m + 3 :
             Registry[k] = IF k <= n + m THEN (A \o B)[k] ELSE C[k - (n + m)]
    <2> DEFINE AB == A \o B
    <2>1. AB \in Seq(S) /\ Len(AB) = n + m /\ Registry = AB \o C
      BY <1>1, <1>8
    <2> HIDE DEF AB
    <2>2. /\ Len(AB \o C) = Len(AB) + Len(C)
          /\ \A k \in 1..Len(AB) + Len(C) :
               (AB \o C)[k] = IF k <= Len(AB) THEN AB[k] ELSE C[k - Len(AB)]
      BY <1>7, <2>1, CatElements
    <2>3. /\ Len(AB \o C) = n + m + 3
          /\ \A k \in 1..n + m + 3 :
               (AB \o C)[k] = IF k <= n + m THEN AB[k] ELSE C[k - (n + m)]
      BY <1>7, <2>1, <2>2
    <2> QED
      BY <2>1, <2>3 DEF AB
  <1>10. ASSUME NEW k \in 1..n + m + 3
         PROVE  \/ k \in n + 1..n + m /\ Shard(Registry[k], k - n - 1)
                \/ k \notin n + 1..n + m /\ Plain(Registry[k])
    <2>1. CASE k <= n
      <3>1. k \in 1..n /\ k \notin n + 1..n + m /\ k <= n + m /\ k \in 1..n + m
        BY <1>2, <2>1
      <3>2. Registry[k] = A[k]
        BY <1>8, <1>9, <2>1, <3>1
      <3> QED
        BY <1>1, <3>1, <3>2 DEF Rows
    <2>2. CASE k > n /\ k <= n + m
      <3>1. k \in n + 1..n + m /\ k - n \in 1..m /\ k \in 1..n + m /\ ~(k <= n)
        BY <1>2, <2>2
      <3>2. Registry[k] = B[k - n]
        BY <1>8, <1>9, <2>2, <3>1
      <3>3. Shard(B[k - n], k - n - 1)
        BY <1>3, <3>1
      <3> QED
        BY <3>1, <3>2, <3>3
    <2>3. CASE k > n + m
      <3>1. k \notin n + 1..n + m /\ k - (n + m) \in 1..3 /\ ~(k <= n + m)
        BY <1>2, <2>3
      <3>2. Registry[k] = C[k - (n + m)]
        BY <1>9, <3>1
      <3> QED
        BY <1>4, <3>1, <3>2 DEF Rows
    <2> QED
      BY <1>2, <2>1, <2>2, <2>3
  <1>11. TableIs(n)
    BY <1>2, <1>9, <1>10 DEF TableIs, m
  <1> QED
    BY <1>11

\* A sequence of checks that are all pairs as they should be has a verdict.
LEMMA VerdictType ==
    ASSUME NEW checks \in Seq(CheckType)
    PROVE  FirstRefusal(checks) \in Verdicts
  <1> DEFINE failed == {c \in DOMAIN checks : ~checks[c][1]}
  <1>0. DOMAIN checks = 1..Len(checks) /\ Len(checks) \in Nat
    OBVIOUS
  <1>1. CASE failed = {}
    BY <1>1 DEF FirstRefusal, Verdicts
  <1>2. CASE failed # {}
    <2>1. \E c \in failed : \A d \in failed : c <= d
      <3>1. failed \in SUBSET Nat
        BY <1>0
      <3> HIDE DEF failed
      <3> QED
        BY <3>1, <1>2, Least
    <2> DEFINE first == CHOOSE c \in failed : \A d \in failed : c <= d
    <2>2. first \in failed
      BY <2>1
    <2>3. FirstRefusal(checks) = checks[first][2]
      BY <1>2 DEF FirstRefusal
    <2>4. first \in 1..Len(checks)
      BY <1>0, <2>2
    <2> HIDE DEF first, failed
    <2>5. checks[first] \in CheckType
      BY <2>4
    <2> QED
      BY <2>3, <2>5 DEF CheckType
  <1> QED
    BY <1>1, <1>2

\* The places of the table's parts that are registered.
Bindings == {b \in Registered \X (1..2) : b[2] \in DOMAIN Registry[b[1]].parts}

\* The order in which they are bound.
Earlier(b, c) == b[1] < c[1] \/ (b[1] = c[1] /\ b[2] < c[2])

SoFar ==
    /\ model.registered \in 0..Len(Registry)
    /\ model.coverage = UNION {Places(Bound(b).name) : b \in Bindings}
    /\ \A b \in Bindings : \E i : /\ Places(Bound(b).name) = {i}
                                  /\ Tensor(i).dimensions = Bound(b).dimensions
    /\ \A b, c \in Bindings :
         Earlier(b, c) /\ Bound(b).name = Bound(c).name =>
           Bound(c).role = "FUSED_MEMBER" /\ Bound(c).fused # 0

\* What the registry knows at each stage.
Explained ==
    /\ stage \notin {"registry", "model"} => model = EmptyModel
    /\ stage \in {"registry", "model"} => SoFar
    /\ stage = "model" => /\ model.registered = Len(Registry)
                          /\ model.coverage = 1..parsed.tensors

\* When the table is whole and accounts for every tensor, each is bound as it
\* should be: its name is that of one row's part, or of the shards'.
LEMMA ExplainedBoundOnce ==
    ASSUME Explained, stage = "model", NEW i \in 1..parsed.tensors
    PROVE  BoundOnce(i)
  <1> DEFINE m == Dim.ple_members
  <1>1. PICK n : TableIs(n)
    BY RegistryTable
  <1>2. /\ n \in Nat /\ m \in Nat \ {0} /\ Len(Registry) = n + m + 3
        /\ \A k \in 1..n + m + 3 :
             \/ k \in n + 1..n + m /\ Shard(Registry[k], k - n - 1)
             \/ k \notin n + 1..n + m /\ Plain(Registry[k])
    BY <1>1, RegistryAssumption DEF TableIs
  <1> HIDE DEF m
  <1>3. Registered = 1..n + m + 3
    BY <1>2 DEF Explained, Registered
  <1>4. SoFar
    BY DEF Explained
  <1>5. Binders(i) = {b \in Bindings : Bound(b).name = Tensor(i).name}
    BY Zenon DEF Binders, Bindings, Bound
  <1>6. Binders(i) # {}
    <2>1. PICK b \in Bindings : i \in Places(Bound(b).name)
      BY <1>4 DEF Explained, SoFar
    <2>2. Bound(b).name = Tensor(i).name
      BY <2>1 DEF Places
    <2> QED
      BY <1>5, <2>2
  <1>7. CASE Tensor(i).name = Fused
    <2>1. Binders(i) = {<<k, 1>> : k \in n + 1..n + m}
      <3>1. ASSUME NEW b \in Binders(i) PROVE b \in {<<k, 1>> : k \in n + 1..n + m}
        <4>1. PICK k \in 1..n + m + 3, p \in 1..2 :
                /\ b = <<k, p>> /\ p \in DOMAIN Registry[k].parts
                /\ Registry[k].parts[p].name = Fused
          BY <1>3, <1>7, <3>1 DEF Binders
        <4>2. k \in n + 1..n + m /\ Shard(Registry[k], k - n - 1)
          BY <1>2, <4>1 DEF Plain
        <4>3. p = 1
          BY <4>1, <4>2 DEF Shard
        <4> QED
          BY <4>1, <4>2, <4>3
      <3>2. ASSUME NEW k \in n + 1..n + m PROVE <<k, 1>> \in Binders(i)
        <4>1. k \in 1..n + m + 3 /\ Shard(Registry[k], k - n - 1)
          BY <1>2
        <4> DEFINE b == <<k, 1>>
        <4>2. b[1] = k /\ b[2] = 1 /\ b \in Registered \X (1..2)
          BY <1>3, <4>1
        <4> HIDE DEF b
        <4>3. b \in Binders(i)
          BY <1>7, <4>1, <4>2 DEF Binders, Shard
        <4> QED
          BY <4>3 DEF b
      <3> QED
        BY <3>1, <3>2
    <2>2. ASSUME NEW k \in n + 1..n + m
          PROVE  Bound(<<k, 1>>).role = "FUSED_MEMBER" /\ Bound(<<k, 1>>).fused = k - n - 1
      <3>1. Shard(Registry[k], k - n - 1)
        BY <1>2
      <3> QED
        BY <3>1 DEF Shard, Bound
    <2>3. \A b \in Binders(i) : Bound(b).role = "FUSED_MEMBER"
      BY <2>1, <2>2
    <2>4. {Bound(b).fused : b \in Binders(i)} = 0..m - 1
      <3>1. ASSUME NEW b \in Binders(i) PROVE Bound(b).fused \in 0..m - 1
        <4>1. PICK k \in n + 1..n + m : b = <<k, 1>>
          BY <2>1
        <4>2. Bound(b).fused = k - n - 1
          BY <2>2, <4>1
        <4> QED
          BY <1>2, <4>2
      <3>2. ASSUME NEW f \in 0..m - 1 PROVE \E b \in Binders(i) : Bound(b).fused = f
        <4> DEFINE k == f + n + 1
        <4>1. k \in n + 1..n + m /\ k - n - 1 = f
          BY <1>2
        <4> HIDE DEF k
        <4>2. <<k, 1>> \in Binders(i) /\ Bound(<<k, 1>>).fused = k - n - 1
          BY <2>1, <2>2, <4>1
        <4> QED
          BY <4>1, <4>2
      <3> QED
        BY <3>1, <3>2
    <2>5. ASSUME NEW b \in Binders(i), NEW c \in Binders(i), b # c
          PROVE  Bound(b).fused # Bound(c).fused
      <3>1. PICK k \in n + 1..n + m : b = <<k, 1>>
        BY <2>1
      <3>2. PICK l \in n + 1..n + m : c = <<l, 1>>
        BY <2>1
      <3>3. Bound(b).fused = k - n - 1 /\ Bound(c).fused = l - n - 1
        BY <2>2, <3>1, <3>2
      <3>4. k # l
        BY <2>5, <3>1, <3>2
      <3> QED
        BY <1>2, <3>3, <3>4
    <2> QED
      BY <2>3, <2>4, <2>5 DEF BoundOnce, m
  <1>8. CASE Tensor(i).name # Fused
    <2>1. ASSUME NEW b \in Binders(i) PROVE Bound(b).role # "FUSED_MEMBER"
      <3>1. PICK k \in 1..n + m + 3, p \in 1..2 :
              /\ b = <<k, p>> /\ p \in DOMAIN Registry[k].parts
              /\ Registry[k].parts[p].name # Fused /\ Bound(b) = Registry[k].parts[p]
        BY <1>3, <1>8 DEF Binders, Bound
      <3>2. Plain(Registry[k])
        BY <1>2, <3>1 DEF Shard
      <3> QED
        BY <3>1, <3>2 DEF Plain
    <2>2. ASSUME NEW b \in Binders(i), NEW c \in Binders(i) PROVE b = c
      <3>1. b \in Bindings /\ c \in Bindings /\ Bound(b).name = Bound(c).name
        BY <1>5
      <3>2. ~Earlier(b, c) /\ ~Earlier(c, b)
        BY <1>4, <2>1, <3>1 DEF SoFar
      <3>3. b = <<b[1], b[2]>> /\ c = <<c[1], c[2]>>
            /\ {b[1], b[2], c[1], c[2]} \subseteq Int
        BY <1>2, <1>3, <3>1 DEF Bindings
      <3>4. b[1] = c[1] /\ b[2] = c[2]
        BY <3>2, <3>3 DEF Earlier
      <3> QED
        BY <3>3, <3>4
    <2> QED
      BY <1>6, <2>2 DEF BoundOnce
  <1> QED
    BY <1>7, <1>8

\* What any row of the table is made of.
LEMMA RowFacts ==
    ASSUME NEW k \in 1..Len(Registry)
    PROVE  /\ Len(Registry[k].parts) \in 0..2
           /\ DOMAIN Registry[k].parts = 1..Len(Registry[k].parts)
           /\ \A p \in 1..Len(Registry[k].parts) :
                Registry[k].parts[p].axis \in {2, NoAxis}
  <1>1. PICK n : TableIs(n)
    BY RegistryTable
  <1>2. Plain(Registry[k]) \/ Shard(Registry[k], k - n - 1)
    BY <1>1 DEF TableIs
  <1>3. CASE Plain(Registry[k])
    BY <1>3 DEF Plain
  <1>4. CASE Shard(Registry[k], k - n - 1)
    BY <1>4 DEF Shard
  <1> QED
    BY <1>2, <1>3, <1>4

\* It has an end.
LEMMA RegistryLength == Len(Registry) \in Nat
  <1>1. PICK n : TableIs(n)
    BY RegistryTable
  <1> QED
    BY <1>1, RegistryAssumption DEF TableIs

\* A part's name is that of one tensor of the part's shape, which is free unless
\* the part is a later member of a fused one.
Bindable(part, covered) ==
    \E i : /\ Places(part.name) = {i}
           /\ Tensor(i).dimensions = part.dimensions
           /\ i \notin covered \/ (part.role = "FUSED_MEMBER" /\ part.fused # 0)

\* Only such a part is bound (kq_bind_physical).
LEMMA BindType ==
    ASSUME FileInvariant, stage \in Opened, NEW part, part.axis \in {2, NoAxis}, NEW covered
    PROVE  /\ BindRefusal(part, covered) \in Verdicts
           /\ BindRefusal(part, covered) = "OK" => Bindable(part, covered)
  <1>1. CASE ~\E i \in Places(part.name) : Places(part.name) = {i}
    BY <1>1 DEF BindRefusal, Verdicts, Refusals
  <1>2. CASE \E i \in Places(part.name) : Places(part.name) = {i}
    <2> DEFINE checks == BindChecks(part, covered)
               i      == Place(part)
               t      == Tensor(i)
               free   == i \notin covered \/ (part.role = "FUSED_MEMBER" /\ part.fused # 0)
               stacked == part.axis # NoAxis => part.axis < Len(t.dimensions)
                                                /\ t.dimensions[part.axis + 1] = Dim.experts
               shaped == t.dimensions = part.dimensions
               typed  == t.type \in part.types
               c1 == <<shaped, "MODEL_TOPOLOGY_MISMATCH">>
               c2 == <<typed, "MODEL_TOPOLOGY_MISMATCH">>
               c3 == <<stacked, "MODEL_TOPOLOGY_MISMATCH">>
               c4 == <<free, "SEMANTIC_MAPPING_FAILED">>
    <2>1. Places(part.name) = {i}
      BY <1>2 DEF Place
    <2>2. i \in 1..parsed.tensors
      BY <2>1 DEF Places
    <2>3. i \in DOMAIN file.tensors
      <3>1. i \in 1..file.tensor_count /\ file.tensor_count <= MaxTensors
        BY <2>2, ImageFacts DEF FileInvariant, Typed, Counted, Directory, Opened
      <3> QED
        BY <3>1, ImageFacts DEF FileInvariant
    <2>4. t.dimensions \in Seq(Nat)
      BY <2>3, ImageFacts DEF FileInvariant, Tensor
    <2>5. checks = <<c1, c2, c3, c4>>
      BY Zenon DEF BindChecks
    <2> HIDE DEF i, t, checks
    <2>6. stacked \in BOOLEAN
      <3>1. Len(t.dimensions) \in Nat /\ part.axis \in Nat
        BY <2>4 DEF NoAxis
      <3> QED
        BY <3>1
    <2>7. free \in BOOLEAN /\ shaped \in BOOLEAN /\ typed \in BOOLEAN
      OBVIOUS
    <2> HIDE DEF free, stacked, shaped, typed
    <2>8. c1 \in CheckType /\ c2 \in CheckType
      BY <2>7, CheckIntro DEF Refusals
    <2>9. c3 \in CheckType /\ c4 \in CheckType
      BY <2>6, <2>7, CheckIntro DEF Refusals
    <2>10. c4[1] = free /\ c1[1] = shaped
      OBVIOUS
    <2> HIDE DEF c1, c2, c3, c4
    <2>11. /\ checks \in Seq(CheckType) /\ Len(checks) = 4
           /\ checks[4] = c4 /\ checks[1] = c1
      BY <2>5, <2>8, <2>9
    <2>12. BindRefusal(part, covered) = FirstRefusal(checks)
      BY <1>2 DEF BindRefusal, checks
    <2>13. FirstRefusal(checks) \in Verdicts
      BY <2>11, VerdictType
    <2>14. FirstRefusal(checks) = "OK" => free /\ shaped
      <3>1. SUFFICES ASSUME FirstRefusal(checks) = "OK" PROVE free /\ shaped
        OBVIOUS
      <3>2. \A c \in 1..Len(checks) : checks[c][1]
        BY <2>11, <3>1, NoRefusal
      <3>3. 4 \in 1..Len(checks) /\ 1 \in 1..Len(checks)
        BY <2>11
      <3>4. checks[4][1] /\ checks[1][1]
        BY ONLY <3>2, <3>3
      <3> QED
        BY ONLY <2>10, <2>11, <3>4, Zenon
    <2> QED
      BY <2>1, <2>12, <2>13, <2>14 DEF free, shaped, t, Bindable
  <1> QED
    BY <1>1, <1>2

\* A row is registered only if each of its parts is bound.
LEMMA RegisterAccepts ==
    ASSUME FileInvariant, stage = "registry", model.registered \in Nat,
           NEW k \in 1..Len(Registry), RegisterRefusal(Registry[k]) = "OK",
           NEW p \in 1..Len(Registry[k].parts)
    PROVE  Bindable(Registry[k].parts[p], CoveredBefore(Registry[k], p))
  <1> DEFINE s == Registry[k]
             n == Len(s.parts)
             bound(q) == BindRefusal(s.parts[q], CoveredBefore(s, q))
             c1 == <<s.relation = "METADATA_DERIVED" =>
                       IsArrayOf(MetadataKey(s), "UINT64", s.canonical[1]),
                     "MODEL_TOPOLOGY_MISMATCH">>
             few == model.registered < InitialSemantics
             c2 == <<few, "SEMANTIC_MAPPING_FAILED">>
             c3 == <<\A l \in Registered : Registry[l].id # s.id, "SEMANTIC_MAPPING_FAILED">>
             rank == Len(s.canonical)
             ranks == 1..MaxRank
             ranked == rank \in ranks
             c4 == <<ranked, "SEMANTIC_MAPPING_FAILED">>
             c5 == <<\A d \in DOMAIN s.canonical : s.canonical[d] # 0,
                     "SEMANTIC_MAPPING_FAILED">>
             head == <<c1, c2, c3, c4, c5>>
             tail == [q \in DOMAIN s.parts |-> <<bound(q) = "OK", bound(q)>>]
  <1>1. RegisterRefusal(s) = FirstRefusal(head \o tail)
    BY Zenon DEF RegisterRefusal
  <1>2. n \in Nat /\ DOMAIN s.parts = 1..n /\ \A q \in 1..n : s.parts[q].axis \in {2, NoAxis}
    BY RowFacts
  <1>3. stage \in Opened
    BY DEF Opened
  <1>4. c1 \in CheckType
    BY CheckIntro DEF Refusals, IsArrayOf
  <1>5. c2 \in CheckType
    <2>1. few \in BOOLEAN
      BY RegistryAssumption
    <2> HIDE DEF few
    <2> QED
      BY <2>1, CheckIntro DEF Refusals
  <1>6. c3 \in CheckType /\ c4 \in CheckType /\ c5 \in CheckType
    <2>1. c3 \in CheckType
      BY CheckIntro DEF Refusals
    <2>2. c4 \in CheckType
      <3>1. ranked \in BOOLEAN
        <4> HIDE DEF rank, ranks
        <4> QED
          OBVIOUS
      <3> HIDE DEF ranked
      <3> QED
        BY <3>1, CheckIntro DEF Refusals
    <2>3. c5 \in CheckType
      BY CheckIntro DEF Refusals
    <2> QED
      BY <2>1, <2>2, <2>3
  <1> HIDE DEF c1, c2, c3, c4, c5
  <1>7. head \in Seq(CheckType)
    BY <1>4, <1>5, <1>6
  <1>8. tail = [q \in 1..n |-> tail[q]]
    BY <1>2
  <1>9. \A q \in 1..n : tail[q] = <<bound(q) = "OK", bound(q)>>
    BY <1>2
  <1>10. ASSUME NEW q \in 1..n PROVE bound(q) \in Verdicts
    <2>1. s.parts[q].axis \in {2, NoAxis}
      BY <1>2
    <2> QED
      BY <1>3, <2>1, BindType
  <1> HIDE DEF s, n, bound, head, tail
  <1>11. tail \in Seq(CheckType) /\ Len(tail) = n
    <2>1. \A q \in 1..n : tail[q] \in CheckType
      BY <1>9, <1>10, VerdictIntro
    <2>2. tail \in Seq(CheckType)
      BY ONLY <1>2, <1>8, <2>1, SequenceIntro
    <2>3. DOMAIN tail = 1..n
      BY <1>8
    <2> QED
      BY ONLY <1>2, <2>2, <2>3
  <1>12. head \o tail \in Seq(CheckType)
    BY <1>7, <1>11
  <1>13. FirstRefusal(head \o tail) = "OK"
    BY <1>1 DEF s
  <1>14. \A c \in 1..Len(head \o tail) : (head \o tail)[c][1]
    BY <1>12, <1>13, NoRefusal
  <1>15. \A c \in 1..n : tail[c][1]
    BY <1>7, <1>11, <1>14, CatHolds
  <1>16. p \in 1..n
    BY DEF s, n
  <1>17. bound(p) = "OK"
    <2>1. tail[p][1] = (bound(p) = "OK")
      BY <1>9, <1>16
    <2> QED
      BY <1>15, <1>16, <2>1
  <1>18. s.parts[p].axis \in {2, NoAxis}
    BY <1>2, <1>16
  <1>19. BindRefusal(s.parts[p], CoveredBefore(s, p)) = "OK"
    BY <1>17 DEF bound
  <1> QED
    BY <1>3, <1>18, <1>19, BindType DEF s

\* One more row registered.
LEMMA RegisterSoFar ==
    ASSUME FileInvariant, SoFar, stage = "registry", model.registered < Len(Registry),
           RegisterRefusal(Registry[model.registered + 1]) = "OK",
           model'.registered = model.registered + 1,
           model'.coverage = CoveredBefore(Registry[model.registered + 1],
                               Len(Registry[model.registered + 1].parts) + 1),
           UNCHANGED <<file, parsed>>
    PROVE  SoFar'
  <1> DEFINE k == model.registered + 1
             s == Registry[k]
             n == Len(s.parts)
             new == {<<k, p>> : p \in 1..n}
  <1>1. /\ model.registered \in Nat /\ Len(Registry) \in Nat
        /\ k \in Nat /\ k \in 1..Len(Registry)
    BY RegistryLength DEF SoFar
  <1>2. n \in 0..2 /\ DOMAIN s.parts = 1..n
    BY <1>1, RowFacts
  <1>3. \A p \in 1..n : Bindable(s.parts[p], CoveredBefore(s, p))
    BY <1>1, RegisterAccepts
  <1> HIDE DEF n
  <1>4. Bindings' = Bindings \cup new
    <2> DEFINE Now == {b \in (1..k) \X (1..2) : b[2] \in DOMAIN Registry[b[1]].parts}
               Then == {b \in (1..k - 1) \X (1..2) : b[2] \in DOMAIN Registry[b[1]].parts}
    <2>1. Bindings' = Now /\ Bindings = Then
      BY <1>1 DEF Bindings, Registered
    <2>2. ASSUME NEW b \in Now PROVE b \in Then \cup new
      <3>1. PICK l \in 1..k, p \in 1..2 : b = <<l, p>>
        OBVIOUS
      <3>2. b[1] = l /\ b[2] = p /\ p \in DOMAIN Registry[l].parts
        BY <3>1
      <3>3. CASE l = k
        BY <1>2, <3>1, <3>2, <3>3
      <3>4. CASE l # k
        <4>1. l \in 1..k - 1
          BY <1>1, <3>4
        <4> QED
          BY <3>1, <3>2, <4>1
      <3> QED
        BY <3>3, <3>4
    <2>3. ASSUME NEW b \in Then PROVE b \in Now
      <3>1. PICK l \in 1..k - 1, p \in 1..2 : b = <<l, p>>
        OBVIOUS
      <3>2. l \in 1..k
        BY <1>1
      <3> QED
        BY <3>1, <3>2
    <2>4. ASSUME NEW b \in new PROVE b \in Now
      <3>1. PICK p \in 1..n : b = <<k, p>>
        OBVIOUS
      <3>2. p \in 1..2 /\ k \in 1..k
        BY <1>1, <1>2
      <3> QED
        BY <1>2, <3>1, <3>2
    <2> HIDE DEF Now, Then, new
    <2> QED
      BY <2>1, <2>2, <2>3, <2>4
  <1>5. \A b : Bound(b)' = Bound(b)
    BY DEF Bound
  <1>6. \A b : Places(Bound(b).name)' = Places(Bound(b).name)
    BY DEF Bound, Places, Tensor
  <1>7. \A p \in 1..n : Bound(<<k, p>>) = s.parts[p]
    BY DEF Bound
  <1> HIDE DEF new
  <1>8. model'.coverage = UNION {Places(Bound(b).name) : b \in Bindings'}
    <2>1. n + 1 - 1 = n
      BY <1>2
    <2>2. model'.coverage = model.coverage \cup UNION {Places(s.parts[q].name) : q \in 1..n}
      BY <2>1 DEF CoveredBefore, n
    <2>3. UNION {Places(s.parts[q].name) : q \in 1..n} = UNION {Places(Bound(b).name) : b \in new}
      BY <1>7 DEF new
    <2>4. model.coverage = UNION {Places(Bound(b).name) : b \in Bindings}
      BY DEF SoFar
    <2> QED
      BY <1>4, <2>2, <2>3, <2>4
  <1>9. \A b \in Bindings' : \E i : /\ Places(Bound(b).name) = {i}
                                   /\ Tensor(i).dimensions = Bound(b).dimensions
    <2>1. ASSUME NEW b \in new
          PROVE  \E i : /\ Places(Bound(b).name) = {i}
                        /\ Tensor(i).dimensions = Bound(b).dimensions
      <3>1. PICK p \in 1..n : b = <<k, p>>
        BY DEF new
      <3> QED
        BY <1>3, <1>7, <3>1 DEF Bindable
    <2> QED
      BY <1>4, <2>1 DEF SoFar
  <1>10. ASSUME NEW b \in Bindings', NEW c \in Bindings',
                Earlier(b, c), Bound(b).name = Bound(c).name
         PROVE  Bound(c).role = "FUSED_MEMBER" /\ Bound(c).fused # 0
    <2>1. CASE c \in Bindings
      <3>1. b \in Bindings
        <4>1. PICK l \in 1..k - 1, q \in 1..2 : c = <<l, q>>
          BY <1>1, <2>1 DEF Bindings, Registered
        <4>2. ASSUME NEW p \in 1..n, b = <<k, p>> PROVE FALSE
          BY <1>1, <1>10, <4>1, <4>2 DEF Earlier
        <4> QED
          BY <1>4, <4>2 DEF new
      <3> QED
        BY <1>10, <2>1, <3>1 DEF SoFar
    <2>2. CASE c \in new
      <3>1. PICK q \in 1..n : c = <<k, q>>
        BY <2>2 DEF new
      <3>2. Bound(c) = s.parts[q] /\ Bindable(s.parts[q], CoveredBefore(s, q))
        BY <1>3, <1>7, <3>1
      <3>3. Places(Bound(b).name) \subseteq CoveredBefore(s, q)
        <4>1. CASE b \in Bindings
          BY <4>1 DEF SoFar, CoveredBefore
        <4>2. CASE b \in new
          <5>1. PICK p \in 1..n : b = <<k, p>>
            BY <4>2 DEF new
          <5>2. p \in 1..q - 1
            BY <1>1, <1>2, <1>10, <3>1, <5>1 DEF Earlier
          <5>3. Bound(b) = s.parts[p]
            BY <1>7, <5>1
          <5> QED
            BY <5>2, <5>3 DEF CoveredBefore
        <4> QED
          BY <1>4, <4>1, <4>2
      <3> QED
        BY <1>10, <3>2, <3>3 DEF Bindable
    <2> QED
      BY <1>4, <2>1, <2>2
  <1>11. model'.registered \in 0..Len(Registry)
    BY <1>1
  <1>12. \A i : Tensor(i)' = Tensor(i)
    BY DEF Tensor
  <1> HIDE DEF k, s
  <1>13. model'.coverage = UNION {Places(Bound(b).name)' : b \in Bindings'}
    BY <1>6, <1>8
  <1>14. \A b \in Bindings' : \E i : /\ Places(Bound(b).name)' = {i}
                                    /\ (Tensor(i).dimensions)' = (Bound(b).dimensions)'
    BY <1>5, <1>6, <1>9, <1>12
  <1>15. \A b, c \in Bindings' :
           Earlier(b, c) /\ (Bound(b).name)' = (Bound(c).name)' =>
             (Bound(c).role)' = "FUSED_MEMBER" /\ (Bound(c).fused)' # 0
    BY <1>5, <1>10
  <1> QED
    BY <1>11, <1>13, <1>14, <1>15 DEF SoFar

\* The table is read only if every check of its completeness holds.
LEMMA CompletionAccepts ==
    ASSUME FirstRefusal(CompletionChecks) = "OK"
    PROVE  model.coverage = 1..parsed.tensors
  <1> DEFINE split    == \A k \in Registered :
                           Registry[k].relation = "SPLIT" => Len(Registry[k].parts) = 2
             fused    == \A k \in Registered :
                           Registry[k].relation = "FUSED" => Len(Registry[k].parts) = 1
             all      == model.registered = InitialSemantics
             covers   == model.coverage = 1..parsed.tensors
             payload  == \A k \in Registered : Registry[k].parts # << >>
                               \/ Registry[k].relation = "METADATA_DERIVED"
             c1 == <<split, "SEMANTIC_MAPPING_FAILED">>
             c2 == <<fused, "SEMANTIC_MAPPING_FAILED">>
             c3 == <<all, "SEMANTIC_MAPPING_FAILED">>
             c4 == <<covers, "UNKNOWN_PHYSICAL_TENSOR">>
             c5 == <<payload, "SEMANTIC_MAPPING_FAILED">>
             checks == CompletionChecks
  <1>1. checks = <<c1, c2, c3, c4, c5>>
    BY Zenon DEF CompletionChecks
  <1>2. {split, fused, all, covers, payload} \subseteq BOOLEAN
    OBVIOUS
  <1> HIDE DEF split, fused, all, covers, payload, checks
  <1>3. {c1, c2, c3, c4, c5} \subseteq CheckType
    BY <1>2, CheckIntro DEF Refusals
  <1>4. c4[1] = covers
    OBVIOUS
  <1> HIDE DEF c1, c2, c3, c4, c5
  <1>5. checks \in Seq(CheckType) /\ Len(checks) = 5 /\ checks[4] = c4
    BY <1>1, <1>3
  <1>6. \A c \in 1..Len(checks) : checks[c][1]
    BY <1>5, NoRefusal DEF checks
  <1>7. checks[4][1]
    BY ONLY <1>5, <1>6
  <1>8. covers
    BY ONLY <1>4, <1>5, <1>7, Zenon
  <1> QED
    BY <1>8 DEF covers

\* What is registered stays so while the file and the registry do.
LEMMA SoFarStays == ASSUME SoFar, UNCHANGED <<model, file, parsed>> PROVE SoFar'
  <1>1. Bindings' = Bindings
    BY DEF Bindings, Registered
  <1>2. \A b : Bound(b)' = Bound(b)
    BY DEF Bound
  <1>3. \A b : Places(Bound(b).name)' = Places(Bound(b).name)
    BY DEF Bound, Places, Tensor
  <1>4. \A i : Tensor(i)' = Tensor(i)
    BY DEF Tensor
  <1> QED
    BY <1>1, <1>2, <1>3, <1>4 DEF SoFar

\* The registry's steps keep what is known of it.
LEMMA RegistryExplained ==
    ASSUME FileInvariant, Explained, RegistryNext \/ CloseModel
    PROVE  Explained'
  <1>1. CASE \E status : RefuseModel(status)
    BY <1>1 DEF RefuseModel, Explained, EmptyModel
  <1>2. CASE AllocateModel
    BY <1>1, <1>2 DEF AllocateModel, Acquire, Explained, EmptyModel
  <1>3. CASE AllocateEntries
    BY <1>3 DEF AllocateEntries, Acquire, Explained, EmptyModel
  <1>4. CASE CheckEntries
    BY <1>1, <1>4 DEF CheckEntries, Acquire, Explained, EmptyModel
  <1>5. CASE ValidateIdentity
    <2>1. CASE Acquire({}, "registry") /\ UNCHANGED model
      <3>1. stage' = "registry" /\ model' = EmptyModel
        BY <1>5, <2>1 DEF ValidateIdentity, Acquire, Explained
      <3>2. model'.registered = 0 /\ model'.coverage = {}
        BY <3>1 DEF EmptyModel
      <3>3. Bindings' = {}
        BY <3>2 DEF Bindings, Registered
      <3>4. SoFar'
        BY <3>2, <3>3, RegistryLength DEF SoFar
      <3> QED
        BY <3>1, <3>4 DEF Explained
    <2> QED
      BY <1>1, <1>5, <2>1 DEF ValidateIdentity
  <1>6. CASE Register
    <2> DEFINE k == model.registered + 1
               s == Registry[k]
    <2>1. CASE RegisterRefusal(s) = "OK"
      <3>1. /\ stage = "registry" /\ model.registered < Len(Registry)
            /\ model' = [registered |-> k, coverage |-> CoveredBefore(s, Len(s.parts) + 1)]
            /\ UNCHANGED ggufVars
        BY <1>6, <2>1 DEF Register
      <3>2. SoFar
        BY <3>1 DEF Explained
      <3>3. SoFar'
        BY <2>1, <3>1, <3>2, RegisterSoFar DEF ggufVars
      <3> QED
        BY <3>1, <3>3 DEF Explained, ggufVars
    <2> QED
      BY <1>1, <1>6, <2>1 DEF Register
  <1>7. CASE CompleteRegistry
    <2>1. CASE FirstRefusal(CompletionChecks) = "OK"
      <3>1. /\ stage = "registry" /\ model.registered = Len(Registry) /\ stage' = "model"
            /\ UNCHANGED <<file, parsed, model>>
        BY <1>7, <2>1 DEF CompleteRegistry, Acquire
      <3>2. model.coverage = 1..parsed.tensors
        BY <2>1, CompletionAccepts
      <3>3. SoFar'
        BY <3>1, SoFarStays DEF Explained
      <3> QED
        BY <3>1, <3>2, <3>3 DEF Explained
    <2> QED
      BY <1>1, <1>7, <2>1 DEF CompleteRegistry
  <1>8. CASE CloseModel
    BY <1>8 DEF CloseModel, Explained, EmptyModel
  <1> QED
    BY <1>2, <1>3, <1>4, <1>5, <1>6, <1>7, <1>8 DEF RegistryNext

\* A step that leaves all this alone leaves it explained.
LEMMA StayExplained ==
    ASSUME Explained, UNCHANGED <<stage, model, file, parsed>>
    PROVE  Explained'
  BY SoFarStays DEF Explained, EmptyModel

\* So do all others, which leave the registry and the file as they are.
LEMMA ExplainedNextInv ==
    ASSUME TextInvariant, Explained, [TextNext]_textVars
    PROVE  Explained'
  <1>1. CASE UNCHANGED textVars
    BY <1>1, StayExplained DEF textVars, viewVars, registryVars, ggufVars
  <1>2. CASE FileStep
    <2>1. stage # "model" /\ stage # "registry" /\ stage' # "model" /\ stage' # "registry"
      BY <1>2 DEF FileStep, GgufNext, FileNext, ContainerNext, CreateFile, GetSize,
         CreateMapping, AllocateFile, ReadGranularity, AllocateGguf, MapDirectory,
         ReadHeader, AllocateTables, ReadMetadata, EndMetadata, ReadTensor,
         LocateData, AllocateOrder, ValidateSpans, CloseContainer, CloseFile,
         Acquire, Fail, RefuseOpen
    <2> QED
      BY <1>2, <2>1 DEF FileStep, Explained, EmptyModel
  <1>3. CASE RegistryStep
    BY <1>3, RegistryExplained DEF RegistryStep, TextInvariant
  <1>4. CASE ViewStep
    BY <1>4, StayExplained DEF ViewStep, ViewNext, OpenView, CloseView, registryVars, ggufVars
  <1>5. CASE TokenizerStep
    <2>1. Still /\ stage' = "model"
      BY <1>5, TokenizerMoves DEF TextInvariant
    <2> QED
      BY <1>5, <2>1, StayExplained DEF TokenizerStep, Still
  <1>6. CASE SamplingStep
    BY <1>6, StayExplained DEF SamplingStep, viewVars, registryVars, ggufVars
  <1> QED
    BY <1>1, <1>2, <1>3, <1>4, <1>5, <1>6 DEF TextNext, Ended

\* In every state of a run the registry is as explained.
LEMMA ExplainedHolds == TextSpec => []Explained
  <1>1. TextInit => Explained
    BY DEF TextInit, ViewInit, RegistryInit, GgufInit, Explained
  <1>2. TextInvariant /\ Explained /\ [TextNext]_textVars => Explained'
    BY ExplainedNextInv
  <1> QED
    BY <1>1, <1>2, TextInvariantHolds, PTL DEF TextSpec

\* Whatever the file holds and however large the topology is, when the model
\* opens each tensor is bound by one row of the table, once, or, if it is the
\* fused table, by each of its members (kq_model.c:593).
THEOREM TensorsAreBoundOnce == TextSpec => EveryTensorBoundOnce
  <1> DEFINE AllBound == \A i \in 1..parsed.tensors : BoundOnce(i)
             Kept     == stage = "model" => AllBound
  <1>1. Explained => Kept
    BY ExplainedBoundOnce
  <1>2. Kept' => [Opening => AllBound']_registryVars
    BY DEF Opening
  <1> HIDE DEF Kept
  <1> QED
    BY <1>1, <1>2, ExplainedHolds, PTL DEF EveryTensorBoundOnce
-----------------------------------------------------------------------------
(* Arithmetic of shapes and blocks.                                        *)

\* Turning a shape around does not change how many elements it has, nor
\* whether their number overflows.
LEMMA ReversedProduct ==
    ASSUME NEW d \in Seq(Nat), Len(d) \in 1..4
    PROVE  Product(Reversed(d), Len(Reversed(d))) = Product(d, Len(d))
  <1> DEFINE n == Len(d)
             r == Reversed(d)
  <1>1. r = [k \in 1..n |-> d[n + 1 - k]]
    BY DEF Reversed
  <1>2. \A k \in 1..n : n + 1 - k \in 1..n /\ d[n + 1 - k] \in Nat
    OBVIOUS
  <1>3. n \in 1..4
    OBVIOUS
  <1> HIDE DEF n, r
  <1>4. r \in Seq(Nat) /\ Len(r) = n
    <2>1. r = [k \in 1..n |-> r[k]] /\ \A k \in 1..n : r[k] \in Nat
      BY <1>1, <1>2
    <2>2. n \in Nat
      BY <1>3
    <2>3. r \in Seq(Nat)
      BY ONLY <2>1, <2>2, SequenceIntro
    <2>4. DOMAIN r = 1..n
      BY <1>1
    <2> QED
      BY <2>2, <2>3, <2>4
  <1>5. \A k \in 1..n : r[k] = d[n + 1 - k]
    BY <1>1
  <1> DEFINE product(x, k) ==
               IF k = 1 THEN x[1]
               ELSE IF k = 2 THEN x[1] * x[2]
               ELSE IF k = 3 THEN x[1] * x[2] * x[3]
               ELSE x[1] * x[2] * x[3] * x[4]
  <1>6. ASSUME NEW x \in Seq(Nat), Len(x) = n PROVE Product(x, n) = Fit(product(x, n))
    <2>1. /\ Product(x, 1) = Fit(x[1])
          /\ Len(x) >= 2 => Product(x, 2) = Fit(x[1] * x[2])
          /\ Len(x) >= 3 => Product(x, 3) = Fit(x[1] * x[2] * x[3])
          /\ Len(x) >= 4 => Product(x, 4) = Fit(x[1] * x[2] * x[3] * x[4])
      <3>1. Len(x) >= 1
        BY <1>3, <1>6
      <3> QED
        BY ONLY x \in Seq(Nat), <3>1, ShortProducts
    <2>2. CASE n = 1
      BY <1>6, <2>1, <2>2
    <2>3. CASE n = 2
      BY <1>6, <2>1, <2>3
    <2>4. CASE n = 3
      BY <1>6, <2>1, <2>4
    <2>5. CASE n = 4
      BY <1>6, <2>1, <2>5
    <2> QED
      BY <1>3, <2>2, <2>3, <2>4, <2>5
  <1>7. Product(r, n) = Fit(product(r, n)) /\ Product(d, n) = Fit(product(d, n))
    BY <1>4, <1>6 DEF n
  <1>8. \A k \in 1..n : d[k] \in Nat
    BY DEF n
  <1>9. product(r, n) = product(d, n)
    <2>1. CASE n = 1
      BY <1>5, <2>1
    <2>2. CASE n = 2
      <3>1. r[1] = d[2] /\ r[2] = d[1] /\ d[1] \in Nat /\ d[2] \in Nat
        BY <1>5, <1>8, <2>2
      <3> QED
        BY <2>2, <3>1
    <2>3. CASE n = 3
      <3>1. r[1] = d[3] /\ r[2] = d[2] /\ r[3] = d[1]
        BY <1>5, <2>3
      <3>2. d[1] \in Nat /\ d[2] \in Nat /\ d[3] \in Nat
        BY <1>8, <2>3
      <3>3. d[3] * d[2] * d[1] = d[1] * d[2] * d[3]
        BY <3>2
      <3> QED
        BY <2>3, <3>1, <3>3
    <2>4. CASE n = 4
      <3>1. r[1] = d[4] /\ r[2] = d[3] /\ r[3] = d[2] /\ r[4] = d[1]
        BY <1>5, <2>4
      <3>2. d[1] \in Nat /\ d[2] \in Nat /\ d[3] \in Nat /\ d[4] \in Nat
        BY <1>8, <2>4
      <3>4. d[4] * d[3] * d[2] * d[1] = d[1] * d[2] * d[3] * d[4]
        <4> DEFINE w == d[1]
                   x == d[2]
                   y == d[3]
                   z == d[4]
                   p == z * y
                   r1 == x * w
        <4>1. w \in Nat /\ x \in Nat /\ y \in Nat /\ z \in Nat
          BY ONLY <3>2
        <4> HIDE DEF w, x, y, z
        <4>2. p \in Nat /\ r1 \in Nat /\ p = y * z /\ r1 = w * x
          BY ONLY <4>1
        <4> HIDE DEF p, r1
        <4>3. p * x * w = p * (x * w)
          BY ONLY <4>1, <4>2
        <4>4. r1 * (y * z) = r1 * y * z
          BY ONLY <4>1, <4>2
        <4>5. p * r1 = r1 * p
          BY ONLY <4>2
        <4>6. p * x * w = r1 * y * z
          BY ONLY <4>2, <4>3, <4>4, <4>5 DEF r1
        <4>7. z * y * x * w = w * x * y * z
          <5>1. z * y * x * w = p * x * w
            BY ONLY DEF p
          <5>2. r1 * y * z = w * x * y * z
            BY ONLY <4>2
          <5> QED
            BY ONLY <4>6, <5>1, <5>2
        <4> QED
          BY ONLY <4>7 DEF w, x, y, z
      <3> QED
        BY <2>4, <3>1, <3>4
    <2> QED
      BY <1>3, <2>1, <2>2, <2>3, <2>4
  <1> HIDE DEF product
  <1> QED
    BY <1>4, <1>7, <1>9 DEF n, r

\* The blocks of a whole tensor: from the first to the last, and no others.
LEMMA WholeSpan ==
    ASSUME NEW e \in Nat \ {0}, NEW q \in Nat
    PROVE  0 \div e = 0 /\ (0 + e * q - 1) \div e + 1 = q
  <1>1. 0 \div e = 0
    OBVIOUS
  <1>2. (e * (q - 1) + (e - 1)) \div e = q - 1
    OBVIOUS
  <1>3. e * (q - 1) + (e - 1) = 0 + e * q - 1
    <2>1. e * (q - 1) = e * q - e /\ e * q \in Int
      OBVIOUS
    <2> QED
      BY <2>1
  <1> QED
    BY <1>1, <1>2, <1>3
-----------------------------------------------------------------------------
(* What a granted call has been checked for.                               *)

\* One check, two and three: a verdict of "OK" says that what they check holds.
LEMMA OneCheck ==
    ASSUME NEW a \in BOOLEAN, NEW ra \in Refusals
    PROVE  /\ << <<a, ra>> >> \in Seq(CheckType)
           /\ FirstRefusal(<< <<a, ra>> >>) = "OK" => a
  <1> DEFINE ca == <<a, ra>>
  <1>1. ca \in CheckType /\ ca[1] = a
    BY CheckIntro
  <1> HIDE DEF ca
  <1> DEFINE checks == <<ca>>
  <1>2. checks \in Seq(CheckType) /\ Len(checks) = 1 /\ checks[1] = ca
    BY <1>1
  <1> HIDE DEF checks
  <1>3. FirstRefusal(checks) = "OK" => \A c \in 1..1 : checks[c][1]
    BY <1>2, NoRefusal
  <1>4. FirstRefusal(checks) = "OK" => a
    BY <1>1, <1>2, <1>3
  <1> QED
    BY <1>2, <1>4 DEF checks, ca

\* The same of two checks.
LEMMA TwoChecks ==
    ASSUME NEW a \in BOOLEAN, NEW ra \in Refusals, NEW b \in BOOLEAN, NEW rb \in Refusals
    PROVE  /\ << <<a, ra>>, <<b, rb>> >> \in Seq(CheckType)
           /\ FirstRefusal(<< <<a, ra>>, <<b, rb>> >>) = "OK" => a /\ b
  <1> DEFINE ca == <<a, ra>>
             cb == <<b, rb>>
  <1>1. ca \in CheckType /\ ca[1] = a /\ cb \in CheckType /\ cb[1] = b
    BY CheckIntro
  <1> HIDE DEF ca, cb
  <1> DEFINE checks == <<ca, cb>>
  <1>2. checks \in Seq(CheckType) /\ Len(checks) = 2 /\ checks[1] = ca /\ checks[2] = cb
    BY <1>1
  <1> HIDE DEF checks
  <1>3. FirstRefusal(checks) = "OK" => \A c \in 1..2 : checks[c][1]
    BY <1>2, NoRefusal
  <1>4. FirstRefusal(checks) = "OK" => a /\ b
    BY <1>1, <1>2, <1>3
  <1> QED
    BY <1>2, <1>4 DEF checks, ca, cb

\* The same of three.
LEMMA ThreeChecks ==
    ASSUME NEW a \in BOOLEAN, NEW ra \in Refusals, NEW b \in BOOLEAN, NEW rb \in Refusals,
           NEW d \in BOOLEAN, NEW rd \in Refusals
    PROVE  /\ << <<a, ra>>, <<b, rb>>, <<d, rd>> >> \in Seq(CheckType)
           /\ FirstRefusal(<< <<a, ra>>, <<b, rb>>, <<d, rd>> >>) = "OK" => a /\ b /\ d
  <1> DEFINE ca == <<a, ra>>
             cb == <<b, rb>>
             cd == <<d, rd>>
  <1>1. /\ ca \in CheckType /\ ca[1] = a /\ cb \in CheckType /\ cb[1] = b
        /\ cd \in CheckType /\ cd[1] = d
    BY CheckIntro
  <1> HIDE DEF ca, cb, cd
  <1> DEFINE checks == <<ca, cb, cd>>
  <1>2. /\ checks \in Seq(CheckType) /\ Len(checks) = 3
        /\ checks[1] = ca /\ checks[2] = cb /\ checks[3] = cd
    BY <1>1
  <1> HIDE DEF checks
  <1>3. FirstRefusal(checks) = "OK" => \A c \in 1..3 : checks[c][1]
    BY <1>2, NoRefusal
  <1>4. FirstRefusal(checks) = "OK" => a /\ b /\ d
    BY <1>1, <1>2, <1>3
  <1> QED
    BY <1>2, <1>4 DEF checks, ca, cb, cd

\* A call with a binding that the semantic has (kq_validate_open_arguments).
LEMMA ArgumentsGranted ==
    ASSUME NEW s, NEW c, FirstRefusal(ArgumentChecks(s, c)) = "OK"
    PROVE  c.binding < Len(s.parts)
  <1> DEFINE a == s.relation # "METADATA_DERIVED"
             b == c.binding < Len(s.parts)
             ra == "NO_TENSOR_PAYLOAD"
             rb == "SPAN_OUT_OF_RANGE"
  <1>1. ArgumentChecks(s, c) = << <<a, ra>>, <<b, rb>> >>
    BY Zenon DEF ArgumentChecks
  <1>2. a \in BOOLEAN /\ b \in BOOLEAN /\ ra \in Refusals /\ rb \in Refusals
    BY DEF Refusals
  <1> HIDE DEF a, b, ra, rb
  <1>3. FirstRefusal(<< <<a, ra>>, <<b, rb>> >>) = "OK"
    BY <1>1
  <1>4. a /\ b
    BY <1>2, <1>3, TwoChecks
  <1> QED
    BY <1>4 DEF b

\* The checks of a split, of a whole tensor and of the order are checks.
LEMMA SplitType == ASSUME NEW s PROVE SplitChecks(s) \in Seq(CheckType)
  <1>1. CASE s.relation # "SPLIT"
    BY <1>1 DEF SplitChecks
  <1>2. CASE s.relation = "SPLIT"
    <2> DEFINE a == Len(s.parts) = 2 /\ Place(s.parts[1]) # Place(s.parts[2])
               b == \/ s.parts[1].role = "GATE" /\ s.parts[2].role = "UP"
                    \/ s.parts[1].role = "INDEX_QUERY" /\ s.parts[2].role = "INDEX_KEY"
               d == CanonicalElements(s) # 0
               e == CanonicalElements(s)
                      = Elements(Physical(s, 0)) + Elements(Physical(s, 1))
               ca == <<a, "SEMANTIC_MAPPING_FAILED">>
               cb == <<b, "SEMANTIC_MAPPING_FAILED">>
               cd == <<d, "ARITHMETIC_OVERFLOW">>
               ce == <<e, "INVALID_QUANTIZED_GEOMETRY">>
    <2>1. SplitChecks(s) = <<ca, cb, cd, ce>>
      BY <1>2, Zenon DEF SplitChecks
    <2>2. a \in BOOLEAN /\ b \in BOOLEAN /\ d \in BOOLEAN /\ e \in BOOLEAN
      OBVIOUS
    <2> HIDE DEF a, b, d, e
    <2>3. ca \in CheckType /\ cb \in CheckType /\ cd \in CheckType /\ ce \in CheckType
      BY <2>2, CheckIntro DEF Refusals
    <2> HIDE DEF ca, cb, cd, ce
    <2> QED
      BY <2>1, <2>3
  <1> QED
    BY <1>1, <1>2

\* The check of a whole tensor, and what it says.
LEMMA WholeType ==
    ASSUME NEW s, NEW t
    PROVE  /\ WholeChecks(s, t) \in Seq(CheckType)
           /\ FirstRefusal(WholeChecks(s, t)) = "OK" =>
                (s.relation # "SPLIT" => CanonicalElements(s) = Elements(t))
  <1> DEFINE a == s.relation # "SPLIT" => CanonicalElements(s) = Elements(t)
             ra == "INVALID_QUANTIZED_GEOMETRY"
  <1>1. WholeChecks(s, t) = << <<a, ra>> >>
    BY Zenon DEF WholeChecks
  <1>2. a \in BOOLEAN /\ ra \in Refusals
    BY DEF Refusals
  <1> HIDE DEF a, ra
  <1>3. /\ WholeChecks(s, t) \in Seq(CheckType)
        /\ FirstRefusal(WholeChecks(s, t)) = "OK" => a
    BY <1>1, <1>2, OneCheck
  <1> QED
    BY <1>3 DEF a

\* The check of the order asked for.
LEMMA OrderType == ASSUME NEW s, NEW c PROVE OrderChecks(s, c) \in Seq(CheckType)
  <1> DEFINE a == c.canonical => Contiguous(s)
             ra == "TENSOR_LAYOUT_MISMATCH"
  <1>1. OrderChecks(s, c) = << <<a, ra>> >>
    BY Zenon DEF OrderChecks
  <1>2. a \in BOOLEAN /\ ra \in Refusals
    BY DEF Refusals
  <1> HIDE DEF a, ra
  <1> QED
    BY <1>1, <1>2, OneCheck

\* A granted binding is a tensor that holds the canonical elements, unless it
\* is half of a split, and has few dimensions, unless it is contiguous
\* (kq_tensor_view_open_binding).
LEMMA BindingGranted ==
    ASSUME NEW s, NEW c, FirstRefusal(BindingChecks(s, c)) = "OK"
    PROVE  LET t == Physical(s, c.binding)
           IN  /\ s.relation # "SPLIT" => CanonicalElements(s) = Elements(t)
               /\ Contiguous(s) \/ Len(t.dimensions) <= MaxShape
  <1> DEFINE t == Physical(s, c.binding)
             a == s.relation # "FUSED"
             b == Contiguous(s) \/ Len(t.dimensions) <= MaxShape
             ra == "TENSOR_LAYOUT_MISMATCH"
             rb == "INVALID_QUANTIZED_GEOMETRY"
             head == << <<a, ra>> >>
             split == SplitChecks(s)
             whole == WholeChecks(s, t)
             order == OrderChecks(s, c)
             tail == << <<b, rb>> >>
  <1>1. BindingChecks(s, c) = (((head \o split) \o whole) \o order) \o tail
    BY Zenon DEF BindingChecks
  <1>2. a \in BOOLEAN /\ b \in BOOLEAN /\ ra \in Refusals /\ rb \in Refusals
    BY DEF Refusals
  <1> HIDE DEF a, b, ra, rb
  <1>3. head \in Seq(CheckType) /\ tail \in Seq(CheckType) /\ (FirstRefusal(tail) = "OK" => b)
    BY <1>2, OneCheck
  <1>4. split \in Seq(CheckType) /\ whole \in Seq(CheckType) /\ order \in Seq(CheckType)
    BY SplitType, WholeType, OrderType
  <1>5. FirstRefusal(whole) = "OK" =>
          (s.relation # "SPLIT" => CanonicalElements(s) = Elements(t))
    BY WholeType
  <1> HIDE DEF head, split, whole, order, tail
  <1>6. /\ head \o split \in Seq(CheckType) /\ (head \o split) \o whole \in Seq(CheckType)
        /\ ((head \o split) \o whole) \o order \in Seq(CheckType)
    BY <1>3, <1>4
  <1>7. /\ FirstRefusal(((head \o split) \o whole) \o order) = "OK"
        /\ FirstRefusal(tail) = "OK"
    BY <1>1, <1>3, <1>6, CatOK
  <1>8. FirstRefusal((head \o split) \o whole) = "OK"
    BY <1>4, <1>6, <1>7, CatOK
  <1>9. FirstRefusal(whole) = "OK"
    BY <1>4, <1>6, <1>8, CatOK
  <1> QED
    BY <1>3, <1>5, <1>7, <1>9 DEF b

\* A granted range is in a tensor with elements (kq_quant_range_to_blocks).
LEMMA RangeType ==
    ASSUME NEW t, NEW offset, NEW count
    PROVE  /\ RangeRefusal(t, offset, count) \in Verdicts
           /\ RangeRefusal(t, offset, count) = "OK" => Elements(t) # 0
  <1> DEFINE a == count # 0
             b == WholeBlocks(t.type, Elements(t))
             d == AddFits(offset, count)
             e == offset < Elements(t) /\ offset + count <= Elements(t)
             ca == <<a, "INVALID_ARGUMENT">>
             cb == <<b, "INVALID_QUANTIZED_GEOMETRY">>
             cd == <<d, "ARITHMETIC_OVERFLOW">>
             ce == <<e, "SPAN_OUT_OF_RANGE">>
             checks == <<ca, cb, cd, ce>>
  <1>1. RangeRefusal(t, offset, count) = FirstRefusal(checks)
    BY Zenon DEF RangeRefusal
  <1>2. a \in BOOLEAN /\ b \in BOOLEAN /\ d \in BOOLEAN /\ e \in BOOLEAN
    BY DEF WholeBlocks, AddFits
  <1>3. b => Elements(t) # 0
    BY DEF WholeBlocks
  <1> HIDE DEF a, b, d, e
  <1>4. ca \in CheckType /\ cb \in CheckType /\ cd \in CheckType /\ ce \in CheckType
    BY <1>2, CheckIntro DEF Refusals
  <1>5. cb[1] = b
    OBVIOUS
  <1> HIDE DEF ca, cb, cd, ce
  <1>6. checks \in Seq(CheckType) /\ Len(checks) = 4 /\ checks[2] = cb
    BY <1>4
  <1> HIDE DEF checks
  <1>7. FirstRefusal(checks) \in Verdicts
    BY <1>6, VerdictType
  <1>8. FirstRefusal(checks) = "OK" => checks[2][1]
    <2>1. FirstRefusal(checks) = "OK" => \A c \in 1..4 : checks[c][1]
      BY <1>6, NoRefusal
    <2> QED
      BY <2>1
  <1> QED
    BY <1>1, <1>3, <1>5, <1>6, <1>7, <1>8

\* The checks of a range that starts and ends with a block, and what they say.
LEMMA AlignedType ==
    ASSUME NEW t, NEW offset, NEW count
    PROVE  /\ AlignedChecks(t, offset, count) \in Seq(CheckType)
           /\ FirstRefusal(AlignedChecks(t, offset, count)) = "OK" =>
                /\ Elements(t) # 0
                /\ BlockSpan(t.type, offset, count).leading = 0
                /\ BlockSpan(t.type, offset, count).trailing = 0
  <1> DEFINE range == RangeRefusal(t, offset, count)
             a == range = "OK"
             b == /\ BlockSpan(t.type, offset, count).leading = 0
                  /\ BlockSpan(t.type, offset, count).trailing = 0
             ca == <<a, range>>
             cb == <<b, "NONCONTIGUOUS_TENSOR_VIEW">>
             checks == <<ca, cb>>
  <1>1. AlignedChecks(t, offset, count) = checks
    BY Zenon DEF AlignedChecks
  <1>2. range \in Verdicts /\ (range = "OK" => Elements(t) # 0)
    BY RangeType
  <1>3. b \in BOOLEAN
    OBVIOUS
  <1> HIDE DEF range, b
  <1>4. ca \in CheckType
    BY <1>2, VerdictIntro
  <1> HIDE DEF a
  <1>5. cb \in CheckType
    BY <1>3, CheckIntro DEF Refusals
  <1>6. ca[1] = a /\ cb[1] = b
    OBVIOUS
  <1> HIDE DEF ca, cb
  <1>7. checks \in Seq(CheckType) /\ Len(checks) = 2 /\ checks[1] = ca /\ checks[2] = cb
    BY <1>4, <1>5
  <1> HIDE DEF checks
  <1>8. FirstRefusal(checks) = "OK" => \A c \in 1..2 : checks[c][1]
    BY <1>7, NoRefusal
  <1>9. FirstRefusal(checks) = "OK" => a
    BY <1>6, <1>7, <1>8
  <1>10. FirstRefusal(checks) = "OK" => b
    BY <1>6, <1>7, <1>8
  <1> QED
    BY <1>1, <1>2, <1>7, <1>9, <1>10 DEF a, b

\* A granted expert is one of those of a stack that has them all in its last
\* dimension, and starts and ends with a block (kq_tensor_view_open_expert_member).
LEMMA ExpertGranted ==
    ASSUME NEW s, NEW c, FirstRefusal(ExpertChecks(s, c)) = "OK"
    PROVE  LET t    == Physical(s, c.binding)
               axis == s.parts[c.binding + 1].axis
               size == ExpertElements(t)
           IN  /\ c.expert < Dim.experts
               /\ t.dimensions[axis + 1] = Dim.experts /\ axis + 1 = Len(t.dimensions)
               /\ Elements(t) # 0
               /\ BlockSpan(t.type, c.expert * size, size).leading = 0
               /\ BlockSpan(t.type, c.expert * size, size).trailing = 0
  <1> DEFINE t    == Physical(s, c.binding)
             axis == s.parts[c.binding + 1].axis
             size == ExpertElements(t)
             ra == "INVALID_QUANTIZED_GEOMETRY"
             rb == "SPAN_OUT_OF_RANGE"
             rd == "TENSOR_LAYOUT_MISMATCH"
             re == "NONCONTIGUOUS_TENSOR_VIEW"
             a == s.component = "ROUTED" /\ s.axis < Len(s.canonical)
                    /\ s.canonical[s.axis + 1] = Dim.experts
             b == c.expert < Dim.experts
             d == Contiguous(s) \/ s.relation = "SPLIT"
             e == axis < Len(t.dimensions) /\ t.dimensions[axis + 1] = Dim.experts
             f == axis + 1 = Len(t.dimensions)
             g == axis # 0
             head  == << <<a, ra>>, <<b, rb>> >>
             split == SplitChecks(s)
             kind  == << <<d, rd>> >>
             whole == WholeChecks(s, t)
             axes  == << <<e, ra>>, <<f, re>>, <<g, ra>> >>
             range == AlignedChecks(t, c.expert * size, size)
             order == OrderChecks(s, c)
  <1>1. ExpertChecks(s, c)
          = (((((head \o split) \o kind) \o whole) \o axes) \o range) \o order
    BY Zenon DEF ExpertChecks
  <1>2. /\ a \in BOOLEAN /\ b \in BOOLEAN /\ d \in BOOLEAN /\ e \in BOOLEAN
        /\ f \in BOOLEAN /\ g \in BOOLEAN
    OBVIOUS
  <1>3. ra \in Refusals /\ rb \in Refusals /\ rd \in Refusals /\ re \in Refusals
    BY DEF Refusals
  <1>4. FirstRefusal(range) = "OK" =>
          /\ Elements(t) # 0
          /\ BlockSpan(t.type, c.expert * size, size).leading = 0
          /\ BlockSpan(t.type, c.expert * size, size).trailing = 0
    BY AlignedType
  <1>5. /\ split \in Seq(CheckType) /\ whole \in Seq(CheckType)
        /\ range \in Seq(CheckType) /\ order \in Seq(CheckType)
    BY SplitType, WholeType, AlignedType, OrderType
  <1>6. b => c.expert < Dim.experts
    OBVIOUS
  <1>7. e /\ f => t.dimensions[axis + 1] = Dim.experts /\ axis + 1 = Len(t.dimensions)
    OBVIOUS
  <1> HIDE DEF a, b, d, e, f, g, ra, rb, rd, re
  <1>8. head \in Seq(CheckType) /\ (FirstRefusal(head) = "OK" => a /\ b)
    BY <1>2, <1>3, TwoChecks
  <1>9. kind \in Seq(CheckType)
    BY <1>2, <1>3, OneCheck
  <1>10. axes \in Seq(CheckType) /\ (FirstRefusal(axes) = "OK" => e /\ f /\ g)
    BY <1>2, <1>3, ThreeChecks
  <1> HIDE DEF head, split, kind, whole, axes, range, order
  <1>11. /\ head \o split \in Seq(CheckType) /\ (head \o split) \o kind \in Seq(CheckType)
         /\ ((head \o split) \o kind) \o whole \in Seq(CheckType)
    BY <1>5, <1>8, <1>9
  <1>12. /\ (((head \o split) \o kind) \o whole) \o axes \in Seq(CheckType)
         /\ ((((head \o split) \o kind) \o whole) \o axes) \o range \in Seq(CheckType)
    BY <1>5, <1>10, <1>11
  <1>13. FirstRefusal(((((head \o split) \o kind) \o whole) \o axes) \o range) = "OK"
    BY <1>1, <1>5, <1>12, CatOK
  <1>14. /\ FirstRefusal((((head \o split) \o kind) \o whole) \o axes) = "OK"
         /\ FirstRefusal(range) = "OK"
    BY <1>5, <1>12, <1>13, CatOK
  <1>15. /\ FirstRefusal(((head \o split) \o kind) \o whole) = "OK"
         /\ FirstRefusal(axes) = "OK"
    BY <1>10, <1>11, <1>14, CatOK
  <1>16. FirstRefusal((head \o split) \o kind) = "OK"
    BY <1>5, <1>11, <1>15, CatOK
  <1>17. FirstRefusal(head \o split) = "OK"
    BY <1>9, <1>11, <1>16, CatOK
  <1>18. FirstRefusal(head) = "OK"
    BY <1>5, <1>8, <1>17, CatOK
  <1> QED
    BY <1>4, <1>6, <1>7, <1>8, <1>10, <1>14, <1>15, <1>18

\* A granted member of the table is one of those, all of the same rows, and
\* starts and ends with a block (kq_tensor_view_open_ple_member).
LEMMA PleGranted ==
    ASSUME NEW s, NEW c, FirstRefusal(PleChecks(s, c)) = "OK"
    PROVE  LET t    == Physical(s, 0)
               part == s.parts[1]
               size == MemberElements(t)
           IN  /\ part.role = "FUSED_MEMBER" /\ part.fused < Dim.ple_members
               /\ Len(t.dimensions) = 2 /\ t.dimensions[2] % Dim.ple_members = 0
               /\ s.canonical = <<t.dimensions[2] \div Dim.ple_members, t.dimensions[1]>>
               /\ Elements(t) # 0
               /\ BlockSpan(t.type, part.fused * size, size).leading = 0
               /\ BlockSpan(t.type, part.fused * size, size).trailing = 0
  <1> DEFINE t    == Physical(s, 0)
             part == s.parts[1]
             size == MemberElements(t)
             ra == "INVALID_QUANTIZED_GEOMETRY"
             re == "NONCONTIGUOUS_TENSOR_VIEW"
             a == s.component = "PLE_TABLE" /\ s.relation = "FUSED" /\ Len(s.canonical) = 2
             b == part.role = "FUSED_MEMBER" /\ part.fused < Dim.ple_members
                    /\ Len(t.dimensions) = 2 /\ t.dimensions[2] % Dim.ple_members = 0
             d == s.canonical = <<t.dimensions[2] \div Dim.ple_members, t.dimensions[1]>>
             e == BlockSpan(t.type, part.fused * size, size).blocks
                    * TypeInfo[t.type].bytes < Packed(t)
             head  == << <<a, ra>>, <<b, ra>>, <<d, ra>> >>
             range == AlignedChecks(t, part.fused * size, size)
             tail  == << <<e, re>> >>
  <1>1. PleChecks(s, c) = (head \o range) \o tail
    BY Zenon DEF PleChecks
  <1>2. a \in BOOLEAN /\ b \in BOOLEAN /\ d \in BOOLEAN /\ e \in BOOLEAN
    OBVIOUS
  <1>3. ra \in Refusals /\ re \in Refusals
    BY DEF Refusals
  <1>4. /\ range \in Seq(CheckType)
        /\ FirstRefusal(range) = "OK" =>
             /\ Elements(t) # 0
             /\ BlockSpan(t.type, part.fused * size, size).leading = 0
             /\ BlockSpan(t.type, part.fused * size, size).trailing = 0
    BY AlignedType
  <1>5. b => /\ part.role = "FUSED_MEMBER" /\ part.fused < Dim.ple_members
             /\ Len(t.dimensions) = 2 /\ t.dimensions[2] % Dim.ple_members = 0
    OBVIOUS
  <1>6. d => s.canonical = <<t.dimensions[2] \div Dim.ple_members, t.dimensions[1]>>
    OBVIOUS
  <1> HIDE DEF a, b, d, e, ra, re
  <1>7. head \in Seq(CheckType) /\ (FirstRefusal(head) = "OK" => a /\ b /\ d)
    BY <1>2, <1>3, ThreeChecks
  <1>8. tail \in Seq(CheckType)
    BY <1>2, <1>3, OneCheck
  <1> HIDE DEF head, range, tail
  <1>9. head \o range \in Seq(CheckType)
    BY <1>4, <1>7
  <1>10. FirstRefusal(head \o range) = "OK"
    BY <1>1, <1>8, <1>9, CatOK
  <1>11. FirstRefusal(head) = "OK" /\ FirstRefusal(range) = "OK"
    BY <1>4, <1>7, <1>10, CatOK
  <1> QED
    BY <1>4, <1>5, <1>6, <1>7, <1>11

\* A granted call is one of its kind, of a binding the semantic has.
CallGranted(s, c) ==
    /\ c.binding < Len(s.parts)
    /\ c.kind = "BINDING" => FirstRefusal(BindingChecks(s, c)) = "OK"
    /\ c.kind = "EXPERT" => FirstRefusal(ExpertChecks(s, c)) = "OK"
    /\ c.kind = "PLE" => FirstRefusal(PleChecks(s, c)) = "OK"

\* A call that names an entry point the semantic is not made for is refused.
LEMMA WrongKind == FirstRefusal(<< <<FALSE, "INVALID_QUANTIZED_GEOMETRY">> >>) # "OK"
  <1>1. FALSE \in BOOLEAN /\ "INVALID_QUANTIZED_GEOMETRY" \in Refusals
    BY DEF Refusals
  <1> QED
    BY <1>1, OneCheck

\* A view is opened only on a granted call.
LEMMA ViewGranted ==
    ASSUME NEW s, NEW c, c.kind \in {"BINDING", "EXPERT", "PLE"}, ViewRefusal(s, c) = "OK"
    PROVE  CallGranted(s, c)
  <1>1. CallRefusal(s, c) = "OK"
    BY DEF ViewRefusal
  <1>2. FirstRefusal(ArgumentChecks(s, c)) = "OK"
    BY <1>1 DEF CallRefusal
  <1>3. c.binding < Len(s.parts)
    BY <1>2, ArgumentsGranted
  <1>4. CASE c.kind = "BINDING"
    <2>1. FirstRefusal(BindingChecks(s, c)) = "OK"
      BY <1>1, <1>2, <1>4 DEF CallRefusal
    <2> QED
      BY <1>3, <1>4, <2>1 DEF CallGranted
  <1>5. CASE c.kind = "EXPERT"
    <2>1. FirstRefusal(IF s.component = "ROUTED" THEN ExpertChecks(s, c)
                       ELSE << <<FALSE, "INVALID_QUANTIZED_GEOMETRY">> >>) = "OK"
      BY <1>1, <1>2, <1>5 DEF CallRefusal
    <2>2. FirstRefusal(ExpertChecks(s, c)) = "OK"
      BY <2>1, WrongKind
    <2> QED
      BY <1>3, <1>5, <2>2 DEF CallGranted
  <1>6. CASE c.kind = "PLE"
    <2>1. FirstRefusal(IF s.component = "PLE_TABLE" THEN PleChecks(s, c)
                       ELSE << <<FALSE, "INVALID_QUANTIZED_GEOMETRY">> >>) = "OK"
      BY <1>1, <1>2, <1>6 DEF CallRefusal
    <2>2. FirstRefusal(PleChecks(s, c)) = "OK"
      BY <2>1, WrongKind
    <2> QED
      BY <1>3, <1>6, <2>2 DEF CallGranted
  <1> QED
    BY <1>4, <1>5, <1>6
-----------------------------------------------------------------------------
(* What a view shows.                                                      *)

\* A tensor as an open container has it: whole blocks behind a place in the file.
TensorIs(i, q) ==
    LET t == Tensor(i)
    IN  /\ t.type \in DOMAIN TypeInfo /\ t.dimensions \in Seq(Nat)
        /\ Len(t.dimensions) \in 1..MaxDimensions
        /\ q \in Nat /\ Elements(t) = TypeInfo[t.type].elements * q
        /\ Packed(t) = q * TypeInfo[t.type].bytes
        /\ DataOffset(i) \in Nat

\* Every tensor of an open container is whole blocks of its type.
LEMMA TensorBlocked ==
    ASSUME FileInvariant, stage \in Opened, NEW i \in Tensors
    PROVE  Blocked(Tensor(i)) /\ Tensor(i).dimensions \in Seq(Nat) /\ Tensor(i).offset \in Nat
  <1>1. /\ i \in 1..file.tensor_count /\ file.tensor_count <= MaxTensors
        /\ Blocked(Tensor(i))
    BY ImageFacts DEF FileInvariant, Typed, Counted, Directory, Tensors, Tensor
  <1>2. i \in DOMAIN file.tensors
    BY <1>1, ImageFacts DEF FileInvariant
  <1> QED
    BY <1>1, <1>2, ImageFacts DEF FileInvariant, Tensor

\* It has a place in the file, and its elements are those of its blocks.
LEMMA TensorFacts ==
    ASSUME FileInvariant, stage \in Opened, NEW i \in Tensors
    PROVE  \E q : TensorIs(i, q)
  <1> DEFINE t == Tensor(i)
             e == TypeInfo[t.type].elements
             q == Elements(t) \div e
  <1>1. Blocked(t)
    BY TensorBlocked
  <1>2. t.dimensions \in Seq(Nat) /\ t.offset \in Nat
    BY TensorBlocked
  <1>3. DataOffset(i) \in Nat
    <2>1. gguf.data_section \in Nat
      BY DEF FileInvariant, Located, Directory, Opened
    <2> QED
      BY <1>2, <2>1 DEF DataOffset, Offset
  <1> HIDE DEF t
  <1>4. /\ t.type \in DOMAIN TypeInfo /\ Len(t.dimensions) \in 1..MaxDimensions
        /\ Elements(t) % e = 0
    BY <1>1 DEF Blocked
  <1>5. e \in Nat \ {0} /\ Elements(t) \in Nat
    BY <1>2, <1>4, PackedType
  <1>6. Packed(t) = q * TypeInfo[t.type].bytes
    BY DEF Packed
  <1> HIDE DEF e
  <1>7. q \in Nat /\ Elements(t) = e * q
    BY <1>4, <1>5
  <1> HIDE DEF q
  <1>8. TensorIs(i, q)
    BY <1>2, <1>3, <1>4, <1>6, <1>7 DEF TensorIs, t, e
  <1> QED
    BY <1>8

\* The elements of one member.
MemberSize(kind, t) == CASE kind = "BINDING" -> Elements(t)
                         [] kind = "EXPERT"  -> ExpertElements(t)
                         [] kind = "PLE"     -> MemberElements(t)

\* A view that shows the blocks from one to another of its tensor, all of them
\* and only them holding the elements of its member.
ShowsBlocks(v, first, last) ==
    LET t == Tensor(v.tensor)
        e == TypeInfo[t.type].elements
        b == TypeInfo[t.type].bytes
        n == MemberSize(v.kind, t)
    IN  /\ first \in Nat /\ last \in Nat /\ v.member \in Nat /\ n \in Nat
        /\ first * e = v.member * n /\ last * e = v.member * n + n
        /\ v.data = DataOffset(v.tensor) + first * b
        /\ v.length = (last - first) * b

Shown(v) ==
    /\ v.tensor \in Tensors /\ v.kind \in {"BINDING", "EXPERT", "PLE"}
    /\ v.member < Divisions(v.kind)
    /\ Product(v.shape, Len(v.shape)) = MemberSize(v.kind, Tensor(v.tensor))
    /\ Divisions(v.kind) * MemberSize(v.kind, Tensor(v.tensor)) = Elements(Tensor(v.tensor))
    /\ \E first, last : ShowsBlocks(v, first, last)

\* What is opened on whole blocks shows them.
LEMMA WindowShows ==
    ASSUME NEW s, NEW c,
           NEW i, i = Place(s.parts[c.binding + 1]), NEW q, TensorIs(i, q),
           NEW m \in Nat, m = Member(s, c), NEW n \in Nat, n = MemberSize(c.kind, Tensor(i)),
           ElementRange(s, c) = <<m * n, n>>,
           BlockSpan(Tensor(i).type, m * n, n).leading = 0,
           BlockSpan(Tensor(i).type, m * n, n).trailing = 0
    PROVE  \E first, last : ShowsBlocks(View(s, c), first, last)
  <1> DEFINE t == Tensor(i)
             e == TypeInfo[t.type].elements
             b == TypeInfo[t.type].bytes
             span == BlockSpan(t.type, m * n, n)
             first == (m * n) \div e
             last  == (m * n + n - 1) \div e + 1
             at    == DataOffset(i) + first * b
             base  == at - (at % Granularity)
             v == View(s, c)
  <1>1. e \in Nat \ {0} /\ b \in Nat \ {0} /\ DataOffset(i) \in Nat
    BY PackedType DEF TensorIs
  <1>2. /\ span.first_block = first /\ span.blocks = last - first
        /\ span.leading = m * n - first * e /\ span.trailing = last * e - (m * n + n)
    BY DEF BlockSpan
  <1>3. Physical(s, c.binding) = t
    BY DEF Physical
  <1>4. Window(s, c) = [start |-> span.first_block * b, length |-> span.blocks * b]
    BY <1>3 DEF Window
  <1>5. /\ v.kind = c.kind /\ v.tensor = i /\ v.member = m
        /\ v.data = base + (at - base) /\ v.length = (last - first) * b
    <2> HIDE DEF span, first, last, b
    <2>1. Window(s, c).start = first * b /\ Window(s, c).length = (last - first) * b
      BY <1>2, <1>4
    <2> QED
      BY <2>1 DEF View, b
  <1> HIDE DEF e, b, span, v, t
  <1>6. m * n \in Nat
    OBVIOUS
  <1>7. first \in Nat /\ last \in Int
    BY <1>1, <1>6
  <1>8. first * e = m * n /\ last * e = m * n + n
    <2> HIDE DEF first, last
    <2>1. span.leading = 0 /\ span.trailing = 0
      BY DEF span, t
    <2> DEFINE x == m * n
               y == first * e
               z == last * e
    <2>2. y \in Int /\ z \in Int
      BY <1>1, <1>7
    <2>3. 0 = x - y /\ 0 = z - (x + n) /\ x \in Nat
      BY <1>2, <1>6, <2>1
    <2> HIDE DEF x, y, z
    <2>4. y = x /\ z = x + n
      BY <2>2, <2>3
    <2> QED
      BY <2>4 DEF x, y, z
  <1> HIDE DEF first, last
  <1>9. last \in Nat
    <2>1. last < 0 => last * e < 0
      BY <1>1, <1>7
    <2> QED
      BY <1>6, <1>7, <1>8, <2>1
  <1>10. v.data = at
    <2>1. at \in Nat
      BY <1>1, <1>7
    <2> HIDE DEF at
    <2>2. at % Granularity \in Int
      BY <2>1, ViewAssumption
    <2> QED
      BY <1>5, <2>1, <2>2
  <1>11. ShowsBlocks(v, first, last)
    BY <1>1, <1>5, <1>7, <1>8, <1>9, <1>10 DEF ShowsBlocks, t, e, b
  <1> QED
    BY <1>11 DEF v

\* In an open model every part of the table is one of the file's tensors.
LEMMA PartPlaced ==
    ASSUME Explained, stage = "model", NEW k \in 1..Len(Registry),
           NEW p \in 1..Len(Registry[k].parts)
    PROVE  Place(Registry[k].parts[p]) \in Tensors
  <1> DEFINE b == <<k, p>>
             name == Registry[k].parts[p].name
  <1>1. Len(Registry[k].parts) \in 0..2 /\ DOMAIN Registry[k].parts = 1..Len(Registry[k].parts)
    BY RowFacts
  <1>2. k \in Registered /\ p \in 1..2 /\ p \in DOMAIN Registry[k].parts
    <2> DEFINE l == Len(Registry[k].parts)
    <2>1. l \in 0..2 /\ p \in 1..l
      BY <1>1
    <2> HIDE DEF l
    <2>2. p \in 1..2
      BY <2>1
    <2>3. k \in Registered
      BY DEF Explained, Registered
    <2> QED
      BY <1>1, <2>2, <2>3
  <1>3. b \in Bindings /\ Bound(b).name = name
    BY <1>2 DEF Bindings, Bound
  <1>4. PICK i : Places(name) = {i}
    BY <1>3 DEF Explained, SoFar
  <1>5. Place(Registry[k].parts[p]) = i
    BY <1>4 DEF Place
  <1> QED
    BY <1>4, <1>5 DEF Places, Tensors

\* A member of the fused tensor has a place in it.
LEMMA MemberNumber ==
    ASSUME NEW k \in 1..Len(Registry), NEW p \in 1..Len(Registry[k].parts),
           Registry[k].parts[p].role = "FUSED_MEMBER"
    PROVE  Registry[k].parts[p].fused \in Nat
  <1>1. PICK n : TableIs(n)
    BY RegistryTable
  <1>2. CASE Plain(Registry[k])
    BY <1>2 DEF Plain
  <1>3. CASE k \in n + 1..n + Dim.ple_members /\ Shard(Registry[k], k - n - 1)
    <2>1. p = 1 /\ Registry[k].parts[p].fused = k - n - 1
      <3>1. Len(Registry[k].parts) = 1 /\ Registry[k].parts[1].fused = k - n - 1
        BY <1>3 DEF Shard
      <3>2. p \in 1..1
        BY <3>1
      <3> QED
        BY <3>1, <3>2
    <2>2. k - n - 1 \in Nat
      BY <1>1, <1>3, RegistryAssumption DEF TableIs
    <2> QED
      BY <2>1, <2>2
  <1> QED
    BY <1>1, <1>2, <1>3 DEF TableIs

\* What has to be known of a view to say so.
LEMMA ShownIntro ==
    ASSUME NEW v, NEW i \in Tensors, v.tensor = i,
           NEW kind \in {"BINDING", "EXPERT", "PLE"}, v.kind = kind,
           v.member < Divisions(kind), NEW n, n = MemberSize(kind, Tensor(i)),
           Product(v.shape, Len(v.shape)) = n, Divisions(kind) * n = Elements(Tensor(i)),
           \E first, last : ShowsBlocks(v, first, last)
    PROVE  Shown(v)
  BY Zenon DEF Shown

\* A whole tensor is shown as what it is, and the canonical shape as it is or
\* turned around has all its elements (kq_tensor_view_open_binding).
LEMMA BindingShown ==
    ASSUME NEW s, NEW c, c.kind = "BINDING", FirstRefusal(BindingChecks(s, c)) = "OK",
           NEW i \in Tensors, i = Place(s.parts[c.binding + 1]), NEW q, TensorIs(i, q)
    PROVE  Shown(View(s, c))
  <1> DEFINE t == Tensor(i)
             e == TypeInfo[t.type].elements
             n == Elements(t)
             v == View(s, c)
  <1>1. Physical(s, c.binding) = t
    BY DEF Physical
  <1>2. /\ s.relation # "SPLIT" => CanonicalElements(s) = n
        /\ Contiguous(s) \/ Len(t.dimensions) <= MaxShape
    BY <1>1, BindingGranted
  <1>3. e \in Nat \ {0} /\ n \in Nat /\ q \in Nat /\ n = e * q
    BY PackedType DEF TensorIs
  <1>4. MemberSize(c.kind, t) = n /\ Member(s, c) = 0 /\ ElementRange(s, c) = <<0, n>>
    BY <1>1 DEF MemberSize, Member, ElementRange
  <1>5. v.kind = "BINDING" /\ v.tensor = i /\ v.member = 0 /\ v.shape = LogicalShape(s, c)
    BY <1>4 DEF View
  <1>6. Product(v.shape, Len(v.shape)) = n
    <2>1. CASE Contiguous(s)
      <3>1. v.shape = s.canonical
        BY <1>5, <2>1 DEF LogicalShape
      <3>2. s.relation # "SPLIT"
        BY <2>1 DEF Contiguous
      <3> QED
        BY <1>2, <3>1, <3>2 DEF CanonicalElements
    <2>2. CASE ~Contiguous(s)
      <3>1. v.shape = Reversed(t.dimensions)
        BY <1>1, <1>5, <2>2 DEF LogicalShape
      <3>2. t.dimensions \in Seq(Nat) /\ Len(t.dimensions) \in 1..4
        <4>1. t.dimensions \in Seq(Nat) /\ Len(t.dimensions) \in 1..8
          BY DEF TensorIs, MaxDimensions
        <4>2. Len(t.dimensions) <= 4
          BY <1>2, <2>2 DEF MaxShape
        <4>3. \A l \in 1..8 : l <= 4 => l \in 1..4
          OBVIOUS
        <4> QED
          BY ONLY <4>1, <4>2, <4>3, Zenon
      <3> QED
        BY <3>1, <3>2, ReversedProduct DEF Elements
    <2> QED
      BY <2>1, <2>2
  <1>7. /\ BlockSpan(t.type, 0, n).leading = 0
        /\ BlockSpan(t.type, 0, n).trailing = 0
    <2>1. 0 \div e = 0 /\ (0 + e * q - 1) \div e + 1 = q
      BY <1>3, WholeSpan
    <2>2. /\ BlockSpan(t.type, 0, n).leading = 0 - (0 \div e) * e
          /\ BlockSpan(t.type, 0, n).trailing = ((0 + n - 1) \div e + 1) * e - (0 + n)
      BY DEF BlockSpan
    <2> HIDE DEF e, n, t
    <2>3. (0 + n - 1) \div e + 1 = q /\ q * e = n
      BY <1>3, <2>1
    <2>4. 0 * e = 0 /\ n - (0 + n) = 0 /\ 0 - 0 = 0
      BY <1>3
    <2> QED
      BY <2>1, <2>2, <2>3, <2>4
  <1>8. 0 * n = 0 /\ 1 * n = n
    BY <1>3
  <1> HIDE DEF n
  <1>9. \E first, last : ShowsBlocks(v, first, last)
    <2> HIDE DEF v
    <2>1. ElementRange(s, c) = <<0 * n, n>> /\ n = MemberSize(c.kind, Tensor(i))
          /\ 0 = Member(s, c)
      BY <1>4, <1>8
    <2>2. BlockSpan(Tensor(i).type, 0 * n, n).leading = 0
          /\ BlockSpan(Tensor(i).type, 0 * n, n).trailing = 0
      BY <1>7, <1>8
    <2>3. 0 \in Nat
      OBVIOUS
    <2> QED
      BY <1>3, <2>1, <2>2, <2>3, WindowShows DEF v
  <1> HIDE DEF v
  <1>10. Divisions("BINDING") = 1
    BY DEF Divisions
  <1>11. v.member < Divisions("BINDING") /\ Divisions("BINDING") * n = n
    BY <1>5, <1>8, <1>10
  <1>12. Shown(v)
    BY ONLY <1>4, <1>5, <1>6, <1>9, <1>11, ShownIntro, i \in Tensors, c.kind = "BINDING" DEF n
  <1> QED
    BY <1>12 DEF v

\* One expert of a stack is shown by the two dimensions below the experts'
\* (kq_tensor_view_open_expert_member).
LEMMA ExpertShown ==
    ASSUME NEW s, NEW c, c.kind = "EXPERT", c.expert \in Nat,
           FirstRefusal(ExpertChecks(s, c)) = "OK",
           s.parts[c.binding + 1].axis \in {2, NoAxis},
           NEW i \in Tensors, i = Place(s.parts[c.binding + 1]), NEW q, TensorIs(i, q)
    PROVE  Shown(View(s, c))
  <1> DEFINE t == Tensor(i)
             d == t.dimensions
             n == ExpertElements(t)
             x == Dim.experts
             v == View(s, c)
             low == SubSeq(d, 1, 2)
  <1>1. Physical(s, c.binding) = t
    BY DEF Physical
  <1>2. /\ c.expert < x
        /\ d[s.parts[c.binding + 1].axis + 1] = x /\ s.parts[c.binding + 1].axis + 1 = Len(d)
        /\ Elements(t) # 0
        /\ BlockSpan(t.type, c.expert * n, n).leading = 0
        /\ BlockSpan(t.type, c.expert * n, n).trailing = 0
    BY <1>1, ExpertGranted
  <1>3. d \in Seq(Nat) /\ Len(d) = 3 /\ d[3] = x /\ x \in Nat \ {0}
    <2>1. d \in Seq(Nat) /\ Len(d) \in 1..8
      BY DEF TensorIs, MaxDimensions
    <2>2. s.parts[c.binding + 1].axis = 2
      <3> DEFINE l == Len(d)
                 y == s.parts[c.binding + 1].axis
      <3>1. l \in 1..8 /\ y \in {2, 8} /\ y + 1 = l
        BY <1>2, <2>1 DEF NoAxis
      <3> HIDE DEF l, y
      <3>2. y = 2
        BY <3>1
      <3> QED
        BY <3>2 DEF y
    <2> QED
      BY <1>2, <2>1, <2>2, RegistryAssumption
  <1>4. {d[1], d[2], d[3]} \subseteq Nat
    BY <1>3
  <1>5. Product(d, 2) = Fit(d[1] * d[2]) /\ Product(d, 3) = Fit(d[1] * d[2] * d[3])
    <2> HIDE DEF d
    <2>1. Len(d) >= 1 /\ Len(d) >= 2 /\ Len(d) >= 3
      BY <1>3
    <2> QED
      BY <1>3, <2>1, ShortProducts
  <1>6. n = Product(d, 2) /\ Elements(t) = Product(d, 3)
    BY <1>3 DEF ExpertElements, Elements
  <1>7. n = d[1] * d[2] /\ n \in Nat /\ x * n = Elements(t)
    <2> DEFINE y == d[1] * d[2]
    <2>1. y \in Nat
      BY <1>4
    <2> HIDE DEF y
    <2>2. Fit(y * x) # 0
      BY <1>2, <1>3, <1>5, <1>6 DEF y
    <2>3. y * x \in Nat /\ y <= y * x
      <3> HIDE DEF x
      <3>1. x \in Nat \ {0}
        BY <1>3
      <3>2. y * 1 <= y * x /\ y * 1 = y /\ y * x \in Nat
        BY ONLY <2>1, <3>1
      <3> QED
        BY <3>2
    <2>4. Fit(y * x) = y * x /\ Fit(y) = y
      BY <2>1, <2>2, <2>3, GgufAssumption DEF Fit
    <2>5. y * x = x * y
      BY <1>3, <2>1
    <2> QED
      BY <1>3, <1>5, <1>6, <2>1, <2>4, <2>5 DEF y
  <1>8. low \in Seq(Nat) /\ Len(low) = 2 /\ low[1] = d[1] /\ low[2] = d[2]
    BY <1>3
  <1>9. Product(Reversed(low), Len(Reversed(low))) = n
    <2> HIDE DEF low
    <2>1. Product(low, 2) = Fit(low[1] * low[2])
      BY <1>8, ShortProducts
    <2>2. Product(Reversed(low), Len(Reversed(low))) = Product(low, 2)
      <3>1. Len(low) \in 1..4
        BY <1>8
      <3>2. Product(Reversed(low), Len(Reversed(low))) = Product(low, Len(low))
        BY ONLY <1>8, <3>1, ReversedProduct
      <3> QED
        BY ONLY <1>8, <3>2
    <2> QED
      BY <1>5, <1>6, <1>8, <2>1, <2>2
  <1>10. /\ MemberSize(c.kind, t) = n /\ Member(s, c) = c.expert
         /\ ElementRange(s, c) = <<c.expert * n, n>>
    BY <1>1 DEF MemberSize, Member, ElementRange
  <1>11. v.kind = "EXPERT" /\ v.tensor = i /\ v.member = c.expert
         /\ v.shape = LogicalShape(s, c)
    BY <1>10 DEF View
  <1>12. v.shape = Reversed(low)
    <2>1. LogicalShape(s, c) = Reversed(SubSeq(d, 1, Len(d) - 1))
      BY <1>1 DEF LogicalShape
    <2> QED
      BY <1>3, <1>11, <2>1
  <1> HIDE DEF n
  <1>13. \E first, last : ShowsBlocks(v, first, last)
    <2> HIDE DEF v
    <2> QED
      BY <1>2, <1>7, <1>10, WindowShows DEF v
  <1> HIDE DEF v, low
  <1>14. Divisions("EXPERT") = x
    BY DEF Divisions
  <1>15. v.member < Divisions("EXPERT") /\ Divisions("EXPERT") * n = Elements(t)
    BY <1>2, <1>7, <1>11, <1>14
  <1>16. Shown(v)
    BY ONLY <1>9, <1>10, <1>11, <1>12, <1>13, <1>15, ShownIntro, i \in Tensors,
            c.kind = "EXPERT"
  <1> QED
    BY <1>16 DEF v

\* One member of the table is shown by its rows (kq_tensor_view_open_ple_member).
LEMMA PleShown ==
    ASSUME NEW s, NEW c, c.kind = "PLE", c.binding = 0,
           FirstRefusal(PleChecks(s, c)) = "OK", s.parts[1].fused \in Nat,
           NEW i \in Tensors, i = Place(s.parts[c.binding + 1]), NEW q, TensorIs(i, q)
    PROVE  Shown(View(s, c))
  <1> DEFINE t == Tensor(i)
             d == t.dimensions
             n == MemberElements(t)
             x == Dim.ple_members
             f == s.parts[1].fused
             v == View(s, c)
             z == d[2] \div x
  <1>1. Physical(s, 0) = t /\ Physical(s, c.binding) = t
    BY DEF Physical
  <1>2. /\ f < x /\ Len(d) = 2 /\ d[2] % x = 0 /\ s.canonical = <<z, d[1]>>
        /\ Elements(t) # 0
        /\ BlockSpan(t.type, f * n, n).leading = 0
        /\ BlockSpan(t.type, f * n, n).trailing = 0
    BY <1>1, PleGranted
  <1>3. d \in Seq(Nat) /\ x \in Nat \ {0} /\ d[1] \in Nat /\ d[2] \in Nat
    BY <1>2, RegistryAssumption, SMTT(30) DEF TensorIs
  <1>4. z \in Nat /\ d[2] = x * z
    <2> DEFINE y == d[2]
    <2>1. y \in Nat /\ y % x = 0
      BY <1>2, <1>3
    <2> HIDE DEF y
    <2>2. y \div x \in Nat /\ y = x * (y \div x)
      BY <1>3, <2>1, SMTT(30)
    <2> QED
      BY <2>2 DEF y
  <1> HIDE DEF z
  <1>5. Elements(t) = d[1] * d[2] /\ d[1] * d[2] <= MaxWord
    <2>1. Elements(t) = Fit(d[1] * d[2])
      BY <1>2, <1>3, ShortProducts DEF Elements
    <2> QED
      BY <1>2, <2>1 DEF Fit
  <1>6. n = z * d[1] /\ n \in Nat /\ x * n = Elements(t) /\ n <= MaxWord
    <2> DEFINE y == z * d[1]
               w == d[1]
    <2>1. y \in Nat /\ w \in Nat
      BY <1>3, <1>4
    <2>2. w * (x * z) = x * (z * w)
      <3>1. \A a, b, g \in Nat : g * (a * b) = a * (b * g)
        OBVIOUS
      <3> HIDE DEF w, x
      <3>2. x \in Nat
        BY <1>3
      <3> QED
        BY ONLY <1>4, <2>1, <3>1, <3>2
    <2>3. Elements(t) = x * y
      BY <1>4, <1>5, <2>2
    <2> HIDE DEF y
    <2>4. (x * y) \div x = y /\ y <= x * y /\ x * y \in Nat
      <3> HIDE DEF x
      <3>1. 1 * y <= x * y
        BY <1>3, <2>1
      <3> QED
        BY <1>3, <2>1, <3>1
    <2>5. n = y
      BY <2>3, <2>4 DEF MemberElements
    <2>6. x * y <= MaxWord
      BY <1>5, <2>3
    <2> QED
      BY <2>1, <2>3, <2>4, <2>5, <2>6, GgufAssumption DEF y
  <1>7. Product(s.canonical, Len(s.canonical)) = n
    <2> DEFINE r == s.canonical
    <2>1. r \in Seq(Nat) /\ Len(r) = 2 /\ r[1] = z /\ r[2] = d[1]
      BY <1>2, <1>3, <1>4
    <2> HIDE DEF r
    <2>2. Product(r, 2) = Fit(r[1] * r[2])
      BY <2>1, ShortProducts
    <2>3. Fit(z * d[1]) = n
      BY <1>6 DEF Fit
    <2> QED
      BY <2>1, <2>2, <2>3 DEF r
  <1>8. /\ MemberSize(c.kind, t) = n /\ Member(s, c) = f /\ ElementRange(s, c) = <<f * n, n>>
    BY <1>1 DEF MemberSize, Member, ElementRange
  <1>9. v.kind = "PLE" /\ v.tensor = i /\ v.member = f /\ v.shape = s.canonical
    BY <1>8 DEF View, LogicalShape
  <1> HIDE DEF n
  <1>10. \E first, last : ShowsBlocks(v, first, last)
    <2> HIDE DEF v
    <2> QED
      BY <1>2, <1>6, <1>8, WindowShows DEF v
  <1> HIDE DEF v
  <1>11. Divisions("PLE") = x
    BY DEF Divisions
  <1>12. v.member < Divisions("PLE") /\ Divisions("PLE") * n = Elements(t)
    BY <1>2, <1>6, <1>9, <1>11
  <1>13. Shown(v)
    BY ONLY <1>7, <1>8, <1>9, <1>10, <1>12, ShownIntro, i \in Tensors, c.kind = "PLE"
  <1> QED
    BY <1>13 DEF v

\* What a call opens shows what it should.
LEMMA OpenedShown ==
    ASSUME FileInvariant, Explained, stage = "model", NEW c \in Call,
           ViewRefusal(Registry[c.semantic], c) = "OK"
    PROVE  Shown(View(Registry[c.semantic], c))
  <1> DEFINE k == c.semantic
             s == Registry[k]
             p == c.binding + 1
             i == Place(s.parts[p])
  <1>1. /\ k \in 1..Len(Registry) /\ c.binding \in Nat /\ c.expert \in Nat
        /\ c.kind \in {"BINDING", "EXPERT", "PLE"} /\ (c.kind = "PLE" => c.binding = 0)
    BY CallAssumption
  <1>2. CallGranted(s, c)
    BY <1>1, ViewGranted
  <1>3. p \in 1..Len(s.parts) /\ s.parts[p].axis \in {2, NoAxis}
    <2>1. Len(s.parts) \in 0..2
      BY <1>1, RowFacts
    <2>2. p \in 1..Len(s.parts)
      BY <1>1, <1>2, <2>1 DEF CallGranted
    <2> QED
      BY <1>1, <2>2, RowFacts
  <1>4. i \in Tensors
    BY <1>1, <1>3, PartPlaced
  <1>5. PICK q : TensorIs(i, q)
    BY <1>4, TensorFacts DEF Opened
  <1>6. CASE c.kind = "BINDING"
    BY <1>2, <1>4, <1>5, <1>6, BindingShown DEF CallGranted
  <1>7. CASE c.kind = "EXPERT"
    BY <1>1, <1>2, <1>3, <1>4, <1>5, <1>7, ExpertShown DEF CallGranted
  <1>8. CASE c.kind = "PLE"
    <2>1. FirstRefusal(PleChecks(s, c)) = "OK" /\ c.binding = 0 /\ p = 1
      BY <1>1, <1>2, <1>8 DEF CallGranted
    <2>2. s.parts[1].role = "FUSED_MEMBER"
      BY <2>1, PleGranted
    <2>3. s.parts[1].fused \in Nat
      BY <1>1, <1>3, <2>1, <2>2, MemberNumber
    <2> QED
      BY <1>4, <1>5, <1>8, <2>1, <2>3, PleShown
  <1> QED
    BY <1>1, <1>6, <1>7, <1>8

\* Two multiples of a block in the order of their blocks.
LEMMA BlocksInOrder ==
    ASSUME NEW e \in Nat \ {0}, NEW x \in Nat, NEW y \in Nat, x * e <= y * e
    PROVE  x <= y
  <1>1. CASE y < x
    <2>1. y + 1 <= x
      BY <1>1
    <2>2. (y + 1) * e <= x * e
      BY <2>1
    <2>3. (y + 1) * e = y * e + e
      OBVIOUS
    <2>4. x * e \in Nat /\ y * e \in Nat
      OBVIOUS
    <2> QED
      BY <2>2, <2>3, <2>4
  <1> QED
    BY <1>1

\* What the blocks of a view hold, and where they lie in its tensor.
LEMMA ShownElements ==
    ASSUME FileInvariant, stage \in Opened, NEW v, Shown(v)
    PROVE  LET t     == Tensor(v.tensor)
               start == DataOffset(v.tensor)
               end   == start + Packed(t)
           IN  /\ v.length * TypeInfo[t.type].elements
                    = Product(v.shape, Len(v.shape)) * TypeInfo[t.type].bytes
               /\ {start, end, v.data, v.length} \subseteq Nat
               /\ start <= v.data /\ v.data + v.length <= end
               /\ v.member = 0 => v.data = start
               /\ v.member = Divisions(v.kind) - 1 => v.data + v.length = end
  <1> DEFINE i == v.tensor
             t == Tensor(i)
             e == TypeInfo[t.type].elements
             b == TypeInfo[t.type].bytes
             n == MemberSize(v.kind, t)
             z == Divisions(v.kind)
             m == v.member
             start == DataOffset(i)
             size  == Product(v.shape, Len(v.shape))
  <1>1. i \in Tensors /\ m < z /\ size = n /\ z * n = Elements(t)
        /\ v.kind \in {"BINDING", "EXPERT", "PLE"}
    BY DEF Shown
  <1>2. PICK q : TensorIs(i, q)
    BY <1>1, TensorFacts
  <1>3. PICK first, last : ShowsBlocks(v, first, last)
    BY DEF Shown
  <1>4. /\ e \in Nat \ {0} /\ b \in Nat \ {0} /\ q \in Nat /\ start \in Nat
        /\ Elements(t) = e * q /\ Packed(t) = q * b
    BY <1>2, PackedType DEF TensorIs
  <1>5. z \in Nat \ {0}
    BY <1>1, RegistryAssumption DEF Divisions
  <1>6. /\ first \in Nat /\ last \in Nat /\ m \in Nat /\ n \in Nat
        /\ first * e = m * n /\ last * e = m * n + n
        /\ v.data = start + first * b /\ v.length = (last - first) * b
    BY <1>3 DEF ShowsBlocks
  <1>7. Elements(t) = z * n
    BY <1>1
  <1> HIDE DEF t, e, b, n, z, m, start, size
  <1>8. m * n \in Nat /\ m * n + n <= z * n /\ (m = z - 1 => m * n + n = z * n)
    <2>1. m * n \in Nat
      BY <1>6
    <2>2. m + 1 <= z
      BY <1>1, <1>5, <1>6
    <2>3. (m + 1) * n <= z * n
      BY <1>5, <1>6, <2>2
    <2>4. (m + 1) * n = m * n + n
      BY <1>6
    <2>5. m = z - 1 => m + 1 = z
      BY <1>5, <1>6
    <2> QED
      BY <2>1, <2>3, <2>4, <2>5
  <1>9. first <= last
    <2>1. first * e <= last * e
      BY <1>6, <1>8
    <2> QED
      BY <1>4, <1>6, <2>1, BlocksInOrder
  <1>10. last <= q /\ (m = z - 1 => last = q)
    <2>1. q * e = z * n
      BY <1>4, <1>7
    <2>2. last * e <= q * e
      BY <1>6, <1>8, <2>1
    <2>3. m = z - 1 => q * e <= last * e
      <3>1. m = z - 1 => q * e = last * e
        BY <1>6, <1>8, <2>1
      <3>2. q * e <= q * e
        BY <1>4
      <3> QED
        BY <3>1, <3>2
    <2>4. last <= q
      BY <1>4, <1>6, <2>2, BlocksInOrder
    <2>5. m = z - 1 => q <= last
      BY <1>4, <1>6, <2>3, BlocksInOrder
    <2> QED
      BY <1>4, <1>6, <2>4, <2>5
  <1>11. m = 0 => first = 0
    <2>1. m = 0 => first * e <= 0 * e
      <3>1. 0 * n = 0 /\ 0 * e = 0
        BY <1>4, <1>6
      <3> QED
        BY <1>6, <3>1
    <2>2. m = 0 => first <= 0
      BY <1>4, <1>6, <2>1, BlocksInOrder
    <2> QED
      BY <1>6, <2>2
  <1>12. v.length * e = size * b
    <2>1. (last - first) * e = n
      <3>1. (last - first) * e = last * e - first * e
        BY <1>4, <1>6
      <3> QED
        BY <1>6, <1>8, <3>1
    <2>2. \A x \in Int, y, w \in Nat : (x * y) * w = (x * w) * y
      OBVIOUS
    <2>3. last - first \in Int
      BY <1>6
    <2>4. ((last - first) * b) * e = ((last - first) * e) * b
      BY <1>4, <2>2, <2>3
    <2> QED
      BY <1>1, <1>6, <2>1, <2>4 DEF size, n
  <1>13. first * b \in Nat /\ last * b \in Nat /\ first * b <= last * b
         /\ (last - first) * b = last * b - first * b
    BY <1>4, <1>6, <1>9
  <1>14. last * b <= q * b /\ q * b \in Nat
    BY <1>4, <1>6, <1>10
  <1>15. v.data \in Nat /\ v.length \in Nat /\ v.data + v.length = start + last * b
    BY <1>4, <1>6, <1>13
  <1>16. start + Packed(t) \in Nat /\ start <= v.data
         /\ v.data + v.length <= start + Packed(t)
    BY <1>4, <1>6, <1>13, <1>14, <1>15
  <1>17. m = 0 => v.data = start
    <2>1. 0 * b = 0
      BY <1>4
    <2> QED
      BY <1>4, <1>6, <1>11, <2>1
  <1>18. m = z - 1 => v.data + v.length = start + Packed(t)
    BY <1>4, <1>10, <1>15
  <1> QED
    BY <1>4, <1>12, <1>15, <1>16, <1>17, <1>18 DEF t, e, b, m, z, start, size

\* Views of two members of one tensor have no block in common.
LEMMA MembersApart ==
    ASSUME FileInvariant, stage \in Opened, NEW v, Shown(v), NEW w, Shown(w),
           w.tensor = v.tensor, w.kind = v.kind, v.member < w.member
    PROVE  v.data + v.length <= w.data
  <1> DEFINE i == v.tensor
             t == Tensor(i)
             e == TypeInfo[t.type].elements
             b == TypeInfo[t.type].bytes
             n == MemberSize(v.kind, t)
             start == DataOffset(i)
             m == v.member
             k == w.member
  <1>1. PICK q : TensorIs(i, q)
    BY TensorFacts DEF Shown
  <1>2. PICK first, last : ShowsBlocks(v, first, last)
    BY DEF Shown
  <1>3. PICK low, high : ShowsBlocks(w, low, high)
    BY DEF Shown
  <1>4. e \in Nat \ {0} /\ b \in Nat \ {0} /\ start \in Nat
    BY <1>1, PackedType DEF TensorIs
  <1>5. /\ first \in Nat /\ last \in Nat /\ m \in Nat /\ n \in Nat
        /\ last * e = m * n + n
        /\ v.data = start + first * b /\ v.length = (last - first) * b
    BY <1>2 DEF ShowsBlocks
  <1>6. low \in Nat /\ k \in Nat /\ low * e = k * n /\ w.data = start + low * b /\ m < k
    BY <1>3 DEF ShowsBlocks
  <1> HIDE DEF t, e, b, n, start, m, k
  <1>7. m * n + n <= k * n
    <2>1. m + 1 <= k
      BY <1>5, <1>6
    <2>2. (m + 1) * n <= k * n
      BY <1>5, <1>6, <2>1
    <2>3. (m + 1) * n = m * n + n
      BY <1>5
    <2> QED
      BY <2>2, <2>3
  <1>8. last <= low
    <2>1. last * e <= low * e
      BY <1>5, <1>6, <1>7
    <2> QED
      BY <1>4, <1>5, <1>6, <2>1, BlocksInOrder
  <1>9. first * b \in Nat /\ last * b \in Nat /\ low * b \in Nat /\ last * b <= low * b
        /\ (last - first) * b = last * b - first * b
    BY <1>4, <1>5, <1>6, <1>8
  <1> QED
    BY <1>4, <1>5, <1>6, <1>9

\* Nor do views of two tensors.
LEMMA TensorsApart ==
    ASSUME FileInvariant, stage \in Opened, NEW v, Shown(v), NEW w, Shown(w),
           w.tensor # v.tensor
    PROVE  v.data + v.length <= w.data \/ w.data + w.length <= v.data
  <1> DEFINE i == v.tensor
             j == w.tensor
  <1>1. i \in Tensors /\ j \in Tensors \ {i}
    BY DEF Shown
  <1>2. End(i) <= Offset(j) \/ End(j) <= Offset(i)
    BY <1>1 DEF FileInvariant, SpansKept
  <1>3. /\ {DataOffset(i), DataOffset(i) + Packed(Tensor(i)), v.data, v.length} \subseteq Nat
        /\ DataOffset(i) <= v.data /\ v.data + v.length <= DataOffset(i) + Packed(Tensor(i))
    BY ShownElements
  <1>4. /\ {DataOffset(j), DataOffset(j) + Packed(Tensor(j)), w.data, w.length} \subseteq Nat
        /\ DataOffset(j) <= w.data /\ w.data + w.length <= DataOffset(j) + Packed(Tensor(j))
    BY ShownElements
  <1>5. PICK q, r : TensorIs(i, q) /\ TensorIs(j, r)
    BY <1>1, TensorFacts
  <1>6. Packed(Tensor(i)) \in Nat /\ Packed(Tensor(j)) \in Nat
    <2>1. Packed(Tensor(i)) \in Nat
      BY <1>5, PackedType DEF TensorIs
    <2>2. Packed(Tensor(j)) \in Nat
      BY <1>5, PackedType DEF TensorIs
    <2> QED
      BY <2>1, <2>2
  <1>7. gguf.data_section \in Nat
    BY DEF FileInvariant, Located, Directory, Opened
  <1>8. Offset(i) \in Nat /\ Offset(j) \in Nat
    <2>1. {i, j} \subseteq DOMAIN file.tensors
      BY <1>1, ImageFacts DEF FileInvariant, Typed, Counted, Directory, Tensors
    <2> QED
      BY <2>1, ImageFacts DEF FileInvariant, Offset, Tensor
  <1> DEFINE a == Offset(i)
             b == Offset(j)
             p == Packed(Tensor(i))
             s == Packed(Tensor(j))
             g == gguf.data_section
  <1>9. /\ a + p <= b \/ b + s <= a
        /\ DataOffset(i) = g + a /\ DataOffset(j) = g + b
    BY <1>2 DEF End, DataOffset
  <1> HIDE DEF a, b, p, s, g, i, j
  <1>10. {a, b, p, s, g} \subseteq Nat
    BY <1>6, <1>7, <1>8 DEF a, b, p, s, g
  <1>11. v.data + v.length <= (g + a) + p /\ w.data + w.length <= (g + b) + s
         /\ g + a <= v.data /\ g + b <= w.data
    BY <1>3, <1>4, <1>9 DEF p, s
  <1>12. {v.data, v.length, w.data, w.length} \subseteq Nat
    BY <1>3, <1>4
  <1> QED
    BY <1>9, <1>10, <1>11, <1>12
-----------------------------------------------------------------------------
\* What is open shows what it should, and views are open only over a model.
ViewsKept ==
    /\ stage # "model" => NoViews
    /\ \A h \in Open : h \in Handle /\ Shown(views[h])
    /\ views = [h \in Handle |-> views[h]]

\* So the views have what is asked of them.
LEMMA KeptShowElements == ASSUME FileInvariant, ViewsKept PROVE ViewsShowTheirElements
  <1>1. CASE stage # "model"
    <2>1. Open = {}
      BY <1>1 DEF ViewsKept, NoViews, Open
    <2> QED
      BY <2>1 DEF ViewsShowTheirElements
  <1>2. CASE stage = "model"
    <2>1. stage \in Opened
      BY <1>2 DEF Opened
    <2>2. ASSUME NEW h \in Open, NEW g \in Open,
                 \/ views[g].tensor # views[h].tensor
                 \/ views[g].kind = views[h].kind /\ views[g].member # views[h].member
          PROVE  \/ views[h].data + views[h].length <= views[g].data
                 \/ views[g].data + views[g].length <= views[h].data
      <3> DEFINE v == views[h]
                 w == views[g]
      <3>1. Shown(v) /\ Shown(w)
        BY DEF ViewsKept
      <3>2. CASE w.tensor # v.tensor
        BY <2>1, <3>1, <3>2, TensorsApart
      <3>3. CASE w.tensor = v.tensor
        <4>1. v.member \in Nat /\ w.member \in Nat
          BY <3>1 DEF Shown, ShowsBlocks
        <4>2. w.kind = v.kind /\ (v.member < w.member \/ w.member < v.member)
          BY <2>2, <3>3, <4>1
        <4>3. v.member < w.member => v.data + v.length <= w.data
          BY <2>1, <3>1, <3>3, <4>2, MembersApart
        <4>4. w.member < v.member => w.data + w.length <= v.data
          BY <2>1, <3>1, <3>3, <4>2, MembersApart
        <4> QED
          BY <4>2, <4>3, <4>4
      <3> QED
        BY <3>2, <3>3
    <2>3. ASSUME NEW h \in Open
          PROVE  LET v     == views[h]
                     t     == Tensor(v.tensor)
                     start == DataOffset(v.tensor)
                     end   == start + Packed(t)
                 IN  /\ v.length * TypeInfo[t.type].elements
                          = Product(v.shape, Len(v.shape)) * TypeInfo[t.type].bytes
                     /\ start <= v.data /\ v.data + v.length <= end
                     /\ v.member = 0 => v.data = start
                     /\ v.member = Divisions(v.kind) - 1 => v.data + v.length = end
      <3>1. Shown(views[h])
        BY DEF ViewsKept
      <3> QED
        BY <2>1, <3>1, ShownElements
    <2> QED
      BY <2>2, <2>3, Zenon DEF ViewsShowTheirElements
  <1> QED
    BY <1>1, <1>2

\* Nothing open shows nothing.
LEMMA NothingKept == NoViews => ViewsKept
  <1>1. NoViews => Open = {} /\ views = [h \in Handle |-> views[h]]
    BY DEF NoViews, Open
  <1> QED
    BY <1>1 DEF ViewsKept

\* The same of the state after a step.
LEMMA NothingKeptNext == NoViews' => ViewsKept'
  BY NothingKept, PTL

\* What a view shows stays so for as long as the file is as it is.
LEMMA ShownStays ==
    ASSUME NEW v, Shown(v), UNCHANGED <<file, parsed, gguf>>, NEW h, views'[h] = v
    PROVE  Shown(views[h])'
  <1>1. \A i : Tensor(i)' = Tensor(i) /\ DataOffset(i)' = DataOffset(i)
    BY DEF Tensor, DataOffset, Offset
  <1>2. Tensors' = Tensors
    BY DEF Tensors
  <1> QED
    BY <1>1, <1>2, Zenon DEF Shown, ShowsBlocks

\* Nothing but a call on a view changes what is open.
LEMMA ViewsStay ==
    ASSUME ViewsKept, UNCHANGED <<views, file, parsed, gguf>>,
           stage' = "model" \/ NoViews
    PROVE  ViewsKept'
  <1>1. Open' = Open
    BY DEF Open
  <1>2. ASSUME NEW h \in Open PROVE Shown(views[h])'
    <2> DEFINE v == views[h]
    <2>1. Shown(v)
      BY DEF ViewsKept
    <2>2. views'[h] = v
      OBVIOUS
    <2> HIDE DEF v
    <2> QED
      BY <2>1, <2>2, ShownStays
  <1>3. stage' # "model" => NoViews'
    BY DEF NoViews
  <1>4. \A h \in Open' : h \in Handle
    BY <1>1 DEF ViewsKept
  <1>5. \A h \in Open' : Shown(views[h])'
    BY <1>1, <1>2
  <1>6. views' = [h \in Handle |-> views'[h]]
    BY DEF ViewsKept
  <1> QED
    BY <1>3, <1>4, <1>5, <1>6 DEF ViewsKept

\* A step on one handle keeps what the others show.
LEMMA OthersStay ==
    ASSUME ViewsKept, stage = "model", UNCHANGED <<stage, file, parsed, gguf>>,
           NEW h \in Handle, NEW v, views' = [views EXCEPT ![h] = v],
           v = NoView \/ Shown(v)
    PROVE  ViewsKept'
  <1>1. /\ views = [g \in Handle |-> views[g]]
        /\ \A g \in Open : Shown(views[g])
    BY DEF ViewsKept
  <1>2. /\ views' = [g \in Handle |-> views'[g]]
        /\ views'[h] = v /\ \A g \in Handle \ {h} : views'[g] = views[g]
    BY <1>1
  <1>3. ASSUME NEW g \in Open' PROVE g \in Handle /\ Shown(views[g])'
    <2>1. g \in Handle /\ views'[g] # NoView
      BY DEF Open
    <2>2. CASE g = h
      <3>1. Shown(v) /\ views'[g] = v
        BY <1>2, <2>1, <2>2
      <3> QED
        BY <2>1, <3>1, ShownStays
    <2>3. CASE g # h
      <3> DEFINE w == views[g]
      <3>1. views'[g] = w
        BY <1>2, <2>1, <2>3
      <3>2. Shown(w)
        BY <1>1, <2>1, <3>1 DEF Open
      <3> HIDE DEF w
      <3> QED
        BY <2>1, <3>1, <3>2, ShownStays
    <2> QED
      BY <2>2, <2>3
  <1> QED
    BY <1>2, <1>3 DEF ViewsKept

\* The calls on views.
LEMMA ViewStepKeeps ==
    ASSUME FileInvariant, Explained, ViewsKept, ViewStep
    PROVE  ViewsKept'
  <1>1. PICK h \in Handle : CloseView(h) \/ \E c \in Call : OpenView(h, Registry[c.semantic], c)
    BY DEF ViewStep, ViewNext
  <1>2. CASE CloseView(h)
    BY <1>2, OthersStay DEF CloseView, registryVars, ggufVars
  <1>3. ASSUME NEW c \in Call, OpenView(h, Registry[c.semantic], c) PROVE ViewsKept'
    <2> DEFINE s == Registry[c.semantic]
    <2>1. stage = "model" /\ UNCHANGED <<stage, file, parsed, gguf>>
      BY <1>3 DEF OpenView
    <2>2. CASE UNCHANGED views
      BY <2>1, <2>2, ViewsStay
    <2>3. CASE ViewRefusal(s, c) = "OK" /\ views' = [views EXCEPT ![h] = View(s, c)]
      <3>1. Shown(View(s, c))
        BY <2>1, <2>3, OpenedShown
      <3> QED
        BY <2>1, <2>3, <3>1, OthersStay
    <2> QED
      BY <1>3, <2>2, <2>3 DEF OpenView
  <1> QED
    BY <1>1, <1>2, <1>3

\* All others leave the views as they are, and the file under those that are open.
LEMMA ViewsNextInv ==
    ASSUME TextInvariant, Explained, ViewsKept, [TextNext]_textVars
    PROVE  ViewsKept'
  <1>1. CASE UNCHANGED textVars
    BY <1>1, ViewsStay DEF textVars, viewVars, registryVars, ggufVars, ViewsKept
  <1>2. CASE FileStep
    <2>1. stage # "model" /\ UNCHANGED views
      BY <1>2 DEF FileStep, GgufNext, FileNext, ContainerNext, CreateFile, GetSize,
         CreateMapping, AllocateFile, ReadGranularity, AllocateGguf, MapDirectory,
         ReadHeader, AllocateTables, ReadMetadata, EndMetadata, ReadTensor,
         LocateData, AllocateOrder, ValidateSpans, CloseContainer, CloseFile
    <2>2. NoViews /\ NoViews'
      BY <2>1 DEF ViewsKept, NoViews
    <2> QED
      BY <2>2, NothingKeptNext
  <1>3. CASE RegistryStep
    <2>1. NoViews /\ UNCHANGED views
      BY <1>3 DEF RegistryStep, RegistryNext, AllocateModel, AllocateEntries,
         CheckEntries, ValidateIdentity, Register, CompleteRegistry, ViewsKept
    <2>2. NoViews'
      BY <2>1 DEF NoViews
    <2> QED
      BY <2>2, NothingKeptNext
  <1>4. CASE ViewStep
    BY <1>4, ViewStepKeeps DEF TextInvariant
  <1>5. CASE TokenizerStep
    <2>1. Still /\ stage' = "model"
      BY <1>5, TokenizerMoves DEF TextInvariant
    <2> QED
      BY <1>5, <2>1, ViewsStay DEF TokenizerStep, Still
  <1>6. CASE SamplingStep
    BY <1>6, ViewsStay DEF SamplingStep, viewVars, registryVars, ggufVars
  <1> QED
    BY <1>1, <1>2, <1>3, <1>4, <1>5, <1>6 DEF TextNext, Ended

\* An open view has exactly the blocks of its elements, inside its tensor, the
\* members of a tensor take it up from end to end, and no byte is in the views
\* of two: for every file, topology and call (kq_tensor_view.c:387-497).
THEOREM ViewsDoShowTheirElements == TextSpec => []ViewsShowTheirElements
  <1>1. TextInit => ViewsKept
    BY NothingKept DEF TextInit, ViewInit, NoViews
  <1>2. TextInvariant /\ Explained /\ ViewsKept /\ [TextNext]_textVars => ViewsKept'
    BY ViewsNextInv
  <1>3. TextInvariant /\ ViewsKept => ViewsShowTheirElements
    BY KeptShowElements DEF TextInvariant
  <1> QED
    BY <1>1, <1>2, <1>3, TextInvariantHolds, ExplainedHolds, PTL DEF TextSpec
-----------------------------------------------------------------------------
(* Views of what is registered.                                            *)

\* Checks that all hold refuse nothing,
LEMMA AllHold ==
    ASSUME NEW checks, \A c \in DOMAIN checks : checks[c][1] = TRUE
    PROVE  FirstRefusal(checks) = "OK"
  <1> DEFINE failed == {c \in DOMAIN checks : ~checks[c][1]}
  <1>1. failed = {}
    OBVIOUS
  <1> QED
    BY <1>1 DEF FirstRefusal

\* whether there is one of them,
LEMMA OneHolds ==
    ASSUME NEW ra
    PROVE  FirstRefusal(<< <<TRUE, ra>> >>) = "OK"
  <1> DEFINE ca == <<TRUE, ra>>
  <1>1. ca[1] = TRUE
    OBVIOUS
  <1> HIDE DEF ca
  <1> DEFINE checks == <<ca>>
  <1>2. /\ DOMAIN checks = 1..1
        /\ checks[1] = ca
    OBVIOUS
  <1> HIDE DEF checks
  <1>3. \A c \in DOMAIN checks : checks[c][1] = TRUE
    BY <1>1, <1>2
  <1>4. FirstRefusal(checks) = "OK"
    BY <1>3, AllHold
  <1> QED
    BY <1>4 DEF checks, ca

\* two,
LEMMA TwoHold ==
    ASSUME NEW ra, NEW rb
    PROVE  FirstRefusal(<< <<TRUE, ra>>, <<TRUE, rb>> >>) = "OK"
  <1> DEFINE ca == <<TRUE, ra>>
             cb == <<TRUE, rb>>
  <1>1. ca[1] = TRUE /\ cb[1] = TRUE
    OBVIOUS
  <1> HIDE DEF ca, cb
  <1> DEFINE checks == <<ca, cb>>
  <1>2. /\ DOMAIN checks = 1..2
        /\ checks[1] = ca /\ checks[2] = cb
    OBVIOUS
  <1> HIDE DEF checks
  <1>3. \A c \in DOMAIN checks : checks[c][1] = TRUE
    BY <1>1, <1>2
  <1>4. FirstRefusal(checks) = "OK"
    BY <1>3, AllHold
  <1> QED
    BY <1>4 DEF checks, ca, cb

\* three
LEMMA ThreeHold ==
    ASSUME NEW ra, NEW rb, NEW rd
    PROVE  FirstRefusal(<< <<TRUE, ra>>, <<TRUE, rb>>, <<TRUE, rd>> >>) = "OK"
  <1> DEFINE ca == <<TRUE, ra>>
             cb == <<TRUE, rb>>
             cd == <<TRUE, rd>>
  <1>1. ca[1] = TRUE /\ cb[1] = TRUE /\ cd[1] = TRUE
    OBVIOUS
  <1> HIDE DEF ca, cb, cd
  <1> DEFINE checks == <<ca, cb, cd>>
  <1>2. /\ DOMAIN checks = 1..3
        /\ checks[1] = ca /\ checks[2] = cb /\ checks[3] = cd
    OBVIOUS
  <1> HIDE DEF checks
  <1>3. \A c \in DOMAIN checks : checks[c][1] = TRUE
    BY <1>1, <1>2
  <1>4. FirstRefusal(checks) = "OK"
    BY <1>3, AllHold
  <1> QED
    BY <1>4 DEF checks, ca, cb, cd

\* or four.
LEMMA FourHold ==
    ASSUME NEW ra, NEW rb, NEW rd, NEW re
    PROVE  FirstRefusal(<< <<TRUE, ra>>, <<TRUE, rb>>, <<TRUE, rd>>, <<TRUE, re>> >>) = "OK"
  <1> DEFINE ca == <<TRUE, ra>>
             cb == <<TRUE, rb>>
             cd == <<TRUE, rd>>
             ce == <<TRUE, re>>
  <1>1. ca[1] = TRUE /\ cb[1] = TRUE /\ cd[1] = TRUE /\ ce[1] = TRUE
    OBVIOUS
  <1> HIDE DEF ca, cb, cd, ce
  <1> DEFINE checks == <<ca, cb, cd, ce>>
  <1>2. /\ DOMAIN checks = 1..4
        /\ checks[1] = ca /\ checks[2] = cb /\ checks[3] = cd /\ checks[4] = ce
    OBVIOUS
  <1> HIDE DEF checks
  <1>3. \A c \in DOMAIN checks : checks[c][1] = TRUE
    BY <1>1, <1>2
  <1>4. FirstRefusal(checks) = "OK"
    BY <1>3, AllHold
  <1> QED
    BY <1>4 DEF checks, ca, cb, cd, ce

\* When nothing is refused the checks hold.
LEMMA AllTrue ==
    ASSUME NEW checks \in Seq(CheckType), FirstRefusal(checks) = "OK"
    PROVE  \A k \in 1..Len(checks) : checks[k][1] = TRUE
  <1>1. \A k \in 1..Len(checks) : checks[k][1]
    BY NoRefusal
  <1>2. \A k \in 1..Len(checks) : checks[k][1] \in BOOLEAN
    <2>1. \A k \in 1..Len(checks) : checks[k] \in CheckType
      OBVIOUS
    <2>2. \A check \in CheckType : check[1] \in BOOLEAN
      BY DEF CheckType
    <2> QED
      BY <2>1, <2>2
  <1> QED
    BY <1>1, <1>2, Zenon

\* Two lists of checks that refuse nothing make one.
LEMMA CatPasses ==
    ASSUME NEW first \in Seq(CheckType), NEW second \in Seq(CheckType),
           FirstRefusal(first) = "OK", FirstRefusal(second) = "OK"
    PROVE  first \o second \in Seq(CheckType) /\ FirstRefusal(first \o second) = "OK"
  <1> DEFINE checks == first \o second
  <1>1. /\ checks \in Seq(CheckType) /\ Len(checks) = Len(first) + Len(second)
        /\ \A k \in 1..Len(first) + Len(second) :
             checks[k] = IF k <= Len(first) THEN first[k] ELSE second[k - Len(first)]
    BY CatElements
  <1>2. /\ \A c \in 1..Len(first) : first[c][1] = TRUE
        /\ \A c \in 1..Len(second) : second[c][1] = TRUE
    BY AllTrue
  <1>3. Len(first) \in Nat /\ Len(second) \in Nat
    OBVIOUS
  <1> HIDE DEF checks
  <1>4. DOMAIN checks = 1..Len(first) + Len(second)
    BY <1>1
  <1>5. ASSUME NEW c \in DOMAIN checks PROVE checks[c][1] = TRUE
    <2>1. CASE c <= Len(first)
      BY <1>1, <1>2, <1>3, <1>4, <2>1
    <2>2. CASE ~(c <= Len(first))
      <3>1. c - Len(first) \in 1..Len(second)
        BY <1>3, <1>4, <2>2
      <3> QED
        BY <1>1, <1>2, <1>4, <2>2, <3>1
    <2> QED
      BY <2>1, <2>2
  <1>6. FirstRefusal(checks) = "OK"
    BY <1>5, AllHold
  <1> QED
    BY <1>1, <1>6 DEF checks

\* What any row says of its sizes.
LEMMA RowSized ==
    ASSUME NEW k \in 1..Len(Registry)
    PROVE  Sized(Registry[k]) \/ \E m \in 0..Dim.ple_members - 1 : Shard(Registry[k], m)
  <1>1. PICK n : TableIs(n)
    BY RegistryTable
  <1>2. n \in Nat /\ Dim.ple_members \in Nat
    BY <1>1, RegistryAssumption DEF TableIs
  <1>3. CASE Plain(Registry[k])
    BY <1>3 DEF Plain
  <1>4. CASE k \in n + 1..n + Dim.ple_members /\ Shard(Registry[k], k - n - 1)
    <2>1. k - n - 1 \in 0..Dim.ple_members - 1
      BY <1>2, <1>4
    <2> QED
      BY <1>4, <2>1
  <1> QED
    BY <1>1, <1>3, <1>4 DEF TableIs

\* The tensor of a part is what the table says, and whole blocks of its type.
Stored(part) ==
    /\ Place(part) \in Tensors
    /\ Tensor(Place(part)).name = part.name
    /\ Tensor(Place(part)).dimensions = part.dimensions
    /\ part.dimensions \in Seq(Nat)
    /\ Blocked(Tensor(Place(part)))

\* So it is for every part, once the table has been gone through.
LEMMA PartStored ==
    ASSUME FileInvariant, stage \in Opened, SoFar, model.registered = Len(Registry),
           NEW k \in 1..Len(Registry), NEW p \in 1..Len(Registry[k].parts)
    PROVE  Stored(Registry[k].parts[p])
  <1> DEFINE b == <<k, p>>
             part == Registry[k].parts[p]
             n == Len(Registry[k].parts)
  <1>1. n \in 0..2 /\ DOMAIN Registry[k].parts = 1..n
    BY RowFacts
  <1>2. b \in Bindings /\ Bound(b) = part
    <2>1. p \in 1..2
      <3>1. p \in 1..n
        OBVIOUS
      <3> HIDE DEF n
      <3> QED
        BY <1>1, <3>1
    <2> QED
      BY <1>1, <2>1 DEF Bindings, Bound, Registered
  <1>3. PICK i : Places(part.name) = {i} /\ Tensor(i).dimensions = part.dimensions
    BY <1>2 DEF SoFar
  <1>4. Place(part) = i /\ i \in Tensors /\ Tensor(i).name = part.name
    <2>1. Place(part) = i
      BY <1>3 DEF Place
    <2>2. i \in Places(part.name)
      BY <1>3
    <2> QED
      BY <2>1, <2>2 DEF Places, Tensors
  <1>5. Blocked(Tensor(i)) /\ Tensor(i).dimensions \in Seq(Nat)
    BY <1>4, TensorBlocked
  <1> QED
    BY <1>3, <1>4, <1>5 DEF Stored

\* Its elements are those of the part, and can be counted.
LEMMA StoredElements ==
    ASSUME NEW part, Stored(part)
    PROVE  Countable(part) /\ Elements(Tensor(Place(part))) = PartElements(part)
  BY DEF Stored, Blocked, Countable, PartElements, Elements

\* A split of the table is one for the view.
LEMMA SplitPasses ==
    ASSUME NEW s, Sized(s), \A p \in 1..Len(s.parts) : Stored(s.parts[p])
    PROVE  FirstRefusal(SplitChecks(s)) = "OK"
  <1>1. CASE s.relation # "SPLIT"
    <2>1. SplitChecks(s) = << >>
      BY <1>1 DEF SplitChecks
    <2>2. DOMAIN << >> = {}
      OBVIOUS
    <2> QED
      BY <2>1, <2>2, AllHold
  <1>2. CASE s.relation = "SPLIT"
    <2> DEFINE one == s.parts[1]
               two == s.parts[2]
               a == Len(s.parts) = 2 /\ Place(one) # Place(two)
               b == \/ one.role = "GATE" /\ two.role = "UP"
                    \/ one.role = "INDEX_QUERY" /\ two.role = "INDEX_KEY"
               d == CanonicalElements(s) # 0
               e == CanonicalElements(s)
                      = Elements(Physical(s, 0)) + Elements(Physical(s, 1))
    <2>1. SplitChecks(s)
            = << <<a, "SEMANTIC_MAPPING_FAILED">>, <<b, "SEMANTIC_MAPPING_FAILED">>,
                 <<d, "ARITHMETIC_OVERFLOW">>, <<e, "INVALID_QUANTIZED_GEOMETRY">> >>
      BY <1>2, Zenon DEF SplitChecks
    <2>2. SplitSized(s) /\ Len(s.parts) = 2
      BY <1>2 DEF Sized, SplitSized
    <2>3. Stored(one) /\ Stored(two)
      BY <2>2
    <2>4. a
      BY <2>2, <2>3 DEF SplitSized, Stored
    <2>5. b
      BY <2>2 DEF SplitSized
    <2>6. d /\ CanonicalElements(s) = PartElements(one) + PartElements(two)
      BY <2>2, <2>3, StoredElements DEF SplitSized
    <2>7. Physical(s, 0) = Tensor(Place(one)) /\ Physical(s, 1) = Tensor(Place(two))
      BY DEF Physical
    <2>8. e
      BY <2>3, <2>6, <2>7, StoredElements
    <2>9. a = TRUE /\ b = TRUE /\ d = TRUE /\ e = TRUE
      BY <2>4, <2>5, <2>6, <2>8
    <2> HIDE DEF a, b, d, e
    <2> QED
      BY <2>1, <2>9, FourHold
  <1> QED
    BY <1>1, <1>2

\* A tensor that is not half of a split holds the canonical elements.
LEMMA WholePasses ==
    ASSUME NEW s, Sized(s), s.relation # "METADATA_DERIVED",
           NEW b \in Nat, b < Len(s.parts), Stored(s.parts[b + 1])
    PROVE  FirstRefusal(WholeChecks(s, Physical(s, b))) = "OK"
  <1> DEFINE t == Physical(s, b)
             a == s.relation # "SPLIT" => CanonicalElements(s) = Elements(t)
  <1>1. WholeChecks(s, t) = << <<a, "INVALID_QUANTIZED_GEOMETRY">> >>
    BY Zenon DEF WholeChecks
  <1>2. ASSUME s.relation # "SPLIT" PROVE CanonicalElements(s) = Elements(t)
    <2>1. WholeSized(s)
      BY <1>2 DEF Sized
    <2>2. b = 0
      BY <2>1 DEF WholeSized
    <2>3. Stored(s.parts[1]) /\ t = Tensor(Place(s.parts[1]))
      BY <2>2 DEF Physical
    <2> QED
      BY <2>1, <2>3, StoredElements DEF WholeSized
  <1>3. a = TRUE
    BY <1>2
  <1> HIDE DEF a
  <1> QED
    BY <1>1, <1>3, OneHolds

\* The order asked for is there.
LEMMA OrderPasses ==
    ASSUME NEW s, NEW c, c.canonical => Contiguous(s)
    PROVE  FirstRefusal(OrderChecks(s, c)) = "OK"
  <1> DEFINE a == c.canonical => Contiguous(s)
  <1>1. OrderChecks(s, c) = << <<a, "TENSOR_LAYOUT_MISMATCH">> >>
    BY Zenon DEF OrderChecks
  <1>2. a = TRUE
    OBVIOUS
  <1> HIDE DEF a
  <1> QED
    BY <1>1, <1>2, OneHolds

\* A number of several dimensions is one that a word can count.
LEMMA ProductBounded ==
    ASSUME NEW dimensions \in Seq(Nat), NEW n \in 1..Len(dimensions)
    PROVE  Product(dimensions, n) <= MaxWord
  <1> DEFINE p == Product(dimensions, n - 1)
             x == dimensions[n]
  <1>1. n \in Nat \ {0} /\ n - 1 \in 0..Len(dimensions)
    OBVIOUS
  <1>2. Product(dimensions, n) = Times(p, x)
    BY <1>1, ProductStep
  <1>3. p \in Nat /\ x \in Nat
    BY <1>1, ProductFacts
  <1> HIDE DEF p, x
  <1>4. Times(p, x) = IF p * x <= MaxWord THEN p * x ELSE 0
    BY <1>3, TimesType
  <1>5. 0 <= MaxWord
    BY GgufAssumption
  <1> QED
    BY <1>2, <1>4, <1>5

\* The blocks of one of several members of as many blocks each.
LEMMA MemberBlocks ==
    ASSUME NEW e \in Nat \ {0}, NEW j \in Nat, NEW k \in Nat \ {0}
    PROVE  (e * j) \div e = j /\ (e * j + e * k - 1) \div e + 1 = j + k
  <1> DEFINE x == j + k - 1
  <1>1. x \in Nat
    OBVIOUS
  <1>2. (e * j) \div e = j
    OBVIOUS
  <1>3. e * j + e * k - 1 = e * x + (e - 1)
    <2>1. e * x = e * j + e * k - e /\ e * j \in Int /\ e * k \in Int
      OBVIOUS
    <2> HIDE DEF x
    <2> QED
      BY <1>1, <2>1
  <1>4. (e * x + (e - 1)) \div e = x
    <2> HIDE DEF x
    <2> QED
      BY <1>1
  <1> QED
    BY <1>2, <1>3, <1>4

\* Each member ends no later than the last.
LEMMA MemberEnds ==
    ASSUME NEW d \in Nat, NEW m \in 0..d - 1, NEW x \in Nat
    PROVE  m * x + x <= d * x /\ m * x \in Nat /\ d * x \in Nat
  <1>1. m \in Nat /\ m + 1 <= d
    OBVIOUS
  <1>2. (m + 1) * x <= d * x
    BY <1>1
  <1>3. (m + 1) * x = m * x + x
    BY <1>1
  <1> QED
    BY <1>1, <1>2, <1>3

\* The m-th of d members of n elements in a tensor: a range of k whole blocks.
MemberIs(t, d, m, n, k) ==
    LET b == TypeInfo[t.type].bytes
    IN  /\ k \in Nat \ {0} /\ b \in Nat \ {0}
        /\ Packed(t) = (d * k) * b /\ Packed(t) <= MaxWord
        /\ BlockSpan(t.type, m * n, n).first_block = m * k
        /\ BlockSpan(t.type, m * n, n).blocks = k

\* Members of whole blocks are granted as ranges (kq_quant_range_to_blocks).
LEMMA MemberRange ==
    ASSUME NEW t, Blocked(t), t.dimensions \in Seq(Nat), NEW d \in Nat, NEW m \in 0..d - 1,
           NEW n \in Nat, d * n = Elements(t), n % TypeInfo[t.type].elements = 0
    PROVE  /\ FirstRefusal(AlignedChecks(t, m * n, n)) = "OK"
           /\ \E k : MemberIs(t, d, m, n, k)
  <1> DEFINE e == TypeInfo[t.type].elements
             b == TypeInfo[t.type].bytes
             k == n \div e
             z == Elements(t)
             span == BlockSpan(t.type, m * n, n)
             range == RangeRefusal(t, m * n, n)
  <1>1. /\ t.type \in DOMAIN TypeInfo /\ Len(t.dimensions) \in 1..MaxDimensions
        /\ z # 0 /\ z % e = 0 /\ PackedFits(t)
    BY DEF Blocked
  <1>2. e \in Nat \ {0} /\ b \in Nat \ {0} /\ z \in Nat
    BY <1>1, PackedType
  <1>3. z <= MaxWord
    <2>1. Len(t.dimensions) \in 1..Len(t.dimensions)
      BY <1>1
    <2> QED
      BY <2>1, ProductBounded DEF Elements
  <1>4. MaxWord \in Nat
    BY GgufAssumption
  <1>5. Packed(t) = (z \div e) * b /\ z \div e <= MaxWord \div b
    BY <1>1 DEF Packed, PackedFits
  <1>6. /\ span.first_block = (m * n) \div e
        /\ span.blocks = ((m * n + n - 1) \div e + 1) - (m * n) \div e
        /\ span.leading = m * n - ((m * n) \div e) * e
        /\ span.trailing = ((m * n + n - 1) \div e + 1) * e - (m * n + n)
    BY DEF BlockSpan
  <1>7. z = d * n /\ n % e = 0
    OBVIOUS
  <1> HIDE DEF e, b, z, span
  <1>8. k \in Nat /\ n = e * k
    BY <1>2, <1>7
  <1> HIDE DEF k
  <1>9. m \in Nat /\ n # 0 /\ k # 0
    <2>1. n # 0
      BY <1>1, <1>7
    <2> QED
      BY <1>2, <1>8, <2>1
  <1>10. m * n + n <= z /\ m * n \in Nat
    BY <1>7, MemberEnds
  <1>11. m * k \in Nat /\ m * n = e * (m * k)
    BY <1>2, <1>8, <1>9
  <1> DEFINE j == m * k
  <1>12. (e * j) \div e = j /\ (e * j + e * k - 1) \div e + 1 = j + k
    <2>1. j \in Nat /\ k \in Nat \ {0}
      BY <1>8, <1>9, <1>11
    <2> HIDE DEF j
    <2> QED
      BY <1>2, <2>1, MemberBlocks
  <1>13. span.first_block = j /\ span.blocks = k
    <2>1. (e * j) \div e = j /\ (e * j + e * k - 1) \div e + 1 = j + k
      BY <1>12
    <2>2. m * n = e * j /\ n = e * k
      BY <1>8, <1>11
    <2> HIDE DEF j
    <2>3. /\ span.first_block = (e * j) \div e
          /\ span.blocks = ((e * j + e * k - 1) \div e + 1) - (e * j) \div e
      BY <1>6, <2>2
    <2> QED
      BY <1>8, <1>11, <2>1, <2>3 DEF j
  <1>14. span.leading = 0 /\ span.trailing = 0
    <2>1. (m * n) \div e = j /\ (m * n + n - 1) \div e + 1 = j + k
      <3>1. (e * j) \div e = j /\ (e * j + e * k - 1) \div e + 1 = j + k
        BY <1>12
      <3>2. m * n = e * j /\ n = e * k
        BY <1>8, <1>11
      <3> HIDE DEF j
      <3> QED
        BY <3>1, <3>2
    <2>2. m * n = j * e /\ m * n + n = (j + k) * e
      <3>1. j \in Nat /\ m * n = e * j /\ n = e * k
        BY <1>8, <1>11
      <3> HIDE DEF j
      <3> QED
        BY <1>2, <1>8, <3>1
    <2> HIDE DEF j
    <2>3. span.leading = m * n - j * e /\ span.trailing = (j + k) * e - (m * n + n)
      BY <1>6, <2>1
    <2>4. m * n + n \in Int /\ m * n \in Int
      BY <1>10
    <2> QED
      BY <2>2, <2>3, <2>4
  <1>15. range = "OK"
    <2> DEFINE h1 == n # 0
               h2 == WholeBlocks(t.type, Elements(t))
               h3 == AddFits(m * n, n)
               h4 == m * n < Elements(t) /\ m * n + n <= Elements(t)
    <2>1. RangeRefusal(t, m * n, n)
            = FirstRefusal(<< <<h1, "INVALID_ARGUMENT">>, <<h2, "INVALID_QUANTIZED_GEOMETRY">>,
                              <<h3, "ARITHMETIC_OVERFLOW">>, <<h4, "SPAN_OUT_OF_RANGE">> >>)
      BY Zenon DEF RangeRefusal
    <2>2. h2
      BY <1>1 DEF WholeBlocks, z, e
    <2>3. h3
      <3> DEFINE y == m * n
      <3>1. y \in Nat /\ y + n <= z
        BY <1>10
      <3> HIDE DEF y
      <3>2. y <= MaxWord - n
        BY <1>2, <1>3, <1>4, <3>1
      <3> QED
        BY <3>2 DEF AddFits, y
    <2>4. h4
      <3> DEFINE y == m * n
      <3>1. y \in Nat /\ y + n <= z
        BY <1>10
      <3> HIDE DEF y
      <3>2. y < z
        BY <1>2, <1>9, <3>1
      <3> QED
        BY <3>1, <3>2 DEF y, z
    <2>5. h1
      BY <1>9
    <2>6. h1 = TRUE /\ h2 = TRUE /\ h3 = TRUE /\ h4 = TRUE
      BY <2>2, <2>3, <2>4, <2>5 DEF WholeBlocks, AddFits
    <2> HIDE DEF h1, h2, h3, h4
    <2> QED
      BY <2>1, <2>6, FourHold
  <1>16. FirstRefusal(AlignedChecks(t, m * n, n)) = "OK"
    <2> DEFINE h1 == range = "OK"
               h2 == span.leading = 0 /\ span.trailing = 0
    <2>1. AlignedChecks(t, m * n, n)
            = << <<h1, range>>, <<h2, "NONCONTIGUOUS_TENSOR_VIEW">> >>
      BY Zenon DEF AlignedChecks, span
    <2>2. h1 = TRUE /\ h2 = TRUE
      BY <1>14, <1>15
    <2> HIDE DEF h1, h2, range
    <2> QED
      BY <2>1, <2>2, TwoHold
  <1>17. Packed(t) = (d * k) * b /\ Packed(t) <= MaxWord
    <2>1. d * k \in Nat /\ z = e * (d * k)
      BY <1>2, <1>7, <1>8
    <2> DEFINE y == d * k
    <2> HIDE DEF y
    <2>2. y \in Nat /\ z = e * y
      BY <2>1 DEF y
    <2>3. z \div e = y
      BY <1>2, <2>2
    <2>4. y * b <= MaxWord
      <3> DEFINE w == MaxWord \div b
      <3>1. w \in Nat /\ w * b <= MaxWord
        BY <1>2, <1>4
      <3>2. y <= w
        BY <1>5, <2>3
      <3> HIDE DEF w
      <3>3. y * b <= w * b
        BY <1>2, <2>2, <3>1, <3>2
      <3>4. y * b \in Nat /\ w * b \in Nat
        BY <1>2, <2>2, <3>1
      <3> QED
        BY <1>4, <3>1, <3>3, <3>4
    <2> QED
      BY <1>5, <2>3, <2>4 DEF y
  <1>18. MemberIs(t, d, m, n, k)
    BY <1>2, <1>8, <1>9, <1>13, <1>17 DEF MemberIs, b, span
  <1> QED
    BY <1>16, <1>18

\* Inside its tensor a member is inside the file (kq_gguf_open_tensor_span).
LEMMA SpanPasses ==
    ASSUME FileInvariant, stage \in Opened, NEW s, NEW c, c.own = TRUE,
           NEW i \in Tensors, i = Place(s.parts[c.binding + 1]),
           NEW d \in Nat, NEW m \in 0..d - 1, NEW n, ElementRange(s, c) = <<m * n, n>>,
           NEW k, MemberIs(Tensor(i), d, m, n, k)
    PROVE  SpanRefusal(s, c) = "OK"
  <1> DEFINE t == Tensor(i)
             b == TypeInfo[t.type].bytes
             start == (m * k) * b
             length == k * b
             end == start + length
             a1 == c.own
             a2 == AddFits(start, length)
             a3 == end <= Packed(t)
             a4 == DataOffset(i) + end <= file.size
  <1>1. /\ k \in Nat \ {0} /\ b \in Nat \ {0}
        /\ Packed(t) = (d * k) * b /\ Packed(t) <= MaxWord
        /\ BlockSpan(t.type, m * n, n).first_block = m * k
        /\ BlockSpan(t.type, m * n, n).blocks = k
    BY DEF MemberIs
  <1>2. Window(s, c) = [start |-> start, length |-> length]
    <2>1. Physical(s, c.binding) = t
      BY DEF Physical
    <2> QED
      BY <1>1, <2>1 DEF Window
  <1>3. /\ Window(s, c).start = start /\ Window(s, c).length = length
    BY <1>2
  <1>4. Place(s.parts[c.binding + 1]) = i
    OBVIOUS
  <1>5. SpanRefusal(s, c)
          = FirstRefusal(<< <<a1, "TENSOR_OWNERSHIP_MISMATCH">>, <<a2, "ARITHMETIC_OVERFLOW">>,
                            <<a3, "SPAN_OUT_OF_RANGE">>, <<a4, "SPAN_OUT_OF_RANGE">> >>)
    <2> HIDE DEF start, length
    <2> QED
      BY <1>3, <1>4 DEF SpanRefusal
  <1>6. start \in Nat /\ length \in Nat /\ end <= Packed(t)
    <2>1. m \in Nat /\ m * k \in Nat /\ d * k \in Nat /\ m * k + k <= d * k
      BY <1>1, MemberEnds
    <2> DEFINE x == m * k
               y == d * k
    <2>2. x \in Nat /\ y \in Nat /\ x + k <= y
      BY <2>1
    <2> HIDE DEF x, y
    <2>3. x * b + k * b = (x + k) * b /\ (x + k) * b <= y * b
      BY <1>1, <2>2
    <2>4. x * b \in Nat /\ k * b \in Nat
      BY <1>1, <2>2
    <2> QED
      BY <1>1, <2>3, <2>4 DEF x, y
  <1> HIDE DEF start, length
  <1>7. a2
    <2>1. Packed(t) \in Nat /\ MaxWord \in Nat
      <3>1. d * k \in Nat /\ MaxWord \in Nat
        BY <1>1, MemberEnds, GgufAssumption
      <3> QED
        BY <1>1, <3>1
    <2> QED
      BY <1>1, <1>6, <2>1 DEF AddFits
  <1>8. a4
    <2>1. gguf.data_section + End(i) <= file.size
      BY DEF FileInvariant, SpansKept
    <2>2. gguf.data_section \in Nat /\ t.offset \in Nat
      BY TensorBlocked DEF FileInvariant, Located, Directory, Opened
    <2>3. DataOffset(i) = gguf.data_section + t.offset /\ End(i) = t.offset + Packed(t)
      BY DEF DataOffset, End, Offset
    <2>4. file.size \in Nat
      BY ImageFacts DEF FileInvariant
    <2>5. Packed(t) \in Nat
      <3>1. d * k \in Nat
        BY <1>1, MemberEnds
      <3> QED
        BY <1>1, <3>1
    <2> HIDE DEF t
    <2> QED
      BY <1>6, <2>1, <2>2, <2>3, <2>4, <2>5
  <1>9. a1 /\ a3
    BY <1>6
  <1>10. a1 = TRUE /\ a2 = TRUE /\ a3 = TRUE /\ a4 = TRUE
    BY <1>7, <1>8, <1>9 DEF AddFits
  <1> HIDE DEF a1, a2, a3, a4
  <1> QED
    BY <1>5, <1>10, FourHold

\* A binding the caller may count on is granted (kq_tensor_view_open_binding).
LEMMA BindingPasses ==
    ASSUME FileInvariant, stage \in Opened, NEW s, Sized(s), s.relation # "METADATA_DERIVED",
           \A p \in 1..Len(s.parts) : Stored(s.parts[p]), Len(s.parts) \in Nat,
           NEW c, c.kind = "BINDING", c.own = TRUE,
           c.binding \in Nat, c.binding < Len(s.parts), c.canonical => Contiguous(s)
    PROVE  FirstRefusal(BindingChecks(s, c)) = "OK" /\ SpanRefusal(s, c) = "OK"
  <1> DEFINE i == Place(s.parts[c.binding + 1])
             t == Physical(s, c.binding)
             n == Elements(t)
             a == s.relation # "FUSED"
             b == Contiguous(s) \/ Len(t.dimensions) <= MaxShape
             ra == "TENSOR_LAYOUT_MISMATCH"
             rb == "INVALID_QUANTIZED_GEOMETRY"
             head == << <<a, ra>> >>
             split == SplitChecks(s)
             whole == WholeChecks(s, t)
             order == OrderChecks(s, c)
             tail == << <<b, rb>> >>
  <1>1. BindingChecks(s, c) = (((head \o split) \o whole) \o order) \o tail
    BY Zenon DEF BindingChecks
  <1>2. c.binding + 1 \in 1..Len(s.parts)
    OBVIOUS
  <1>3. /\ t = Tensor(i) /\ i \in Tensors /\ Blocked(t)
        /\ t.dimensions = s.parts[c.binding + 1].dimensions /\ t.dimensions \in Seq(Nat)
    BY <1>2 DEF Stored, Physical
  <1>4. a = TRUE /\ b = TRUE
    <2>1. a
      BY DEF Sized
    <2>2. Len(t.dimensions) \in 1..3
      BY <1>2, <1>3 DEF Sized
    <2> DEFINE rank == Len(t.dimensions)
    <2>3. rank <= 4
      <3> HIDE DEF rank
      <3>1. rank \in 1..3
        BY <2>2 DEF rank
      <3> QED
        BY <3>1
    <2>4. b
      BY <2>3 DEF MaxShape
    <2> QED
      BY <2>1, <2>4
  <1>5. split \in Seq(CheckType) /\ FirstRefusal(split) = "OK"
    BY SplitType, SplitPasses
  <1>6. whole \in Seq(CheckType) /\ FirstRefusal(whole) = "OK"
    BY <1>2, WholeType, WholePasses
  <1>7. order \in Seq(CheckType) /\ FirstRefusal(order) = "OK"
    BY OrderType, OrderPasses
  <1>8. a \in BOOLEAN /\ b \in BOOLEAN /\ ra \in Refusals /\ rb \in Refusals
    BY <1>4 DEF Refusals
  <1> HIDE DEF a, b, ra, rb
  <1>9. head \in Seq(CheckType) /\ tail \in Seq(CheckType)
    BY <1>8, OneCheck
  <1>10. FirstRefusal(head) = "OK" /\ FirstRefusal(tail) = "OK"
    BY <1>4, OneHolds
  <1> HIDE DEF head, split, whole, order, tail
  <1>11. /\ head \o split \in Seq(CheckType) /\ FirstRefusal(head \o split) = "OK"
    BY <1>5, <1>9, <1>10, CatPasses
  <1>12. /\ (head \o split) \o whole \in Seq(CheckType)
         /\ FirstRefusal((head \o split) \o whole) = "OK"
    BY <1>6, <1>11, CatPasses
  <1>13. /\ ((head \o split) \o whole) \o order \in Seq(CheckType)
         /\ FirstRefusal(((head \o split) \o whole) \o order) = "OK"
    BY <1>7, <1>12, CatPasses
  <1>14. FirstRefusal(BindingChecks(s, c)) = "OK"
    BY <1>1, <1>9, <1>10, <1>13, CatPasses
  <1>15. n \in Nat /\ n % TypeInfo[t.type].elements = 0
    BY <1>3, PackedType DEF Blocked
  <1>16. ElementRange(s, c) = <<0 * n, n>> /\ 1 * n = Elements(t) /\ 0 \in 0..1 - 1
    <2>1. ElementRange(s, c) = <<0, n>>
      BY Zenon DEF ElementRange
    <2>2. 0 * n = 0 /\ 1 * n = n
      BY <1>15
    <2> QED
      BY <2>1, <2>2
  <1> HIDE DEF i, t, n
  <1>17. \E k : MemberIs(t, 1, 0, n, k)
    BY <1>3, <1>15, <1>16, MemberRange
  <1>18. SpanRefusal(s, c) = "OK"
    <2>1. PICK k : MemberIs(t, 1, 0, n, k)
      BY <1>17
    <2>4. 1 \in Nat /\ FileInvariant /\ stage \in Opened /\ c.own = TRUE
      OBVIOUS
    <2>2. MemberIs(Tensor(i), 1, 0, n, k)
      BY <1>3, <2>1
    <2>3. i = Place(s.parts[c.binding + 1]) /\ i \in Tensors
      BY <1>3 DEF i
    <2> QED
      BY ONLY <1>16, <2>2, <2>3, <2>4, SpanPasses, Zenon
  <1> QED
    BY <1>14, <1>18

\* The elements of a stack are those of its experts.
LEMMA StackElements ==
    ASSUME NEW t, Blocked(t), t.dimensions \in Seq(Nat), Len(t.dimensions) = 3,
           t.dimensions[3] = Dim.experts
    PROVE  /\ ExpertElements(t) \in Nat /\ Dim.experts * ExpertElements(t) = Elements(t)
           /\ ExpertElements(t) % TypeInfo[t.type].elements = 0
  <1> DEFINE p == Product(t.dimensions, 2)
             x == Dim.experts
  <1>1. ExpertElements(t) = p /\ Elements(t) = Product(t.dimensions, 3)
    BY DEF ExpertElements, Elements
  <1>2. p \in Nat /\ x \in Nat
    <2>1. 2 \in 0..Len(t.dimensions)
      OBVIOUS
    <2> QED
      BY <2>1, ProductFacts, RegistryAssumption
  <1>3. Product(t.dimensions, 3) = Times(p, x)
    <2>1. 3 \in Nat /\ 3 # 0 /\ 3 - 1 = 2
      OBVIOUS
    <2> QED
      BY <2>1, ProductStep
  <1>4. Elements(t) # 0
    BY DEF Blocked
  <1>5. p % TypeInfo[t.type].elements = 0
    <2>1. /\ TypeInfo[t.type].elements \in Nat \ {0}
          /\ t.dimensions[1] % TypeInfo[t.type].elements = 0
      BY PackedType DEF Blocked
    <2>2. 2 \in 0..Len(t.dimensions) /\ 2 # 0
      OBVIOUS
    <2> QED
      BY <2>1, <2>2, ProductFacts
  <1> HIDE DEF p, x
  <1>6. Times(p, x) = p * x
    <2>1. Times(p, x) = IF p * x <= MaxWord THEN p * x ELSE 0
      BY <1>2, TimesType
    <2> QED
      BY <1>1, <1>3, <1>4, <2>1
  <1>7. x * p = p * x
    BY <1>2
  <1> QED
    BY <1>1, <1>2, <1>3, <1>5, <1>6, <1>7 DEF x

\* So is an expert (kq_tensor_view_open_expert_member).
LEMMA ExpertPasses ==
    ASSUME FileInvariant, stage \in Opened, NEW s, Sized(s), s.component = "ROUTED",
           \A p \in 1..Len(s.parts) : Stored(s.parts[p]), Len(s.parts) \in Nat,
           NEW c, c.kind = "EXPERT", c.own = TRUE,
           c.binding \in Nat, c.binding < Len(s.parts), c.canonical => Contiguous(s),
           c.expert \in Nat, c.expert < Dim.experts
    PROVE  FirstRefusal(ExpertChecks(s, c)) = "OK" /\ SpanRefusal(s, c) = "OK"
  <1> DEFINE i == Place(s.parts[c.binding + 1])
             t == Physical(s, c.binding)
             axis == s.parts[c.binding + 1].axis
             size == ExpertElements(t)
             ra == "INVALID_QUANTIZED_GEOMETRY"
             rb == "SPAN_OUT_OF_RANGE"
             rd == "TENSOR_LAYOUT_MISMATCH"
             re == "NONCONTIGUOUS_TENSOR_VIEW"
             a == s.component = "ROUTED" /\ s.axis < Len(s.canonical)
                    /\ s.canonical[s.axis + 1] = Dim.experts
             b == c.expert < Dim.experts
             d == Contiguous(s) \/ s.relation = "SPLIT"
             e == axis < Len(t.dimensions) /\ t.dimensions[axis + 1] = Dim.experts
             f == axis + 1 = Len(t.dimensions)
             g == axis # 0
             head  == << <<a, ra>>, <<b, rb>> >>
             split == SplitChecks(s)
             kind  == << <<d, rd>> >>
             whole == WholeChecks(s, t)
             axes  == << <<e, ra>>, <<f, re>>, <<g, ra>> >>
             range == AlignedChecks(t, c.expert * size, size)
             order == OrderChecks(s, c)
  <1>1. ExpertChecks(s, c)
          = (((((head \o split) \o kind) \o whole) \o axes) \o range) \o order
    BY Zenon DEF ExpertChecks
  <1>2. c.binding + 1 \in 1..Len(s.parts)
    OBVIOUS
  <1>3. /\ t = Tensor(i) /\ i \in Tensors /\ Blocked(t)
        /\ t.dimensions = s.parts[c.binding + 1].dimensions /\ t.dimensions \in Seq(Nat)
    BY <1>2 DEF Stored, Physical
  <1>4. /\ s.relation \in {"RENAMED", "SPLIT"} /\ s.relation # "METADATA_DERIVED"
        /\ s.axis = 0 /\ Len(s.canonical) = 3 /\ s.canonical[1] = Dim.experts
        /\ axis = 2 /\ Len(t.dimensions) = 3 /\ t.dimensions[3] = Dim.experts
    BY <1>2, <1>3 DEF Sized, StackSized
  <1>5. a = TRUE /\ b = TRUE /\ d = TRUE /\ e = TRUE /\ f = TRUE /\ g = TRUE
    BY <1>4 DEF Contiguous
  <1>6. /\ ra \in Refusals /\ rb \in Refusals /\ rd \in Refusals /\ re \in Refusals
        /\ {a, b, d, e, f, g} \subseteq BOOLEAN
    BY <1>5 DEF Refusals
  <1>7. split \in Seq(CheckType) /\ FirstRefusal(split) = "OK"
    BY SplitType, SplitPasses
  <1>8. whole \in Seq(CheckType) /\ FirstRefusal(whole) = "OK"
    BY <1>2, <1>4, WholeType, WholePasses
  <1>9. order \in Seq(CheckType) /\ FirstRefusal(order) = "OK"
    BY OrderType, OrderPasses
  <1>10. /\ size \in Nat /\ Dim.experts * size = Elements(t)
         /\ size % TypeInfo[t.type].elements = 0
    BY <1>3, <1>4, StackElements
  <1>11. c.expert \in 0..Dim.experts - 1 /\ Dim.experts \in Nat
    BY RegistryAssumption
  <1>12. ElementRange(s, c) = <<c.expert * size, size>>
    BY Zenon DEF ElementRange
  <1> HIDE DEF a, b, d, e, f, g, ra, rb, rd, re
  <1>13. /\ head \in Seq(CheckType) /\ FirstRefusal(head) = "OK"
    BY <1>5, <1>6, TwoChecks, TwoHold
  <1>14. /\ kind \in Seq(CheckType) /\ FirstRefusal(kind) = "OK"
    BY <1>5, <1>6, OneCheck, OneHolds
  <1>15. /\ axes \in Seq(CheckType) /\ FirstRefusal(axes) = "OK"
    <2>1. axes \in Seq(CheckType)
      BY <1>6, ThreeChecks
    <2>2. FirstRefusal(<< <<TRUE, ra>>, <<TRUE, re>>, <<TRUE, ra>> >>) = "OK"
      BY ThreeHold
    <2> QED
      BY <1>5, <2>1, <2>2
  <1> HIDE DEF t, i, size
  <1>16. /\ range \in Seq(CheckType) /\ FirstRefusal(range) = "OK"
         /\ \E k : MemberIs(t, Dim.experts, c.expert, size, k)
    <2>1. range \in Seq(CheckType)
      BY AlignedType
    <2>2. /\ FirstRefusal(AlignedChecks(t, c.expert * size, size)) = "OK"
          /\ \E k : MemberIs(t, Dim.experts, c.expert, size, k)
      BY ONLY <1>3, <1>10, <1>11, MemberRange, Zenon
    <2> QED
      BY <2>1, <2>2
  <1> HIDE DEF head, split, kind, whole, axes, range, order
  <1>17. head \o split \in Seq(CheckType) /\ FirstRefusal(head \o split) = "OK"
    BY <1>7, <1>13, CatPasses
  <1>18. /\ (head \o split) \o kind \in Seq(CheckType)
         /\ FirstRefusal((head \o split) \o kind) = "OK"
    BY <1>14, <1>17, CatPasses
  <1>19. /\ ((head \o split) \o kind) \o whole \in Seq(CheckType)
         /\ FirstRefusal(((head \o split) \o kind) \o whole) = "OK"
    BY <1>8, <1>18, CatPasses
  <1>20. /\ (((head \o split) \o kind) \o whole) \o axes \in Seq(CheckType)
         /\ FirstRefusal((((head \o split) \o kind) \o whole) \o axes) = "OK"
    BY <1>15, <1>19, CatPasses
  <1>21. /\ ((((head \o split) \o kind) \o whole) \o axes) \o range \in Seq(CheckType)
         /\ FirstRefusal(((((head \o split) \o kind) \o whole) \o axes) \o range) = "OK"
    BY <1>16, <1>20, CatPasses
  <1>22. FirstRefusal(ExpertChecks(s, c)) = "OK"
    BY <1>1, <1>9, <1>21, CatPasses
  <1>23. SpanRefusal(s, c) = "OK"
    <2>1. PICK k : MemberIs(t, Dim.experts, c.expert, size, k)
      BY <1>16
    <2>2. MemberIs(Tensor(i), Dim.experts, c.expert, size, k)
      BY <1>3, <2>1
    <2>4. FileInvariant /\ stage \in Opened /\ c.own = TRUE
      OBVIOUS
    <2>3. i = Place(s.parts[c.binding + 1]) /\ i \in Tensors
      BY <1>3 DEF i
    <2> QED
      BY ONLY <1>11, <1>12, <2>2, <2>3, <2>4, SpanPasses, Zenon
  <1> QED
    BY <1>22, <1>23

\* The elements of the fused table are those of its members.
LEMMA TableElements ==
    ASSUME NEW t, Blocked(t), t.dimensions \in Seq(Nat),
           t.dimensions = <<Dim.ple_width, Dim.ple_members * Dim.ple_rows>>
    PROVE  /\ MemberElements(t) \in Nat /\ Dim.ple_members * MemberElements(t) = Elements(t)
           /\ MemberElements(t) % TypeInfo[t.type].elements = 0
           /\ (Dim.ple_members * Dim.ple_rows) % Dim.ple_members = 0
           /\ (Dim.ple_members * Dim.ple_rows) \div Dim.ple_members = Dim.ple_rows
  <1> DEFINE m == Dim.ple_members
             r == Dim.ple_rows
             w == Dim.ple_width
             e == TypeInfo[t.type].elements
             x == m * r
             y == w * r
  <1>1. m \in Nat \ {0} /\ r \in Nat
    BY RegistryAssumption, SizesAssumption
  <1>2. /\ Len(t.dimensions) = 2 /\ t.dimensions[1] = w /\ t.dimensions[2] = x
    OBVIOUS
  <1>3. w \in Nat /\ x \in Nat
    <2>1. \A k \in 1..2 : t.dimensions[k] \in Nat
      BY <1>2, SizesNatural
    <2> QED
      BY <1>2, <2>1
  <1>4. Elements(t) = Fit(w * x) /\ Elements(t) # 0
    <2>1. Product(<<w, x>>, 2) = Fit(w * x)
      <3> HIDE DEF w, x
      <3> QED
        BY <1>3, SizesProduct
    <2>2. t.dimensions = <<w, x>>
      OBVIOUS
    <2> HIDE DEF w, x
    <2> QED
      BY <1>2, <2>1, <2>2 DEF Elements, Blocked
  <1>5. e \in Nat \ {0} /\ w % e = 0
    BY <1>2, PackedType DEF Blocked
  <1>6. MemberElements(t) = Elements(t) \div m
    BY DEF MemberElements
  <1> HIDE DEF m, r, w, e
  <1>7. x % m = 0 /\ x \div m = r
    BY <1>1
  <1>8. y \in Nat /\ w * x = m * y
    BY <1>1, <1>3
  <1>9. y % e = 0
    <2> DEFINE q == w \div e
    <2>1. q \in Nat /\ w = e * q
      BY <1>3, <1>5
    <2> HIDE DEF q
    <2>2. y = e * (q * r) /\ q * r \in Nat
      BY <1>1, <1>5, <2>1
    <2> DEFINE z == q * r
    <2>3. z \in Nat /\ y = e * z
      BY <2>2
    <2> HIDE DEF z, y
    <2> QED
      BY <1>5, <2>3
  <1> HIDE DEF x, y
  <1>10. Elements(t) = m * y
    BY <1>4, <1>8 DEF Fit
  <1>11. MemberElements(t) = y
    BY <1>1, <1>6, <1>8, <1>10
  <1> QED
    BY <1>7, <1>8, <1>9, <1>10, <1>11 DEF x, m, r, e

\* So is a member of the fused table (kq_tensor_view_open_ple_member).
LEMMA PlePasses ==
    ASSUME FileInvariant, stage \in Opened, NEW s, NEW m \in 0..Dim.ple_members - 1,
           Shard(s, m), Stored(s.parts[1]),
           NEW c, c.kind = "PLE", c.binding = 0, c.own = TRUE
    PROVE  FirstRefusal(PleChecks(s, c)) = "OK" /\ SpanRefusal(s, c) = "OK"
  <1> DEFINE i    == Place(s.parts[1])
             t    == Physical(s, 0)
             part == s.parts[1]
             size == MemberElements(t)
             ra == "INVALID_QUANTIZED_GEOMETRY"
             re == "NONCONTIGUOUS_TENSOR_VIEW"
             a == s.component = "PLE_TABLE" /\ s.relation = "FUSED" /\ Len(s.canonical) = 2
             b == part.role = "FUSED_MEMBER" /\ part.fused < Dim.ple_members
                    /\ Len(t.dimensions) = 2 /\ t.dimensions[2] % Dim.ple_members = 0
             d == s.canonical = <<t.dimensions[2] \div Dim.ple_members, t.dimensions[1]>>
             e == BlockSpan(t.type, part.fused * size, size).blocks
                    * TypeInfo[t.type].bytes < Packed(t)
             head  == << <<a, ra>>, <<b, ra>>, <<d, ra>> >>
             range == AlignedChecks(t, part.fused * size, size)
             tail  == << <<e, re>> >>
  <1>1. PleChecks(s, c) = (head \o range) \o tail
    BY Zenon DEF PleChecks
  <1>2. /\ t = Tensor(i) /\ i \in Tensors /\ Blocked(t) /\ t.dimensions \in Seq(Nat)
        /\ t.dimensions = <<Dim.ple_width, Dim.ple_members * Dim.ple_rows>>
    <2>1. t = Tensor(i)
      BY DEF Physical
    <2> HIDE DEF t
    <2> QED
      BY <2>1 DEF Stored, Shard
  <1>3. part.role = "FUSED_MEMBER" /\ part.fused = m /\ s.canonical = <<Dim.ple_rows, Dim.ple_width>>
    BY DEF Shard
  <1>4. /\ size \in Nat /\ Dim.ple_members * size = Elements(t)
        /\ size % TypeInfo[t.type].elements = 0
        /\ (Dim.ple_members * Dim.ple_rows) % Dim.ple_members = 0
        /\ (Dim.ple_members * Dim.ple_rows) \div Dim.ple_members = Dim.ple_rows
    BY <1>2, TableElements
  <1>5. Dim.ple_members \in Nat /\ Dim.ple_members > 1 /\ m < Dim.ple_members
    BY RegistryAssumption, SizesAssumption
  <1>6. /\ t.dimensions[2] = Dim.ple_members * Dim.ple_rows /\ t.dimensions[1] = Dim.ple_width
        /\ Len(t.dimensions) = 2 /\ Len(s.canonical) = 2
    <2> HIDE DEF t
    <2> QED
      BY <1>2, <1>3
  <1>7. a = TRUE /\ b = TRUE /\ d = TRUE
    <2>1. a = TRUE
      BY <1>6 DEF Shard
    <2>2. b = TRUE
      BY <1>3, <1>4, <1>5, <1>6
    <2>3. d = TRUE
      BY <1>3, <1>4, <1>6
    <2> QED
      BY <2>1, <2>2, <2>3
  <1>8. ElementRange(s, c) = <<m * size, size>>
    <2>1. ElementRange(s, c) = <<part.fused * size, size>>
      BY DEF ElementRange
    <2> QED
      BY <1>3, <2>1
  <1> HIDE DEF size
  <1>9. /\ FirstRefusal(AlignedChecks(t, m * size, size)) = "OK"
        /\ \E k : MemberIs(t, Dim.ple_members, m, size, k)
    <2> HIDE DEF t
    <2> QED
      BY <1>2, <1>4, <1>5, MemberRange
  <1>10. PICK k : MemberIs(t, Dim.ple_members, m, size, k)
    BY <1>9
  <1>11. e = TRUE
    <2> DEFINE w == TypeInfo[t.type].bytes
               n == Dim.ple_members
    <2>1. /\ k \in Nat \ {0} /\ w \in Nat \ {0} /\ Packed(t) = (n * k) * w
          /\ BlockSpan(t.type, part.fused * size, size).blocks = k
      BY <1>3, <1>10 DEF MemberIs
    <2>2. n \in Nat /\ n >= 2
      BY <1>5
    <2> HIDE DEF w, n
    <2>3. k * w < (n * k) * w
      <3>1. n * k >= 2 * k /\ n * k \in Nat
        BY <2>1, <2>2
      <3> DEFINE x == n * k
      <3>2. x \in Nat /\ x >= k + 1
        BY <2>1, <3>1
      <3> HIDE DEF x
      <3>3. x * w >= (k + 1) * w /\ (k + 1) * w = k * w + w /\ k * w \in Nat /\ x * w \in Nat
        BY <2>1, <3>2
      <3>4. k * w < x * w
        BY <2>1, <3>3
      <3> QED
        BY <3>4 DEF x
    <2> QED
      BY <2>1, <2>3 DEF w
  <1>12. ra \in Refusals /\ re \in Refusals /\ {a, b, d, e} \subseteq BOOLEAN
    BY <1>7, <1>11 DEF Refusals
  <1>13. range \in Seq(CheckType) /\ FirstRefusal(range) = "OK"
    BY <1>3, <1>9, AlignedType
  <1> HIDE DEF a, b, d, e, ra, re
  <1>14. head \in Seq(CheckType) /\ FirstRefusal(head) = "OK"
    <2>1. head \in Seq(CheckType)
      BY <1>12, ThreeChecks
    <2>2. FirstRefusal(<< <<TRUE, ra>>, <<TRUE, ra>>, <<TRUE, ra>> >>) = "OK"
      BY ThreeHold
    <2> QED
      BY <1>7, <2>1, <2>2
  <1>15. tail \in Seq(CheckType) /\ FirstRefusal(tail) = "OK"
    BY <1>11, <1>12, OneCheck, OneHolds
  <1> HIDE DEF head, range, tail
  <1>16. head \o range \in Seq(CheckType) /\ FirstRefusal(head \o range) = "OK"
    BY <1>13, <1>14, CatPasses
  <1>17. FirstRefusal(PleChecks(s, c)) = "OK"
    BY <1>1, <1>15, <1>16, CatPasses
  <1>18. SpanRefusal(s, c) = "OK"
    <2>1. MemberIs(Tensor(i), Dim.ple_members, m, size, k)
      BY <1>2, <1>10
    <2>4. /\ FileInvariant /\ stage \in Opened /\ c.own = TRUE
          /\ m \in 0..Dim.ple_members - 1
      OBVIOUS
    <2>2. i = Place(s.parts[c.binding + 1]) /\ i \in Tensors
      BY <1>2
    <2> HIDE DEF i, t
    <2> QED
      BY ONLY <1>5, <1>8, <2>1, <2>2, <2>4, SpanPasses, Zenon
  <1> QED
    BY <1>17, <1>18

\* Every call a caller may count on is granted when the table has been gone
\* through, on the sizes of the row it names.
LEMMA ViewPasses ==
    ASSUME FileInvariant, stage \in Opened, SoFar, model.registered = Len(Registry),
           NEW c \in Calls, Legitimate(Registry[c.semantic], c)
    PROVE  ViewRefusal(Registry[c.semantic], c) = "OK"
  <1> DEFINE s == Registry[c.semantic]
  <1>1. /\ c.semantic \in 1..Len(Registry) /\ c.binding \in Nat /\ c.expert \in Nat
        /\ c.kind \in {"BINDING", "EXPERT", "PLE"} /\ (c.kind = "PLE" => c.binding = 0)
        /\ c.own \in BOOLEAN
    BY DEF Calls
  <1>2. \A p \in 1..Len(s.parts) : Stored(s.parts[p])
    BY <1>1, PartStored
  <1>3. Len(s.parts) \in Nat
    <2>1. Len(s.parts) \in 0..2
      BY <1>1, RowFacts
    <2> QED
      BY <2>1
  <1>4. Sized(s) \/ \E m \in 0..Dim.ple_members - 1 : Shard(s, m)
    BY <1>1, RowSized
  <1> HIDE DEF s
  <1>5. Legitimate(s, c)
    BY DEF s
  <1>6. /\ c.own = TRUE /\ s.relation # "METADATA_DERIVED" /\ c.binding < Len(s.parts)
        /\ c.canonical => Contiguous(s) \/ c.kind = "PLE"
    BY <1>1, <1>5 DEF Legitimate
  <1>7. FirstRefusal(ArgumentChecks(s, c)) = "OK"
    <2> DEFINE a == s.relation # "METADATA_DERIVED"
               b == c.binding < Len(s.parts)
    <2>1. ArgumentChecks(s, c) = << <<a, "NO_TENSOR_PAYLOAD">>, <<b, "SPAN_OUT_OF_RANGE">> >>
      BY Zenon DEF ArgumentChecks
    <2>2. a = TRUE /\ b = TRUE
      BY <1>6
    <2> HIDE DEF a, b
    <2>3. FirstRefusal(<< <<TRUE, "NO_TENSOR_PAYLOAD">>, <<TRUE, "SPAN_OUT_OF_RANGE">> >>) = "OK"
      BY TwoHold
    <2> QED
      BY <2>1, <2>2, <2>3
  <1>8. CASE c.kind = "BINDING"
    <2>1. s.relation # "FUSED"
      BY <1>5, <1>8 DEF Legitimate
    <2>2. Sized(s)
      BY <1>4, <2>1 DEF Shard
    <2>3. c.canonical => Contiguous(s)
      BY <1>6, <1>8
    <2>4. FirstRefusal(BindingChecks(s, c)) = "OK" /\ SpanRefusal(s, c) = "OK"
      BY <1>1, <1>2, <1>3, <1>6, <1>8, <2>2, <2>3, BindingPasses
    <2>5. CallRefusal(s, c) = "OK"
      BY <1>7, <1>8, <2>4 DEF CallRefusal
    <2> QED
      BY <2>4, <2>5 DEF ViewRefusal, s
  <1>9. CASE c.kind = "EXPERT"
    <2>1. s.component = "ROUTED" /\ c.expert < Dim.experts
      BY <1>5, <1>9 DEF Legitimate
    <2>2. Sized(s)
      BY <1>4, <2>1 DEF Shard
    <2>3. c.canonical => Contiguous(s)
      BY <1>6, <1>9
    <2>4. FirstRefusal(ExpertChecks(s, c)) = "OK" /\ SpanRefusal(s, c) = "OK"
      BY <1>1, <1>2, <1>3, <1>6, <1>9, <2>1, <2>2, <2>3, ExpertPasses
    <2>5. CallRefusal(s, c) = "OK"
      BY <1>7, <1>9, <2>1, <2>4 DEF CallRefusal
    <2> QED
      BY <2>4, <2>5 DEF ViewRefusal, s
  <1>10. CASE c.kind = "PLE"
    <2>1. s.component = "PLE_TABLE"
      BY <1>5, <1>10 DEF Legitimate
    <2>2. PICK m \in 0..Dim.ple_members - 1 : Shard(s, m)
      BY <1>4, <2>1 DEF Sized
    <2>3. Stored(s.parts[1])
      <3>1. 1 \in 1..Len(s.parts)
        BY <2>2 DEF Shard
      <3> QED
        BY <1>2, <3>1
    <2>4. FirstRefusal(PleChecks(s, c)) = "OK" /\ SpanRefusal(s, c) = "OK"
      BY <1>1, <1>6, <1>10, <2>2, <2>3, PlePasses
    <2>5. CallRefusal(s, c) = "OK"
      BY <1>7, <1>10, <2>1, <2>4 DEF CallRefusal
    <2> QED
      BY <2>4, <2>5 DEF ViewRefusal, s
  <1> QED
    BY <1>1, <1>8, <1>9, <1>10

\* A model opens only from the registry, and only at the end of its table.
LEMMA OpensComplete ==
    ASSUME TextInvariant, [TextNext]_textVars, Opening
    PROVE  stage = "registry" /\ model.registered = Len(Registry)
  <1>0. stage # "model" /\ stage' = "model"
    BY DEF Opening
  <1>1. CASE UNCHANGED textVars
    BY <1>0, <1>1 DEF textVars, viewVars, registryVars, ggufVars
  <1>2. CASE FileStep
    <2>1. stage' # "model"
      BY <1>2 DEF FileStep, GgufNext, FileNext, ContainerNext, CreateFile, GetSize,
         CreateMapping, AllocateFile, ReadGranularity, AllocateGguf, MapDirectory,
         ReadHeader, AllocateTables, ReadMetadata, EndMetadata, ReadTensor,
         LocateData, AllocateOrder, ValidateSpans, CloseContainer, CloseFile,
         Acquire, Fail, RefuseOpen
    <2> QED
      BY <1>0, <2>1
  <1>3. CASE RegistryStep
    BY <1>0, <1>3 DEF RegistryStep, RegistryNext, AllocateModel, AllocateEntries,
       CheckEntries, ValidateIdentity, Register, CompleteRegistry, CloseModel, Acquire, RefuseModel, ggufVars
  <1>4. CASE ViewStep \/ TokenizerStep \/ SamplingStep
    BY <1>0, <1>4 DEF ViewStep, TokenizerStep, SamplingStep
  <1>5. CASE Ended
    BY <1>0, <1>5 DEF Ended, textVars, viewVars, registryVars, ggufVars
  <1> QED
    BY <1>1, <1>2, <1>3, <1>4, <1>5 DEF TextNext

\* What the registry accepts can be looked at: when a model opens, every call on
\* every semantic of the table that names a binding, an expert or a member it
\* has, in an order it is stored in, is granted.  The geometry that the entry
\* points of kq_tensor_view.c check again follows from the names, shapes and
\* types kq_model.c has compared, for every file and topology.
THEOREM RegisteredTensorsAreViewable == TextSpec => RegisteredTensorsViewable
  <1> DEFINE Viewable == \A c \in Calls :
                           \A s \in {Registry[c.semantic]} :
                             Legitimate(s, c) => ViewRefusal(s, c) = "OK"
  <1>1. ASSUME TextInvariant, Explained, [TextNext]_textVars, Opening
        PROVE  Viewable
    <2>1. stage = "registry" /\ model.registered = Len(Registry)
      BY <1>1, OpensComplete
    <2>2. FileInvariant /\ stage \in Opened /\ SoFar
      BY <1>1, <2>1 DEF TextInvariant, Explained, Opened
    <2> QED
      BY <2>1, <2>2, ViewPasses
  <1> HIDE DEF Viewable
  <1>2. TextInvariant /\ Explained /\ [TextNext]_textVars => [Opening => Viewable]_viewVars
    BY <1>1
  <1> QED
    BY <1>2, TextInvariantHolds, ExplainedHolds, PTL
       DEF TextSpec, RegisteredTensorsViewable, Viewable
-----------------------------------------------------------------------------
(* Running sums.                                                           *)

\* A function that adds up the values of another from one argument on.
Adds(f, g, a, b) == f[a] = 0 /\ \A k \in a + 1..b : f[k] = f[k - 1] + g[k]

\* What such a function unfolds to.
Summed(f, g, a, b) == f = [k \in a..b |-> IF k = a THEN 0 ELSE f[k - 1] + g[k]]

\* A running sum exists: the recursive definition has a solution on every
\* interval.
LEMMA SumExists ==
    ASSUME NEW a \in Int, NEW n \in Nat, NEW g
    PROVE  \E f : Summed(f, g, a, a + n)
  <1> DEFINE without == {k \in 0..n : ~\E f : Summed(f, g, a, a + k)}
  <1>1. SUFFICES ASSUME without # {} PROVE FALSE
    <2>1. n \in 0..n
      OBVIOUS
    <2> QED
      BY <2>1
  <1>2. PICK k \in without : \A j \in without : k <= j
    <2>1. without \in SUBSET Nat
      OBVIOUS
    <2> HIDE DEF without
    <2> QED
      BY <1>1, <2>1, Least
  <1>3. k \in 0..n /\ ~\E f : Summed(f, g, a, a + k)
    OBVIOUS
  <1>4. CASE k = 0
    <2> DEFINE f == [j \in a..a |-> 0]
    <2>1. Summed(f, g, a, a + 0)
      BY DEF Summed
    <2> QED
      BY <1>3, <1>4, <2>1
  <1>5. CASE k # 0
    <2>1. k - 1 \in 0..n /\ ~(k <= k - 1)
      BY <1>3, <1>5
    <2>2. k - 1 \notin without
      <3> HIDE DEF without
      <3> QED
        BY <1>2, <2>1
    <2>3. PICK f : Summed(f, g, a, a + (k - 1))
      BY <2>1, <2>2
    <2> DEFINE c == a + k
               h == [j \in a..c |-> IF j = c THEN f[c - 1] + g[c] ELSE f[j]]
    <2>4. c \in Int /\ a <= c - 1 /\ c - 1 = a + (k - 1)
      BY <1>3, <1>5
    <2> HIDE DEF c
    <2>5. \A j \in a..c - 1 : f[j] = IF j = a THEN 0 ELSE f[j - 1] + g[j]
      BY <2>3, <2>4 DEF Summed
    <2>6. h = [j \in a..c |-> h[j]] /\ h[c] = f[c - 1] + g[c] /\ \A j \in a..c - 1 : h[j] = f[j]
      BY <2>4
    <2> HIDE DEF h
    <2>7. ASSUME NEW j \in a..c PROVE h[j] = IF j = a THEN 0 ELSE h[j - 1] + g[j]
      <3>1. CASE j = c
        <4>1. c - 1 \in a..c - 1 /\ j # a
          BY <2>4, <3>1
        <4> QED
          BY <2>6, <3>1, <4>1
      <3>2. CASE j # c
        <4>1. j \in a..c - 1 /\ (j # a => j - 1 \in a..c - 1)
          BY <2>4, <3>2
        <4> QED
          BY <2>5, <2>6, <4>1
      <3> QED
        BY <3>1, <3>2
    <2>8. Summed(h, g, a, c)
      BY <2>6, <2>7, Zenon DEF Summed
    <2> QED
      BY <1>3, <2>8 DEF c
  <1> QED
    BY <1>4, <1>5

\* What it is a solution of: nothing at the first place, and at each other
\* place what the place before had and one more addend.
LEMMA SummedAdds ==
    ASSUME NEW a \in Int, NEW n \in Nat, NEW g, NEW f, Summed(f, g, a, a + n)
    PROVE  Adds(f, g, a, a + n)
  <1> DEFINE b == a + n
  <1>1. b \in Int /\ a \in a..b
    OBVIOUS
  <1>2. Summed(f, g, a, b)
    OBVIOUS
  <1> HIDE DEF b
  <1>3. \A k \in a..b : f[k] = IF k = a THEN 0 ELSE f[k - 1] + g[k]
    BY <1>2 DEF Summed
  <1>4. \A k \in a + 1..b : k \in a..b /\ k # a
    BY <1>1
  <1>5. Adds(f, g, a, b)
    BY <1>1, <1>3, <1>4 DEF Adds
  <1> QED
    BY <1>5 DEF b

\* Two of them agree as far as both go.
LEMMA SumsAgree ==
    ASSUME NEW a \in Int, NEW b \in Int, NEW c \in Int, NEW g, NEW f, NEW h,
           Adds(f, g, a, b), Adds(h, g, a, c), NEW n \in Nat, a + n <= b, a + n <= c
    PROVE  f[a + n] = h[a + n]
  <1> DEFINE differ == {k \in 0..n : f[a + k] # h[a + k]}
  <1>1. SUFFICES ASSUME differ # {} PROVE FALSE
    <2>1. n \in 0..n
      OBVIOUS
    <2> QED
      BY <2>1
  <1>2. PICK k \in differ : \A j \in differ : k <= j
    <2>1. differ \in SUBSET Nat
      OBVIOUS
    <2> HIDE DEF differ
    <2> QED
      BY <1>1, <2>1, Least
  <1>3. k \in 0..n /\ f[a + k] # h[a + k]
    OBVIOUS
  <1>4. k # 0
    <2>1. f[a] = 0 /\ h[a] = 0
      BY DEF Adds
    <2>2. a + 0 = a
      OBVIOUS
    <2> QED
      BY <1>3, <2>1, <2>2
  <1>5. k - 1 \in 0..n /\ ~(k <= k - 1)
    BY <1>3, <1>4
  <1>6. k - 1 \notin differ
    <2> HIDE DEF differ
    <2> QED
      BY <1>2, <1>5
  <1>7. f[a + (k - 1)] = h[a + (k - 1)]
    BY <1>5, <1>6
  <1>8. a + k \in a + 1..b /\ a + k \in a + 1..c /\ (a + k) - 1 = a + (k - 1)
    BY <1>3, <1>4
  <1>9. f[a + k] = f[(a + k) - 1] + g[a + k] /\ h[a + k] = h[(a + k) - 1] + g[a + k]
    BY <1>8 DEF Adds
  <1> QED
    BY <1>3, <1>7, <1>8, <1>9

\* The total of the weights of the ids under n.
LEMMA TotalSum ==
    ASSUME NEW weights, NEW n \in Nat
    PROVE  \E f : Adds(f, [k \in Nat |-> weights[k - 1]], 0, n) /\ Total(weights, n) = f[n]
  <1> DEFINE g == [k \in Nat |-> weights[k - 1]]
             Fits(f) == f = [k \in 0..n |-> IF k = 0 THEN 0 ELSE f[k - 1] + weights[k - 1]]
             f == CHOOSE h : Fits(h)
  <1>0. 0 \in Int
    OBVIOUS
  <1>2. ASSUME NEW k \in 0..n, k # 0 PROVE g[k] = weights[k - 1]
    OBVIOUS
  <1>1. PICK h : Summed(h, g, 0, 0 + n)
    <2> HIDE DEF g
    <2> QED
      BY <1>0, SumExists
  <1>3. Fits(h)
    <2> HIDE DEF g
    <2>1. h = [k \in 0..n |-> IF k = 0 THEN 0 ELSE h[k - 1] + g[k]]
      BY <1>1 DEF Summed
    <2> QED
      BY <1>2, <2>1
  <1>4. Fits(f)
    BY <1>3
  <1>5. Total(weights, n) = f[n]
    BY Zenon DEF Total
  <1> HIDE DEF f
  <1>6. Summed(f, g, 0, 0 + n)
    <2>1. f = [k \in 0..n |-> IF k = 0 THEN 0 ELSE f[k - 1] + weights[k - 1]]
      BY <1>4
    <2> HIDE DEF g
    <2>2. f = [k \in 0..n |-> IF k = 0 THEN 0 ELSE f[k - 1] + g[k]]
      BY <1>2, <2>1
    <2> QED
      BY <2>2 DEF Summed
  <1> HIDE DEF g
  <1>7. Adds(f, g, 0, 0 + n)
    BY <1>0, <1>6, SummedAdds
  <1>8. Adds(f, g, 0, n)
    BY <1>7
  <1> QED
    BY <1>5, <1>8 DEF g

\* Id by id.
LEMMA TotalStep ==
    ASSUME NEW weights
    PROVE  /\ Total(weights, 0) = 0
           /\ \A n \in Nat : Total(weights, n + 1) = Total(weights, n) + weights[n]
  <1> DEFINE g == [k \in Nat |-> weights[k - 1]]
  <1>1. Total(weights, 0) = 0
    <2>1. PICK f : Adds(f, g, 0, 0) /\ Total(weights, 0) = f[0]
      BY TotalSum
    <2> QED
      BY <2>1 DEF Adds
  <1>2. ASSUME NEW n \in Nat PROVE Total(weights, n + 1) = Total(weights, n) + weights[n]
    <2>1. n + 1 \in Nat /\ (n + 1) - 1 = n /\ 0 + n = n /\ n <= n + 1 /\ n + 1 \in 0 + 1..n + 1
      OBVIOUS
    <2>2. g[n + 1] = weights[n]
      BY <2>1
    <2>3. PICK f : Adds(f, g, 0, n) /\ Total(weights, n) = f[n]
      BY TotalSum
    <2>4. PICK h : Adds(h, g, 0, n + 1) /\ Total(weights, n + 1) = h[n + 1]
      BY <2>1, TotalSum
    <2> HIDE DEF g
    <2>5. f[0 + n] = h[0 + n]
      BY <2>3, <2>4, SumsAgree
    <2>6. h[n + 1] = h[(n + 1) - 1] + g[n + 1]
      BY <2>1, <2>4 DEF Adds
    <2> QED
      BY <2>1, <2>2, <2>3, <2>4, <2>5, <2>6
  <1> QED
    BY <1>1, <1>2

PlaceWeights(weights, order) == [k \in Int |-> weights[order[k]]]

\* The weight of the places from a to b, a place further each time.
LEMMA MassSum ==
    ASSUME NEW weights, NEW order, NEW a \in Int, NEW b \in Int, a - 1 <= b
    PROVE  \E f : /\ Adds(f, PlaceWeights(weights, order), a - 1, b)
                  /\ Mass(weights, order, a, b) = f[b]
  <1> DEFINE g == PlaceWeights(weights, order)
             n == b - (a - 1)
             Fits(f) == f = [k \in a - 1..b |->
                               IF k = a - 1 THEN 0 ELSE f[k - 1] + weights[order[k]]]
             f == CHOOSE h : Fits(h)
  <1>0. a - 1 \in Int /\ n \in Nat /\ a - 1 + n = b
    OBVIOUS
  <1>2. \A k \in a - 1..b : g[k] = weights[order[k]]
    BY DEF PlaceWeights
  <1> HIDE DEF g, n
  <1>1. PICK h : Summed(h, g, a - 1, b)
    <2>1. \E h : Summed(h, g, a - 1, a - 1 + n)
      BY <1>0, SumExists
    <2> QED
      BY <1>0, <2>1
  <1>3. Fits(h)
    <2>1. h = [k \in a - 1..b |-> IF k = a - 1 THEN 0 ELSE h[k - 1] + g[k]]
      BY <1>1 DEF Summed
    <2> QED
      BY <1>2, <2>1
  <1>4. Fits(f)
    BY <1>3
  <1>5. Mass(weights, order, a, b) = f[b]
    BY Zenon DEF Mass
  <1> HIDE DEF f
  <1>6. Summed(f, g, a - 1, a - 1 + n)
    <2>1. f = [k \in a - 1..b |-> IF k = a - 1 THEN 0 ELSE f[k - 1] + weights[order[k]]]
      BY <1>4
    <2>2. f = [k \in a - 1..b |-> IF k = a - 1 THEN 0 ELSE f[k - 1] + g[k]]
      BY <1>2, <2>1
    <2> QED
      BY <1>0, <2>2 DEF Summed
  <1>7. Adds(f, g, a - 1, a - 1 + n)
    BY <1>0, <1>6, SummedAdds
  <1>8. Adds(f, g, a - 1, b)
    BY <1>0, <1>7
  <1> QED
    BY <1>5, <1>8 DEF g

\* The mass of no place is 0, and one more place adds the weight of its id.
LEMMA MassStep ==
    ASSUME NEW weights, NEW order, NEW a \in Int
    PROVE  /\ Mass(weights, order, a, a - 1) = 0
           /\ \A k \in Int : k >= a => Mass(weights, order, a, k)
                                         = Mass(weights, order, a, k - 1) + weights[order[k]]
  <1> DEFINE g == PlaceWeights(weights, order)
             c == a - 1
  <1>0. c \in Int /\ c <= c
    OBVIOUS
  <1>1. Mass(weights, order, a, a - 1) = 0
    <2>1. PICK f : Adds(f, g, a - 1, c) /\ Mass(weights, order, a, c) = f[c]
      BY <1>0, MassSum
    <2> QED
      BY <2>1 DEF Adds
  <1>2. ASSUME NEW k \in Int, k >= a
        PROVE  Mass(weights, order, a, k) = Mass(weights, order, a, k - 1) + weights[order[k]]
    <2> DEFINE j == k - 1
               n == k - a
    <2>1. j \in Int /\ a - 1 <= j /\ a - 1 <= k
      BY <1>2
    <2>2. g[k] = weights[order[k]]
      BY DEF PlaceWeights
    <2> HIDE DEF g, j
    <2>3. PICK f : Adds(f, g, a - 1, j) /\ Mass(weights, order, a, j) = f[j]
      BY <2>1, MassSum DEF g
    <2>4. PICK h : Adds(h, g, a - 1, k) /\ Mass(weights, order, a, k) = h[k]
      BY <2>1, MassSum DEF g
    <2>5. n \in Nat /\ c + n = j /\ c + n <= j /\ c + n <= k /\ k \in c + 1..k /\ k - 1 = j
      BY <1>2 DEF j
    <2>6. f[j] = h[j]
      <3> HIDE DEF n
      <3>1. Adds(f, g, c, j) /\ Adds(h, g, c, k)
        BY <2>3, <2>4
      <3> HIDE DEF c
      <3>2. f[c + n] = h[c + n]
        BY <1>0, <2>1, <2>5, <3>1, SumsAgree
      <3> QED
        BY <2>5, <3>2
    <2>7. h[k] = h[j] + g[k]
      BY <2>4, <2>5 DEF Adds
    <2> QED
      BY <2>2, <2>3, <2>4, <2>6, <2>7 DEF j
  <1> QED
    BY <1>1, <1>2

-----------------------------------------------------------------------------
(* Totals of weights.                                                      *)

Weighs(weights) == \A i \in TokenIds : weights[i] \in Nat

\* The sizes, and the ids as an initial segment of the numbers.
LEMMA SizesAreNatural ==
    /\ Vocabulary32 \in Nat \ {0} /\ Words \in Nat \ {0}
    /\ TokenIds = 0..Vocabulary32 - 1 /\ TokenIds \in SUBSET Nat
    /\ IsFiniteSet(TokenIds) /\ Cardinality(TokenIds) = Vocabulary32
  <1>1. Vocabulary32 \in Nat \ {0} /\ Words \in Nat \ {0}
    BY SamplingAssumption
  <1>2. TokenIds = 0..Vocabulary32 - 1
    BY DEF TokenIds
  <1>3. IsFiniteSet(0..Vocabulary32 - 1) /\ Cardinality(0..Vocabulary32 - 1) = Vocabulary32
    <2> DEFINE a == 0
               b == Vocabulary32 - 1
    <2>1. a \in Int /\ b \in Int /\ ~(a > b) /\ b - a + 1 = Vocabulary32
      BY <1>1
    <2>2. /\ IsFiniteSet(a..b)
          /\ Cardinality(a..b) = IF a > b THEN 0 ELSE b - a + 1
      <3> HIDE DEF a, b
      <3> QED
        BY <2>1, FS_Interval
    <2> QED
      BY <2>1, <2>2
  <1> QED
    BY <1>1, <1>2, <1>3

\* A total is a natural number, and no less than one of fewer ids.
LEMMA TotalTyped ==
    ASSUME NEW weights, Weighs(weights)
    PROVE  \A n \in 0..Vocabulary32 : Total(weights, n) \in Nat
  <1> DEFINE wrong == {n \in 0..Vocabulary32 : Total(weights, n) \notin Nat}
  <1>0. Vocabulary32 \in Nat
    BY SizesAreNatural
  <1>1. SUFFICES ASSUME wrong # {} PROVE FALSE
    OBVIOUS
  <1>2. PICK n \in wrong : \A m \in wrong : n <= m
    <2>1. wrong \in SUBSET Nat
      BY <1>0
    <2> HIDE DEF wrong
    <2> QED
      BY <1>1, <2>1, Least
  <1>3. n \in 0..Vocabulary32 /\ Total(weights, n) \notin Nat
    OBVIOUS
  <1>4. n # 0
    BY <1>3, TotalStep
  <1> DEFINE m == n - 1
  <1>5. m \in 0..Vocabulary32 /\ m \in TokenIds /\ m \in Nat /\ m + 1 = n /\ ~(n <= m)
    BY <1>0, <1>3, <1>4 DEF TokenIds
  <1> HIDE DEF m
  <1>6. Total(weights, m) \in Nat
    BY <1>2, <1>5
  <1>7. Total(weights, n) = Total(weights, m) + weights[m]
    BY <1>5, TotalStep
  <1> QED
    BY <1>3, <1>5, <1>6, <1>7 DEF Weighs

\* More ids weigh no less.
LEMMA TotalGrows ==
    ASSUME NEW weights, Weighs(weights), NEW n \in 0..Vocabulary32, NEW m \in 0..n
    PROVE  Total(weights, m) <= Total(weights, n)
  <1> DEFINE wrong == {k \in m..n : ~(Total(weights, m) <= Total(weights, k))}
  <1>0. Vocabulary32 \in Nat /\ m \in Nat /\ n \in Nat
    BY SizesAreNatural
  <1>1. SUFFICES ASSUME wrong # {} PROVE FALSE
    <2>1. n \in m..n
      BY <1>0
    <2> QED
      BY <2>1
  <1>2. PICK k \in wrong : \A j \in wrong : k <= j
    <2>1. wrong \in SUBSET Nat
      BY <1>0
    <2> HIDE DEF wrong
    <2> QED
      BY <1>1, <2>1, Least
  <1>3. k \in m..n /\ ~(Total(weights, m) <= Total(weights, k))
    OBVIOUS
  <1>4. k # m
    <2>1. Total(weights, m) \in Nat
      BY <1>0, TotalTyped
    <2> QED
      BY <1>3, <2>1
  <1> DEFINE j == k - 1
  <1>5. /\ j \in m..n /\ j \in TokenIds /\ j \in Nat /\ j + 1 = k /\ ~(k <= j)
        /\ j \in 0..Vocabulary32 /\ k \in 0..Vocabulary32 /\ m \in 0..Vocabulary32
    BY <1>0, <1>3, <1>4 DEF TokenIds
  <1> HIDE DEF j
  <1>6. Total(weights, m) <= Total(weights, j)
    BY <1>2, <1>5
  <1>7. Total(weights, k) = Total(weights, j) + weights[j]
    BY <1>5, TotalStep
  <1>8. Total(weights, m) \in Nat /\ Total(weights, j) \in Nat /\ weights[j] \in Nat
    BY <1>5, TotalTyped DEF Weighs
  <1> QED
    BY <1>3, <1>6, <1>7, <1>8

\* The last id under n that adds anything has the total of those under n.
LEMMA LastAdding ==
    ASSUME NEW weights, Weighs(weights), NEW n \in 0..Vocabulary32, Total(weights, n) > 0
    PROVE  \E i \in 0..n - 1 : weights[i] > 0 /\ Total(weights, i + 1) = Total(weights, n)
  <1> DEFINE same == {i \in 0..n - 1 : Total(weights, i + 1) = Total(weights, n)}
  <1>0. Vocabulary32 \in Nat /\ n \in Nat /\ Total(weights, 0) = 0
    BY SizesAreNatural, TotalStep
  <1>1. n # 0
    BY <1>0
  <1>2. n - 1 \in same
    <2>1. n - 1 \in 0..n - 1 /\ (n - 1) + 1 = n
      BY <1>0, <1>1
    <2> QED
      BY <2>1
  <1>3. PICK i \in same : \A j \in same : i <= j
    <2>1. same \in SUBSET Nat
      BY <1>0
    <2> HIDE DEF same
    <2> QED
      BY <1>2, <2>1, Least
  <1>4. i \in 0..n - 1 /\ Total(weights, i + 1) = Total(weights, n)
    OBVIOUS
  <1>5. i \in Nat /\ i \in TokenIds /\ i \in 0..Vocabulary32
    BY <1>0, <1>4 DEF TokenIds
  <1>6. Total(weights, i + 1) = Total(weights, i) + weights[i] /\ weights[i] \in Nat
        /\ Total(weights, i) \in Nat
    BY <1>5, TotalStep, TotalTyped DEF Weighs
  <1>7. weights[i] # 0
    <2>1. SUFFICES ASSUME weights[i] = 0 PROVE FALSE
      OBVIOUS
    <2>2. Total(weights, i) = Total(weights, n)
      BY <1>4, <1>6, <2>1
    <2>3. i # 0
      BY <1>0, <2>2
    <2> DEFINE j == i - 1
    <2>4. j \in 0..n - 1 /\ j + 1 = i /\ ~(i <= j)
      BY <1>0, <1>4, <2>3
    <2>5. j \in same
      <3> HIDE DEF j
      <3> QED
        BY <2>2, <2>4
    <2> HIDE DEF j, same
    <2> QED
      BY <1>3, <2>4, <2>5
  <1> QED
    BY <1>4, <1>6, <1>7
-----------------------------------------------------------------------------
(* The words of an id.                                                     *)

\* The words of the id i are those whose share lies in its own part.
Owns(weights, i, w) ==
    LET total == Total(weights, Vocabulary32)
    IN  Total(weights, i) * Words <= w * total /\ w * total < Total(weights, i + 1) * Words

\* Multiplying keeps an order.
LEMMA ProductsOrdered ==
    ASSUME NEW a \in Nat, NEW b \in Nat, NEW c \in Nat, a <= b
    PROVE  a * c <= b * c
  <1>1. PICK d \in Nat : b = a + d
    BY (b - a) + a = b
  <1>2. b * c = a * c + d * c
    BY <1>1
  <1>3. d * c \in Nat /\ a * c \in Nat
    OBVIOUS
  <1> QED
    BY <1>2, <1>3

\* A strict order survives a factor that is not 0.
LEMMA ProductsStrict ==
    ASSUME NEW a \in Nat, NEW b \in Nat, NEW c \in Nat \ {0}, a < b
    PROVE  a * c < b * c
  <1>1. (a + 1) * c <= b * c
    <2>1. a + 1 \in Nat /\ a + 1 <= b /\ c \in Nat
      OBVIOUS
    <2> QED
      BY <2>1, ProductsOrdered
  <1>2. (a + 1) * c = a * c + c /\ a * c \in Nat
    OBVIOUS
  <1>3. b * c \in Nat
    OBVIOUS
  <1> QED
    BY <1>1, <1>2, <1>3

\* An id is taken by no word that lies under its part.
LEMMA TakenIsOwned ==
    ASSUME NEW weights, Weighs(weights), NEW w \in 0..Words - 1,
           Total(weights, Vocabulary32) > 0, NEW i \in TokenIds
    PROVE  Categorical(weights, w) = i <=> Owns(weights, i, w)
  <1> DEFINE total == Total(weights, Vocabulary32)
             share == w * total
             T(j) == Total(weights, j)
             takes(j) == weights[j] > 0 /\ share < T(j + 1) * Words
             first(j) == takes(j) /\ \A k \in 0..j - 1 : ~takes(k)
             chosen == CHOOSE j \in TokenIds : first(j)
  <1>0. /\ Vocabulary32 \in Nat \ {0} /\ Words \in Nat \ {0} /\ total \in Nat \ {0}
        /\ w \in Nat /\ w < Words /\ TokenIds \in SUBSET Nat
    <2>1. Vocabulary32 \in 0..Vocabulary32
      BY SizesAreNatural
    <2>2. total \in Nat
      BY <2>1, TotalTyped
    <2> QED
      BY <2>2, SizesAreNatural
  <1>1. Categorical(weights, w) = chosen
    BY Zenon DEF Categorical
  <1>2. ASSUME NEW j \in TokenIds
        PROVE  /\ T(j) \in Nat /\ T(j + 1) \in Nat /\ T(j + 1) = T(j) + weights[j]
               /\ weights[j] \in Nat /\ T(j + 1) <= total
               /\ j \in 0..Vocabulary32 /\ j + 1 \in 0..Vocabulary32
    <2>1. j \in Nat /\ j \in 0..Vocabulary32 /\ j + 1 \in 0..Vocabulary32
          /\ Vocabulary32 \in 0..Vocabulary32
      BY <1>0 DEF TokenIds
    <2>2. T(j) \in Nat /\ T(j + 1) \in Nat
      BY <2>1, TotalTyped
    <2>3. T(j + 1) = T(j) + weights[j]
      BY <2>1, TotalStep
    <2>4. T(j + 1) <= total
      BY <2>1, TotalGrows
    <2> QED
      BY <2>1, <2>2, <2>3, <2>4 DEF Weighs
  <1>3. share \in Nat /\ share < total * Words
    <2>1. w * total < Words * total
      <3> HIDE DEF total
      <3> QED
        BY <1>0, ProductsStrict
    <2> HIDE DEF total
    <2>2. Words * total = total * Words /\ w * total \in Nat
      BY <1>0
    <2> QED
      BY <2>1, <2>2
  <1> HIDE DEF share, total
  \* The first id that is taken owns the word.
  <1>4. ASSUME NEW j \in TokenIds, first(j)
        PROVE  T(j) * Words <= share /\ share < T(j + 1) * Words
    <2>1. SUFFICES ASSUME ~(T(j) * Words <= share) PROVE FALSE
      BY <1>4
    <2>2. T(j) \in Nat /\ j \in Nat /\ j \in 0..Vocabulary32
      BY <1>0, <1>2
    <2>3. T(j) # 0 /\ share < T(j) * Words
      <3> DEFINE x == T(j)
      <3>1. x \in Nat /\ ~(x * Words <= share)
        BY <2>1, <2>2
      <3> HIDE DEF x
      <3>2. x # 0
        BY <1>0, <1>3, <3>1
      <3>3. x * Words \in Nat
        BY <1>0, <3>1
      <3> QED
        BY <1>3, <3>1, <3>2, <3>3 DEF x
    <2>4. PICK k \in 0..j - 1 : weights[k] > 0 /\ T(k + 1) = T(j)
      <3>1. T(j) > 0
        BY <2>2, <2>3
      <3> QED
        BY <2>2, <3>1, LastAdding
    <2>5. takes(k)
      BY <2>3, <2>4
    <2> QED
      BY <1>4, <2>4, <2>5
  \* And whatever owns it is the first.
  <1>5. ASSUME NEW j \in TokenIds, T(j) * Words <= share, share < T(j + 1) * Words
        PROVE  first(j)
    <2>1. weights[j] > 0
      <3>1. SUFFICES ASSUME weights[j] = 0 PROVE FALSE
        BY <1>2
      <3>2. T(j + 1) = T(j) /\ T(j) \in Nat
        BY <1>2, <3>1
      <3> DEFINE x == T(j) * Words
      <3>3. x \in Nat
        BY <1>0, <3>2
      <3>4. x <= share /\ share < x
        BY <1>5, <3>2
      <3> HIDE DEF x
      <3> QED
        BY <1>3, <3>3, <3>4
    <2>2. ASSUME NEW k \in 0..j - 1 PROVE ~takes(k)
      <3>1. k \in TokenIds /\ k + 1 \in 0..j /\ j \in 0..Vocabulary32 /\ j \in Nat
        BY <1>0 DEF TokenIds
      <3>2. T(k + 1) <= T(j) /\ T(k + 1) \in Nat /\ T(j) \in Nat
        BY <1>2, <3>1, TotalGrows
      <3>3. T(k + 1) * Words <= T(j) * Words
        <4> DEFINE x == T(k + 1)
                   y == T(j)
        <4>1. x \in Nat /\ y \in Nat /\ x <= y /\ Words \in Nat
          BY <1>0, <3>2
        <4> HIDE DEF x, y
        <4>2. x * Words <= y * Words
          BY <4>1, ProductsOrdered
        <4> QED
          BY <4>2 DEF x, y
      <3> DEFINE x == T(k + 1) * Words
                 y == T(j) * Words
      <3>4. x \in Nat /\ y \in Nat /\ x <= y /\ y <= share
        BY <1>0, <1>5, <3>2, <3>3
      <3>5. ~(share < x)
        <4> HIDE DEF x, y
        <4> QED
          BY <1>3, <3>4
      <3> QED
        BY <3>5
    <2> QED
      BY <1>5, <2>1, <2>2
  \* There is a first.
  <1>6. \E j \in TokenIds : first(j)
    <2> DEFINE taken == {j \in TokenIds : takes(j)}
    <2>1. PICK j \in 0..Vocabulary32 - 1 : weights[j] > 0 /\ T(j + 1) = total
      <3>1. Vocabulary32 \in 0..Vocabulary32
        BY <1>0
      <3> QED
        BY <3>1, LastAdding DEF total
    <2>2. j \in taken
      <3>1. j \in TokenIds
        BY DEF TokenIds
      <3> QED
        BY <1>3, <2>1, <3>1
    <2>3. PICK k \in taken : \A l \in taken : k <= l
      <3>1. taken \in SUBSET Nat
        BY <1>0
      <3> HIDE DEF taken
      <3> QED
        BY <2>2, <3>1, Least
    <2>4. ASSUME NEW l \in 0..k - 1 PROVE ~takes(l)
      <3>1. l \in TokenIds /\ ~(k <= l)
        BY <1>0, <2>3 DEF TokenIds
      <3>2. l \notin taken
        <4> HIDE DEF taken
        <4> QED
          BY <2>3, <3>1
      <3> HIDE DEF takes
      <3> QED
        BY <3>1, <3>2
    <2>5. k \in TokenIds /\ takes(k)
      OBVIOUS
    <2> HIDE DEF takes, taken
    <2> QED
      BY <2>4, <2>5
  \* And only one.
  <1>7. ASSUME NEW j \in TokenIds, NEW k \in TokenIds, first(j), first(k) PROVE j = k
    <2>1. j \in Nat /\ k \in Nat
      BY <1>0
    <2>2. takes(j) /\ takes(k) /\ (\A l \in 0..j - 1 : ~takes(l)) /\ \A l \in 0..k - 1 : ~takes(l)
      BY <1>7
    <2> HIDE DEF takes
    <2>3. j \notin 0..k - 1 /\ k \notin 0..j - 1
      BY <2>2
    <2> QED
      BY <2>1, <2>3
  <1>8. Owns(weights, i, w) <=> T(i) * Words <= share /\ share < T(i + 1) * Words
    BY DEF Owns, share, total
  <1>9. first(i) <=> Owns(weights, i, w)
    <2> HIDE DEF first, T
    <2> QED
      BY <1>4, <1>5, <1>8
  <1>10. chosen \in TokenIds /\ first(chosen)
    <2> HIDE DEF first
    <2> QED
      BY <1>6
  <1> HIDE DEF first, chosen
  <1>11. chosen = i <=> first(i)
    BY <1>7, <1>10
  <1> QED
    BY <1>1, <1>9, <1>11

-----------------------------------------------------------------------------

\* A number divided and rounded up.
LEMMA RoundsUp ==
    ASSUME NEW x \in Nat, NEW t \in Nat \ {0}
    PROVE  \E c \in Nat : /\ x <= c * t /\ c * t < x + t
                          /\ \A w \in Nat : x <= w * t <=> c <= w
  <1> DEFINE enough == {c \in Nat : x <= c * t}
  <1>1. x \in enough
    <2>1. 1 * x <= t * x
      <3>1. 1 \in Nat /\ t \in Nat /\ 1 <= t
        OBVIOUS
      <3> QED
        BY <3>1, ProductsOrdered
    <2>2. 1 * x = x /\ t * x = x * t
      OBVIOUS
    <2> QED
      BY <2>1, <2>2
  <1>2. PICK c \in enough : \A d \in enough : c <= d
    <2>1. enough \in SUBSET Nat
      OBVIOUS
    <2> HIDE DEF enough
    <2> QED
      BY <1>1, <2>1, Least
  <1>3. c \in Nat /\ x <= c * t
    OBVIOUS
  <1>4. c * t < x + t
    <2>1. CASE c = 0
      BY <2>1
    <2>2. CASE c # 0
      <3> DEFINE d == c - 1
      <3>1. d \in Nat /\ ~(c <= d) /\ c = d + 1
        BY <1>3, <2>2
      <3> HIDE DEF d
      <3>2. d \notin enough
        <4> HIDE DEF enough
        <4> QED
          BY <1>2, <3>1
      <3>3. ~(x <= d * t)
        BY <3>1, <3>2
      <3>4. (d + 1) * t = d * t + t /\ d * t \in Nat
        BY <3>1
      <3> QED
        BY <3>1, <3>3, <3>4
    <2> QED
      BY <2>1, <2>2
  <1>5. ASSUME NEW w \in Nat PROVE x <= w * t <=> c <= w
    <2>1. ASSUME x <= w * t PROVE c <= w
      <3>1. w \in enough
        BY <2>1
      <3> HIDE DEF enough
      <3> QED
        BY <1>2, <3>1
    <2>2. ASSUME c <= w PROVE x <= w * t
      <3>1. c * t <= w * t
        <4>1. t \in Nat
          OBVIOUS
        <4> QED
          BY <1>3, <2>2, <4>1, ProductsOrdered
      <3>2. c * t \in Nat /\ w * t \in Nat
        BY <1>3
      <3> QED
        BY <1>3, <3>1, <3>2
    <2> QED
      BY <2>1, <2>2
  <1> QED
    BY <1>3, <1>4, <1>5

\* How many multiples of t lie between two numbers, to within one.
LEMMA MultiplesBetween ==
    ASSUME NEW x \in Nat, NEW y \in Nat, x <= y, NEW t \in Nat \ {0}, NEW n \in Nat, y <= n * t,
           NEW S, S = {w \in 0..n - 1 : x <= w * t /\ w * t < y}
    PROVE  /\ Cardinality(S) \in Nat
           /\ Cardinality(S) * t < (y - x) + t /\ Cardinality(S) * t > (y - x) - t
  <1>1. PICK a \in Nat : /\ x <= a * t /\ a * t < x + t
                         /\ \A w \in Nat : x <= w * t <=> a <= w
    BY RoundsUp
  <1>2. PICK b \in Nat : /\ y <= b * t /\ b * t < y + t
                         /\ \A w \in Nat : y <= w * t <=> b <= w
    BY RoundsUp
  <1>3. b <= n
    BY <1>2
  <1>4. a <= b
    <2>1. b * t \in Nat /\ x <= b * t
      <3>1. b * t \in Nat
        OBVIOUS
      <3> HIDE <1>1
      <3> QED
        BY <1>2, <3>1
    <2> QED
      BY <1>1, <2>1
  <1>5. S = a..b - 1
    <2>1. ASSUME NEW w \in Nat PROVE w * t < y <=> w < b
      <3>1. w * t \in Nat
        OBVIOUS
      <3>2. y <= w * t <=> b <= w
        BY <1>2
      <3> HIDE <1>1, <1>2
      <3> QED
        BY <3>1, <3>2
    <2>2. ASSUME NEW w PROVE w \in S <=> w \in a..b - 1
      <3>1. w \in S <=> w \in 0..n - 1 /\ x <= w * t /\ w * t < y
        OBVIOUS
      <3>2. w \in 0..n - 1 => w \in Nat
        OBVIOUS
      <3>3. w \in S <=> w \in 0..n - 1 /\ a <= w /\ w < b
        BY <1>1, <2>1, <3>1, <3>2
      <3>4. w \in 0..n - 1 /\ a <= w /\ w < b <=> w \in a..b - 1
        BY <1>3
      <3> QED
        BY <3>3, <3>4
    <2> QED
      BY <2>2
  <1>6. Cardinality(S) = b - a
    <2> DEFINE c == b - 1
    <2>1. a \in Int /\ c \in Int
      OBVIOUS
    <2>2. Cardinality(a..c) = IF a > c THEN 0 ELSE c - a + 1
      <3> HIDE DEF c
      <3> QED
        BY <2>1, FS_Interval
    <2>3. (IF a > c THEN 0 ELSE c - a + 1) = b - a
      BY <1>4
    <2> QED
      BY <1>5, <2>2, <2>3
  <1>7. (b - a) * t = b * t - a * t /\ b * t \in Nat /\ a * t \in Nat /\ b - a \in Nat
    BY <1>4
  <1> DEFINE p == a * t
             q == b * t
  <1>8. p \in Nat /\ q \in Nat /\ x <= p /\ p < x + t /\ y <= q /\ q < y + t
    BY <1>1, <1>2, <1>7
  <1>9. (b - a) * t = q - p
    BY <1>7
  <1> HIDE DEF p, q
  <1>10. q - p < (y - x) + t /\ q - p > (y - x) - t
    BY <1>8
  <1> QED
    BY <1>6, <1>7, <1>9, <1>10

\* Each id owns as many words as its weight asks for, to within one.
LEMMA SharesProportional ==
    ASSUME NEW weights, Weighs(weights), Total(weights, Vocabulary32) > 0, NEW i \in TokenIds,
           NEW owned, owned = {w \in 0..Words - 1 : Categorical(weights, w) = i},
           NEW total, total = Total(weights, Vocabulary32)
    PROVE  /\ Cardinality(owned) * total < weights[i] * Words + total
           /\ Cardinality(owned) * total > weights[i] * Words - total
  <1> DEFINE low  == Total(weights, i)
             high == Total(weights, i + 1)
             x == low * Words
             y == high * Words
  <1>1. /\ i \in Nat /\ i \in 0..Vocabulary32 /\ i + 1 \in 0..Vocabulary32
        /\ Vocabulary32 \in 0..Vocabulary32 /\ i \in 0..i + 1 /\ Words \in Nat
    BY SizesAreNatural
  <1>2. low \in Nat /\ high \in Nat /\ total \in Nat \ {0} /\ weights[i] \in Nat
        /\ high = low + weights[i] /\ low <= high /\ high <= total
    <2>1. low \in Nat /\ high \in Nat /\ total \in Nat /\ weights[i] \in Nat
      BY <1>1, TotalTyped DEF Weighs
    <2>2. high = low + weights[i]
      BY <1>1, TotalStep
    <2>3. high <= total
      BY <1>1, TotalGrows
    <2> HIDE DEF low, high
    <2> QED
      BY <2>1, <2>2, <2>3
  <1>3. owned = {w \in 0..Words - 1 : x <= w * total /\ w * total < y}
    <2>1. \A w \in 0..Words - 1 : Categorical(weights, w) = i <=> Owns(weights, i, w)
      BY TakenIsOwned
    <2> QED
      BY <2>1 DEF Owns
  <1> HIDE DEF low, high
  <1>4. x \in Nat /\ y \in Nat /\ y - x = weights[i] * Words
    <2>1. (low + weights[i]) * Words = low * Words + weights[i] * Words
          /\ low * Words \in Nat /\ weights[i] * Words \in Nat
      BY <1>1, <1>2
    <2> QED
      BY <1>2, <2>1
  <1>5. x <= y
    BY <1>1, <1>2, ProductsOrdered
  <1>6. y <= Words * total
    <2>1. high * Words <= total * Words
      BY <1>1, <1>2, ProductsOrdered
    <2>2. total * Words = Words * total
      BY <1>1, <1>2
    <2> QED
      BY <2>1, <2>2
  <1> HIDE DEF x, y
  <1>7. /\ Cardinality(owned) * total < (y - x) + total
        /\ Cardinality(owned) * total > (y - x) - total
    BY <1>1, <1>2, <1>3, <1>4, <1>5, <1>6, MultiplesBetween
  <1> QED
    BY <1>4, <1>7

-----------------------------------------------------------------------------
(* The order of the scores.                                                *)

Scored(scores) == \A i \in TokenIds : scores[i] \in Int

\* The order is total.
LEMMA LessIsTotal ==
    ASSUME NEW scores, Scored(scores)
    PROVE  /\ \A i \in TokenIds : ~Less(scores, i, i)
           /\ \A i, j \in TokenIds : Less(scores, i, j) => ~Less(scores, j, i)
           /\ \A i, j \in TokenIds : i = j \/ Less(scores, i, j) \/ Less(scores, j, i)
           /\ \A i, j, k \in TokenIds :
                Less(scores, i, j) /\ Less(scores, j, k) => Less(scores, i, k)
           /\ \A i, j \in TokenIds : scores[i] < scores[j] => Less(scores, i, j)
           /\ \A i, j \in TokenIds : Less(scores, i, j) => scores[i] <= scores[j]
  <1>1. \A i \in TokenIds : i \in Nat /\ scores[i] \in Int
    BY SizesAreNatural DEF Scored
  <1> QED
    BY <1>1 DEF Less

\* The ids under one.
Under(scores, i) == {j \in TokenIds : Less(scores, j, i)}

\* An id's rank, the number of ids under it, grows with the order.
LEMMA RankGrows ==
    ASSUME NEW scores, Scored(scores), NEW i \in TokenIds
    PROVE  /\ IsFiniteSet(Under(scores, i))
           /\ Cardinality(Under(scores, i)) \in 0..Vocabulary32 - 1
           /\ \A j \in TokenIds : Less(scores, i, j) =>
                Cardinality(Under(scores, i)) < Cardinality(Under(scores, j))
  <1>1. \A j \in TokenIds : IsFiniteSet(Under(scores, j)) /\ Cardinality(Under(scores, j)) \in Nat
    <2> SUFFICES ASSUME NEW j \in TokenIds
                 PROVE  IsFiniteSet(Under(scores, j)) /\ Cardinality(Under(scores, j)) \in Nat
      OBVIOUS
    <2>1. Under(scores, j) \in SUBSET TokenIds
      BY DEF Under
    <2>2. IsFiniteSet(Under(scores, j))
      BY <2>1, SizesAreNatural, FS_Subset
    <2> QED
      BY <2>2, FS_CardinalityType
  <1>2. \A j \in TokenIds : j \notin Under(scores, j)
    BY LessIsTotal DEF Under
  <1>3. Cardinality(Under(scores, i)) \in 0..Vocabulary32 - 1
    <2> DEFINE rest == TokenIds \ {i}
    <2>1. IsFiniteSet(rest) /\ Cardinality(rest) = Vocabulary32 - 1
      <3>1. IsFiniteSet(TokenIds) /\ Cardinality(TokenIds) = Vocabulary32
        BY SizesAreNatural
      <3>2. /\ IsFiniteSet(TokenIds \ {i})
            /\ Cardinality(TokenIds \ {i})
                 = IF i \in TokenIds THEN Cardinality(TokenIds) - 1 ELSE Cardinality(TokenIds)
        BY <3>1, FS_RemoveElement
      <3> QED
        BY <3>1, <3>2
    <2>2. Under(scores, i) \in SUBSET rest
      BY <1>2 DEF Under
    <2> HIDE DEF rest
    <2>3. Cardinality(Under(scores, i)) <= Cardinality(rest)
      BY <2>1, <2>2, FS_Subset
    <2> QED
      BY <1>1, <2>1, <2>3, SizesAreNatural
  <1>4. ASSUME NEW j \in TokenIds, Less(scores, i, j)
        PROVE  Cardinality(Under(scores, i)) < Cardinality(Under(scores, j))
    <2> DEFINE more == Under(scores, i) \cup {i}
    <2>1. Cardinality(more) = Cardinality(Under(scores, i)) + 1
      <3>1. i \notin Under(scores, i) /\ IsFiniteSet(Under(scores, i))
        BY <1>1, <1>2
      <3> QED
        BY <3>1, FS_AddElement
    <2>2. more \in SUBSET Under(scores, j)
      BY <1>4, LessIsTotal DEF Under
    <2> HIDE DEF more
    <2>3. Cardinality(more) <= Cardinality(Under(scores, j))
      BY <1>1, <2>2, FS_Subset
    <2> QED
      BY <1>1, <2>1, <2>3
  <1> QED
    BY <1>1, <1>3, <1>4

\* Sorting gives every id one place, lower ones to those under it.
Sorts(scores, order) ==
    /\ \A k \in 1..Vocabulary32 : order[k] \in TokenIds
    /\ \A i \in TokenIds : \E k \in 1..Vocabulary32 : order[k] = i
    /\ \A k, m \in 1..Vocabulary32 : Less(scores, order[k], order[m]) <=> k < m

\* The sort: each id has a place, each place an id, and places are in the
\* order of scores and, where they are equal, of ids.
LEMMA OrderSorts ==
    ASSUME NEW scores, Scored(scores)
    PROVE  Sorts(scores, Order(scores))
  <1> DEFINE V == Vocabulary32
             rank(i) == Cardinality(Under(scores, i))
             place == [i \in TokenIds |-> rank(i) + 1]
             order == Order(scores)
             At(k, i) == rank(i) = k - 1
  <1>0. V \in Nat \ {0} /\ IsFiniteSet(TokenIds) /\ Cardinality(TokenIds) = V
        /\ IsFiniteSet(1..V) /\ Cardinality(1..V) = V
    <2>1. V \in Nat \ {0} /\ IsFiniteSet(TokenIds) /\ Cardinality(TokenIds) = V
      BY SizesAreNatural
    <2> HIDE DEF V
    <2>2. 1 \in Int /\ V \in Int
      BY <2>1
    <2>3. IsFiniteSet(1..V) /\ Cardinality(1..V) = IF 1 > V THEN 0 ELSE V - 1 + 1
      BY <2>2, FS_Interval
    <2> QED
      BY <2>1, <2>3
  <1>1. \A i \in TokenIds : rank(i) \in 0..V - 1
    BY RankGrows
  <1>2. \A i, j \in TokenIds : Less(scores, i, j) => rank(i) < rank(j)
    BY RankGrows
  <1>3. \A i, j \in TokenIds : Less(scores, i, j) <=> rank(i) < rank(j)
    <2> SUFFICES ASSUME NEW i \in TokenIds, NEW j \in TokenIds, rank(i) < rank(j)
                 PROVE  Less(scores, i, j)
      BY <1>2
    <2>1. rank(i) \in Nat /\ rank(j) \in Nat
      BY <1>1
    <2>2. i # j /\ ~(rank(j) < rank(i))
      <3> HIDE DEF rank
      <3> QED
        BY <2>1
    <2>3. ~Less(scores, j, i)
      BY <1>2, <2>2
    <2> QED
      BY <2>2, <2>3, LessIsTotal
  <1>4. \A i, j \in TokenIds : rank(i) = rank(j) => i = j
    <2> SUFFICES ASSUME NEW i \in TokenIds, NEW j \in TokenIds, rank(i) = rank(j)
                 PROVE  i = j
      OBVIOUS
    <2>1. rank(i) \in Nat /\ rank(j) \in Nat
      BY <1>1
    <2> HIDE DEF rank
    <2>2. ~(rank(i) < rank(j)) /\ ~(rank(j) < rank(i))
      BY <2>1
    <2>3. ~Less(scores, i, j) /\ ~Less(scores, j, i)
      BY <1>3, <2>2
    <2> QED
      BY <2>3, LessIsTotal
  <1> HIDE DEF rank, V
  <1>5. place \in Injection(TokenIds, 1..V)
    <2>1. place \in [TokenIds -> 1..V]
      <3>1. \A i \in TokenIds : rank(i) + 1 \in 1..V
        BY <1>0, <1>1
      <3> QED
        BY <3>1
    <2>2. \A i, j \in TokenIds : place[i] = place[j] => i = j
      <3> SUFFICES ASSUME NEW i \in TokenIds, NEW j \in TokenIds, place[i] = place[j]
                   PROVE  i = j
        OBVIOUS
      <3>1. rank(i) + 1 = rank(j) + 1 /\ rank(i) \in Nat /\ rank(j) \in Nat
        BY <1>0, <1>1
      <3> QED
        BY <1>4, <3>1
    <2> HIDE DEF place
    <2> QED
      BY <2>1, <2>2 DEF Injection, IsInjective
  <1>6. place \in Surjection(TokenIds, 1..V)
    BY <1>0, <1>5, FS_Injection
  <1>7. ASSUME NEW k \in 1..V
        PROVE  order[k] \in TokenIds /\ rank(order[k]) = k - 1
    <2>1. \E i \in TokenIds : place[i] = k
      <3> HIDE DEF place
      <3> QED
        BY <1>6 DEF Surjection
    <2>2. PICK i \in TokenIds : rank(i) + 1 = k
      BY <2>1
    <2>3. At(k, i)
      BY <1>0, <1>1, <2>2
    <2>4. order[k] = CHOOSE j \in TokenIds : At(k, j)
      BY DEF Order, rank, Under, V
    <2> HIDE DEF order, At
    <2>5. order[k] \in TokenIds /\ At(k, order[k])
      BY <2>3, <2>4
    <2> QED
      BY <2>5 DEF At
  <1> HIDE DEF order
  <1>8. ASSUME NEW i \in TokenIds PROVE \E k \in 1..V : order[k] = i
    <2>1. rank(i) \in Nat /\ rank(i) + 1 \in 1..V /\ (rank(i) + 1) - 1 = rank(i)
      BY <1>0, <1>1
    <2>2. rank(order[rank(i) + 1]) = rank(i) /\ order[rank(i) + 1] \in TokenIds
      BY <1>7, <2>1
    <2>3. order[rank(i) + 1] = i
      BY <1>4, <2>2
    <2> QED
      BY <2>1, <2>3
  <1>9. ASSUME NEW k \in 1..V, NEW m \in 1..V
        PROVE  Less(scores, order[k], order[m]) <=> k < m
    <2>1. k - 1 < m - 1 <=> k < m
      BY <1>0
    <2>2. Less(scores, order[k], order[m]) <=> rank(order[k]) < rank(order[m])
      BY <1>3, <1>7
    <2> QED
      BY <1>7, <2>1, <2>2
  <1> QED
    BY <1>7, <1>8, <1>9 DEF Sorts, order, V

\* What follows: places and ids are the same, and scores ascend with places.
LEMMA PlacesAscend ==
    ASSUME NEW scores, Scored(scores), NEW order, Sorts(scores, order)
    PROVE  /\ \A k, m \in 1..Vocabulary32 : order[k] = order[m] => k = m
           /\ \A k, m \in 1..Vocabulary32 : k <= m => scores[order[k]] <= scores[order[m]]
  <1>0. Vocabulary32 \in Nat /\ \A k \in 1..Vocabulary32 : order[k] \in TokenIds
        /\ scores[order[k]] \in Int
    BY SizesAreNatural DEF Sorts, Scored
  <1>1. ASSUME NEW k \in 1..Vocabulary32, NEW m \in 1..Vocabulary32, order[k] = order[m]
        PROVE  k = m
    <2>1. ~Less(scores, order[k], order[m]) /\ ~Less(scores, order[m], order[k])
      BY <1>0, <1>1, LessIsTotal
    <2>2. ~(k < m) /\ ~(m < k)
      BY <2>1 DEF Sorts
    <2> QED
      BY <1>0, <2>2
  <1>2. ASSUME NEW k \in 1..Vocabulary32, NEW m \in 1..Vocabulary32, k <= m
        PROVE  scores[order[k]] <= scores[order[m]]
    <2>1. CASE k = m
      BY <1>0, <2>1
    <2>2. CASE k # m
      <3>1. k < m
        BY <1>0, <1>2, <2>2
      <3>2. Less(scores, order[k], order[m])
        BY <3>1 DEF Sorts
      <3> QED
        BY <1>0, <3>2, LessIsTotal
    <2> QED
      BY <2>1, <2>2
  <1> QED
    BY <1>1, <1>2

-----------------------------------------------------------------------------
(* The first places that are kept.                                         *)

\* The contract's first filter.
Above(scores, i) == {j \in TokenIds : scores[j] > scores[i]}

AmongTop(scores, i) == sampler.top_k = 0 \/ Cardinality(Above(scores, i)) < sampler.top_k

\* The least place at which something holds that holds at the last.
LEMMA FirstPlace ==
    ASSUME NEW n \in Nat \ {0}, NEW a \in 1..n, NEW S \in SUBSET (a..n), S # {}
    PROVE  \E k \in S : \A m \in a..k - 1 : m \notin S
  <1>1. S \in SUBSET Nat
    OBVIOUS
  <1>2. PICK k \in S : \A m \in S : k <= m
    BY <1>1, Least
  <1>3. ASSUME NEW m \in a..k - 1 PROVE m \notin S
    <2>1. ~(k <= m)
      BY <1>1
    <2> QED
      BY <1>2, <2>1
  <1> QED
    BY <1>3

\* Of the places from p on there are as many as ids of a score no lower.
LEMMA AtLeastCount ==
    ASSUME NEW scores, Scored(scores), NEW order, Sorts(scores, order),
           NEW p \in 1..Vocabulary32, NEW i \in TokenIds,
           scores[i] < scores[order[p]]
    PROVE  Cardinality(Above(scores, i)) >= Vocabulary32 - p + 1
  <1> DEFINE V == Vocabulary32
             f == [k \in p..V |-> order[k]]
             S == p..V
  <1>0. V \in Nat \ {0} /\ p \in Int /\ V \in Int /\ ~(p > V)
    BY SizesAreNatural
  <1>1. Cardinality(S) = V - p + 1
    <2> HIDE DEF V
    <2>1. Cardinality(p..V) = IF p > V THEN 0 ELSE V - p + 1
      BY <1>0, FS_Interval
    <2> QED
      BY <1>0, <2>1
  <1>2. IsFiniteSet(Above(scores, i)) /\ Cardinality(Above(scores, i)) \in Nat
    <2>1. Above(scores, i) \in SUBSET TokenIds /\ IsFiniteSet(TokenIds)
      BY SizesAreNatural DEF Above
    <2>2. IsFiniteSet(Above(scores, i))
      BY <2>1, FS_Subset
    <2> QED
      BY <2>2, FS_CardinalityType
  <1>3. f \in Injection(S, Above(scores, i))
    <2>1. ASSUME NEW k \in S PROVE f[k] \in Above(scores, i)
      <3>1. k \in 1..V /\ p <= k
        BY <1>0
      <3>2. scores[order[p]] <= scores[order[k]]
        BY <3>1, PlacesAscend
      <3>3. order[k] \in TokenIds /\ order[p] \in TokenIds
        BY <3>1 DEF Sorts
      <3>4. scores[order[k]] \in Int /\ scores[order[p]] \in Int /\ scores[i] \in Int
        BY <3>3 DEF Scored
      <3>5. scores[order[k]] > scores[i]
        BY <3>2, <3>4
      <3> QED
        BY <3>3, <3>5 DEF Above
    <2>2. ASSUME NEW k \in S, NEW m \in S, f[k] = f[m] PROVE k = m
      <3>1. k \in 1..V /\ m \in 1..V /\ order[k] = order[m]
        BY <1>0, <2>2
      <3> QED
        BY <3>1, PlacesAscend
    <2>3. f \in [S -> Above(scores, i)]
      BY <2>1
    <2> HIDE DEF f, S
    <2> QED
      BY <2>2, <2>3 DEF Injection, IsInjective
  <1> HIDE DEF f, S, V
  <1>4. Cardinality(S) <= Cardinality(Above(scores, i))
    BY <1>2, <1>3, FS_Injection
  <1> QED
    BY <1>0, <1>1, <1>2, <1>4 DEF V

\* If the score at a place is no higher than an id's, the ids with a higher score are
\* all behind that place.
LEMMA AtMostCount ==
    ASSUME NEW scores, Scored(scores), NEW order, Sorts(scores, order),
           NEW p \in 1..Vocabulary32, NEW i \in TokenIds,
           scores[order[p]] <= scores[i]
    PROVE  Cardinality(Above(scores, i)) <= Vocabulary32 - p
  <1> DEFINE V == Vocabulary32
             At(j, k) == k \in 1..V /\ order[k] = j
             place(j) == CHOOSE k : At(j, k)
             f == [j \in Above(scores, i) |-> place(j)]
             S == p + 1..V
  <1>0. V \in Nat \ {0} /\ p + 1 \in Int /\ V \in Int
    BY SizesAreNatural
  <1>1. IsFiniteSet(S) /\ Cardinality(S) = V - p
    <2> DEFINE q == p + 1
    <2>1. q \in Int /\ (IF q > V THEN 0 ELSE V - q + 1) = V - p
      BY <1>0
    <2> HIDE DEF V, q
    <2>2. IsFiniteSet(q..V) /\ Cardinality(q..V) = IF q > V THEN 0 ELSE V - q + 1
      BY <1>0, <2>1, FS_Interval
    <2> QED
      BY <2>1, <2>2 DEF q
  <1>2. ASSUME NEW j \in TokenIds PROVE At(j, place(j))
    <2>1. PICK k \in 1..V : order[k] = j
      BY DEF Sorts
    <2>2. At(j, k)
      BY <2>1
    <2> HIDE DEF At
    <2> QED
      BY <2>2
  <1>3. f \in Injection(Above(scores, i), S)
    <2>1. ASSUME NEW j \in Above(scores, i) PROVE f[j] \in S /\ order[f[j]] = j
      <3>1. j \in TokenIds /\ scores[j] > scores[i]
        BY DEF Above
      <3> DEFINE k == place(j)
      <3>2. k \in 1..V /\ order[k] = j
        BY <1>2, <3>1
      <3> HIDE DEF k
      <3>3. ~(k <= p)
        <4>1. scores[j] \in Int /\ scores[i] \in Int /\ scores[order[p]] \in Int
          BY <3>1 DEF Scored, Sorts
        <4>2. k <= p => scores[j] <= scores[order[p]]
          BY <3>2, PlacesAscend
        <4> QED
          BY <3>1, <4>1, <4>2
      <3>4. k \in S
        BY <1>0, <3>2, <3>3
      <3>5. f[j] = k
        BY DEF k
      <3> QED
        BY <3>2, <3>4, <3>5
    <2>2. f \in [Above(scores, i) -> S]
      BY <2>1
    <2> HIDE DEF f, S
    <2>3. \A j, k \in Above(scores, i) : f[j] = f[k] => j = k
      BY <2>1
    <2> QED
      BY <2>2, <2>3 DEF Injection, IsInjective
  <1> HIDE DEF f, S, V
  <1>4. Cardinality(Above(scores, i)) <= Cardinality(S)
    BY <1>1, <1>3, FS_Injection
  <1> QED
    BY <1>1, <1>4 DEF V

\* Filtering by the k-th highest score keeps the places from one on, and those
\* are the ids that the contract keeps.
LEMMA TopKStartIs ==
    ASSUME NEW scores, Scored(scores), NEW order, Sorts(scores, order),
           sampler.top_k \in 0..Vocabulary32,
           NEW start, start = TopKStart(scores, order)
    PROVE  /\ start \in 1..Vocabulary32
           /\ \A k \in 1..Vocabulary32 : start <= k <=> AmongTop(scores, order[k])
  <1> DEFINE V == Vocabulary32
             K == sampler.top_k
             p == V - K + 1
             threshold == scores[order[p]]
             Starts(n) == /\ scores[order[n]] >= threshold
                          /\ \A m \in 1..n - 1 : scores[order[m]] < threshold
  <1>0. V \in Nat \ {0}
    BY SizesAreNatural
  <1>1. CASE K = 0
    <2>1. start = 1
      BY <1>1 DEF TopKStart
    <2> QED
      BY <1>0, <1>1, <2>1 DEF AmongTop
  <1>2. CASE K # 0
    <2>1. start = CHOOSE n \in 1..V : Starts(n)
      BY <1>2 DEF TopKStart
    <2>2. K \in 1..V /\ p \in 1..V /\ V - p + 1 = K /\ V - p < K
      BY <1>0, <1>2
    <2>3. \A k \in 1..V : scores[order[k]] \in Int
      BY DEF Sorts, Scored
    <2> HIDE DEF p, V
    <2>4. \E n \in 1..V : Starts(n)
      <3> DEFINE S == {n \in 1..V : scores[order[n]] >= threshold}
      <3>1. p \in S
        BY <2>2, <2>3
      <3>2. 1 \in 1..V /\ S \in SUBSET (1..V) /\ S # {}
        BY <1>0, <3>1
      <3>3. PICK n \in S : \A m \in 1..n - 1 : m \notin S
        <4> HIDE DEF S
        <4> QED
          BY <1>0, <3>2, FirstPlace
      <3>4. \A m \in 1..n - 1 : scores[order[m]] < threshold
        <4> SUFFICES ASSUME NEW m \in 1..n - 1 PROVE scores[order[m]] < threshold
          OBVIOUS
        <4>1. m \in 1..V /\ m \notin S
          BY <1>0, <3>3
        <4>2. ~(scores[order[m]] >= threshold)
          BY <4>1
        <4> QED
          BY <2>2, <2>3, <4>1, <4>2
      <3> QED
        BY <3>4
    <2>5. start \in 1..V /\ Starts(start)
      <3> HIDE DEF Starts
      <3> QED
        BY <2>1, <2>4
    <2>6. ASSUME NEW k \in 1..V PROVE start <= k <=> threshold <= scores[order[k]]
      <3>1. ASSUME start <= k PROVE threshold <= scores[order[k]]
        <4>1. scores[order[start]] <= scores[order[k]]
          BY <2>5, <3>1, PlacesAscend DEF V
        <4> QED
          BY <2>2, <2>3, <2>5, <4>1
      <3>2. ASSUME ~(start <= k) PROVE ~(threshold <= scores[order[k]])
        <4>1. k \in 1..start - 1
          BY <1>0, <2>5, <3>2
        <4> QED
          BY <2>2, <2>3, <2>5, <4>1
      <3> QED
        BY <3>1, <3>2
    <2>7. ASSUME NEW k \in 1..V PROVE threshold <= scores[order[k]] <=> AmongTop(scores, order[k])
      <3>0. order[k] \in TokenIds
        BY DEF Sorts, V
      <3> DEFINE c == Cardinality(Above(scores, order[k]))
      <3>1. c \in Nat
        <4>1. Above(scores, order[k]) \in SUBSET TokenIds /\ IsFiniteSet(TokenIds)
          BY SizesAreNatural DEF Above
        <4>2. IsFiniteSet(Above(scores, order[k]))
          BY <4>1, FS_Subset
        <4> QED
          BY <4>2, FS_CardinalityType
      <3>2. ASSUME threshold <= scores[order[k]] PROVE c < K
        <4>1. c <= V - p
          BY <2>2, <3>0, <3>2, AtMostCount DEF V
        <4> HIDE DEF c
        <4> QED
          BY <1>0, <2>2, <3>1, <4>1
      <3>3. ASSUME ~(threshold <= scores[order[k]]) PROVE ~(c < K)
        <4>1. scores[order[k]] < scores[order[p]]
          BY <2>2, <2>3, <3>3
        <4>2. c >= V - p + 1
          BY <2>2, <3>0, <4>1, AtLeastCount DEF V
        <4> HIDE DEF c
        <4> QED
          BY <1>0, <2>2, <3>1, <4>2
      <3>4. AmongTop(scores, order[k]) <=> c < K
        BY <1>2 DEF AmongTop
      <3> HIDE DEF c
      <3> QED
        BY <3>2, <3>3, <3>4
    <2> QED
      BY <2>5, <2>6, <2>7 DEF V
  <1> QED
    BY <1>1, <1>2

-----------------------------------------------------------------------------
(* Shares of the places.                                                   *)

\* Nothing adds up to nothing.
LEMMA TotalNothing ==
    ASSUME NEW weights, \A i \in TokenIds : weights[i] = 0
    PROVE  \A n \in 0..Vocabulary32 : Total(weights, n) = 0
  <1> DEFINE wrong == {n \in 0..Vocabulary32 : Total(weights, n) # 0}
  <1>0. Vocabulary32 \in Nat
    BY SizesAreNatural
  <1>1. SUFFICES ASSUME wrong # {} PROVE FALSE
    OBVIOUS
  <1>2. PICK n \in wrong : \A m \in wrong : n <= m
    <2>1. wrong \in SUBSET Nat
      BY <1>0
    <2> HIDE DEF wrong
    <2> QED
      BY <1>1, <2>1, Least
  <1>3. n \in 0..Vocabulary32 /\ Total(weights, n) # 0
    OBVIOUS
  <1>4. n # 0
    BY <1>3, TotalStep
  <1> DEFINE m == n - 1
  <1>5. m \in 0..Vocabulary32 /\ m \in TokenIds /\ m \in Nat /\ m + 1 = n /\ ~(n <= m)
    BY <1>0, <1>3, <1>4 DEF TokenIds
  <1> HIDE DEF m
  <1>6. Total(weights, m) = 0
    BY <1>2, <1>5
  <1>7. Total(weights, n) = Total(weights, m) + weights[m]
    BY <1>5, TotalStep
  <1> QED
    BY <1>3, <1>5, <1>6, <1>7

\* One id more adds its weight.
LEMMA TotalAdd ==
    ASSUME NEW g, Weighs(g), NEW h, Weighs(h), NEW i \in TokenIds, g[i] = 0,
           \A j \in TokenIds : j # i => h[j] = g[j]
    PROVE  \A n \in 0..Vocabulary32 :
             Total(h, n) = Total(g, n) + (IF i < n THEN h[i] ELSE 0)
  <1> DEFINE Right(n) == Total(h, n) = Total(g, n) + (IF i < n THEN h[i] ELSE 0)
             wrong == {n \in 0..Vocabulary32 : ~Right(n)}
  <1>0. Vocabulary32 \in Nat /\ i \in Nat /\ h[i] \in Nat
    BY SizesAreNatural DEF Weighs
  <1>1. SUFFICES ASSUME wrong # {} PROVE FALSE
    OBVIOUS
  <1>2. PICK n \in wrong : \A m \in wrong : n <= m
    <2>1. wrong \in SUBSET Nat
      BY <1>0
    <2> HIDE DEF wrong
    <2> QED
      BY <1>1, <2>1, Least
  <1>3. n \in 0..Vocabulary32 /\ ~Right(n)
    OBVIOUS
  <1>4. n # 0
    <2>1. Right(0)
      BY <1>0, TotalStep
    <2> HIDE DEF Right
    <2> QED
      BY <1>3, <2>1
  <1> DEFINE m == n - 1
  <1>5. m \in 0..Vocabulary32 /\ m \in TokenIds /\ m \in Nat /\ m + 1 = n /\ ~(n <= m)
    BY <1>0, <1>3, <1>4 DEF TokenIds
  <1> HIDE DEF m
  <1>6. Right(m)
    <2> HIDE DEF Right
    <2> QED
      BY <1>2, <1>5
  <1>7. Total(h, n) = Total(h, m) + h[m] /\ Total(g, n) = Total(g, m) + g[m]
    BY <1>5, TotalStep
  <1>8. Total(g, m) \in Nat /\ g[m] \in Nat /\ h[m] \in Nat
    BY <1>5, TotalTyped DEF Weighs
  <1>9. Right(n)
    <2>1. CASE m = i
      <3>1. ~(i < m) /\ i < n
        BY <1>0, <1>5, <2>1
      <3> QED
        BY <1>0, <1>6, <1>7, <1>8, <2>1, <3>1
    <2>2. CASE m # i
      <3>1. h[m] = g[m] /\ (i < n <=> i < m)
        BY <1>0, <1>5, <2>2
      <3> QED
        BY <1>0, <1>6, <1>7, <1>8, <3>1
    <2> QED
      BY <2>1, <2>2
  <1> QED
    BY <1>3, <1>9

\* The weights of the places from a to b, and nothing of the others.
Kept(weights, order, a, b) ==
    [i \in TokenIds |-> IF \E m \in a..b : order[m] = i THEN weights[i] ELSE 0]

\* What is kept of weights is weights.
LEMMA KeptWeighs ==
    ASSUME NEW weights, Weighs(weights), NEW order, NEW a, NEW b
    PROVE  Weighs(Kept(weights, order, a, b))
  BY DEF Weighs, Kept

\* The mass of places is the total of the ids at them.
LEMMA MassIsTotal ==
    ASSUME NEW scores, Scored(scores), NEW order, Sorts(scores, order),
           NEW weights, Weighs(weights), NEW a \in 1..Vocabulary32
    PROVE  \A k \in a - 1..Vocabulary32 :
             Mass(weights, order, a, k) = Total(Kept(weights, order, a, k), Vocabulary32)
  <1> DEFINE V == Vocabulary32
             g(k) == Kept(weights, order, a, k)
             Right(k) == Mass(weights, order, a, k) = Total(g(k), V)
             wrong == {k \in a - 1..V : ~Right(k)}
  <1>0. V \in Nat \ {0} /\ a \in Nat \ {0} /\ a <= V /\ V \in 0..V
    BY SizesAreNatural
  <1> HIDE DEF V
  <1>1. SUFFICES ASSUME wrong # {} PROVE FALSE
    BY DEF V
  <1>2. PICK k \in wrong : \A m \in wrong : k <= m
    <2>1. wrong \in SUBSET Nat
      BY <1>0
    <2> HIDE DEF wrong
    <2> QED
      BY <1>1, <2>1, Least
  <1>3. k \in a - 1..V /\ ~Right(k) /\ k \in Nat
    BY <1>0
  <1>4. k # a - 1
    <2>1. Mass(weights, order, a, a - 1) = 0
      BY <1>0, MassStep
    <2>2. \A i \in TokenIds : g(a - 1)[i] = 0
      BY <1>0 DEF Kept
    <2>3. Total(g(a - 1), V) = 0
      <3> DEFINE w == g(a - 1)
      <3>1. \A i \in TokenIds : w[i] = 0
        BY <2>2
      <3> HIDE DEF w
      <3>2. Total(w, V) = 0
        BY <1>0, <3>1, TotalNothing DEF V
      <3> QED
        BY <3>2 DEF w
    <2>4. Right(a - 1)
      BY <2>1, <2>3
    <2> HIDE DEF Right
    <2> QED
      BY <1>3, <2>4
  <1> DEFINE m == k - 1
             i == order[k]
             before == g(m)
             after == g(k)
  <1>5. /\ m \in a - 1..V /\ m \in Nat /\ m + 1 = k /\ ~(k <= m) /\ k \in 1..V /\ k >= a
        /\ k \in a..k /\ k \in Int
    BY <1>0, <1>3, <1>4
  <1>6. Right(m)
    <2> HIDE DEF Right, m
    <2> QED
      BY <1>2, <1>5
  <1>7. Mass(weights, order, a, k) = Mass(weights, order, a, m) + weights[i]
    BY <1>0, <1>5, MassStep
  <1> HIDE DEF m
  <1>8. i \in TokenIds
    BY <1>5 DEF Sorts, V
  <1>9. before[i] = 0
    <2>1. ~\E n \in a..m : order[n] = i
      <3> SUFFICES ASSUME NEW n \in a..m, order[n] = i PROVE FALSE
        OBVIOUS
      <3>1. n \in 1..V /\ n # k
        BY <1>0, <1>5
      <3> QED
        BY <1>5, <3>1, PlacesAscend DEF V
    <2> QED
      BY <1>8, <2>1 DEF Kept
  <1>10. after[i] = weights[i]
    BY <1>5, <1>8 DEF Kept
  <1>11. ASSUME NEW j \in TokenIds, j # i PROVE after[j] = before[j]
    <2>1. (\E n \in a..k : order[n] = j) <=> \E n \in a..m : order[n] = j
      <3>1. \A n : n \in a..k <=> n \in a..m \/ n = k
        BY <1>0, <1>5
      <3> QED
        BY <1>11, <3>1
    <2> QED
      BY <2>1 DEF Kept
  <1>12. Weighs(before) /\ Weighs(after)
    BY KeptWeighs
  <1> HIDE DEF before, after, i
  <1>13. Total(after, V) = Total(before, V) + (IF i < V THEN after[i] ELSE 0)
    BY <1>0, <1>8, <1>9, <1>11, <1>12, TotalAdd DEF V
  <1>14. i < V
    BY <1>0, <1>8 DEF TokenIds, V
  <1>15. Right(k)
    BY <1>6, <1>7, <1>10, <1>13, <1>14 DEF before, after
  <1> QED
    BY <1>3, <1>15

\* It is a natural number and grows with the places.
LEMMA MassGrows ==
    ASSUME NEW scores, Scored(scores), NEW order, Sorts(scores, order),
           NEW weights, Weighs(weights), NEW a \in 1..Vocabulary32,
           NEW n \in a - 1..Vocabulary32, NEW m \in a - 1..n
    PROVE  /\ Mass(weights, order, a, n) \in Nat /\ Mass(weights, order, a, m) \in Nat
           /\ Mass(weights, order, a, m) <= Mass(weights, order, a, n)
  <1> DEFINE M(k) == Mass(weights, order, a, k)
             wrong == {k \in m..n : ~(M(m) <= M(k))}
  <1>0. Vocabulary32 \in Nat /\ a \in Nat \ {0} /\ m \in Nat /\ n \in Nat
        /\ Vocabulary32 \in 0..Vocabulary32
    BY SizesAreNatural
  <1>1. \A k \in a - 1..Vocabulary32 : M(k) \in Nat
    BY <1>0, MassIsTotal, KeptWeighs, TotalTyped
  <1>2. \A k \in a..Vocabulary32 : M(k - 1) <= M(k)
    <2> SUFFICES ASSUME NEW k \in a..Vocabulary32 PROVE M(k - 1) <= M(k)
      OBVIOUS
    <2>1. k \in Int /\ k >= a /\ k \in 1..Vocabulary32 /\ k - 1 \in a - 1..Vocabulary32
          /\ k \in a - 1..Vocabulary32
      BY <1>0
    <2>2. M(k) = M(k - 1) + weights[order[k]]
      BY <1>0, <2>1, MassStep
    <2>3. weights[order[k]] \in Nat /\ M(k) \in Nat /\ M(k - 1) \in Nat
      BY <1>1, <2>1 DEF Weighs, Sorts
    <2> HIDE DEF M
    <2> QED
      BY <2>2, <2>3
  <1> HIDE DEF M
  <1>3. M(m) <= M(n)
    <2>1. SUFFICES ASSUME wrong # {} PROVE FALSE
      <3>1. n \in m..n
        BY <1>0
      <3> QED
        BY <3>1
    <2>2. PICK k \in wrong : \A j \in wrong : k <= j
      <3>1. wrong \in SUBSET Nat
        BY <1>0
      <3> HIDE DEF wrong
      <3> QED
        BY <2>1, <3>1, Least
    <2>3. k \in m..n /\ ~(M(m) <= M(k))
      OBVIOUS
    <2>4. m \in a - 1..Vocabulary32 /\ k \in a - 1..Vocabulary32
      BY <1>0, <2>3
    <2>5. k # m
      BY <1>1, <2>3, <2>4
    <2> DEFINE j == k - 1
    <2>6. j \in m..n /\ ~(k <= j) /\ k \in a..Vocabulary32 /\ j \in a - 1..Vocabulary32
      BY <1>0, <2>3, <2>5
    <2>7. M(j) <= M(k)
      BY <1>2, <2>6
    <2> HIDE DEF j
    <2>8. M(m) <= M(j)
      <3>1. j \notin wrong
        <4> HIDE DEF wrong
        <4> QED
          BY <2>2, <2>6
      <3> QED
        BY <2>6, <3>1
    <2>9. M(m) \in Nat /\ M(j) \in Nat /\ M(k) \in Nat
      BY <1>1, <2>4, <2>6
    <2> QED
      BY <2>3, <2>7, <2>8, <2>9
  <1> QED
    BY <1>0, <1>1, <1>3 DEF M

-----------------------------------------------------------------------------
(* What the filters keep.                                                  *)

\* The running share of the places from start to k exceeds what top_p leaves.
Exceeds(weights, order, start, k) ==
    Mass(weights, order, start, k) * 100
      > (100 - sampler.top_p) * Mass(weights, order, start, Vocabulary32)

\* The first place that stays is at or behind the start, and a place is behind it
\* exactly if the running share has exceeded its bound there, or it is the last.
LEMMA NucleusStartIs ==
    ASSUME NEW scores, Scored(scores), NEW order, Sorts(scores, order),
           NEW weights, Weighs(weights), NEW start \in 1..Vocabulary32,
           sampler.top_p \in 0..100,
           NEW first, first = NucleusStart(weights, order, start)
    PROVE  /\ first \in start..Vocabulary32
           /\ \A k \in start..Vocabulary32 :
                first <= k <=> \/ sampler.top_p = 100 \/ k = Vocabulary32
                               \/ Exceeds(weights, order, start, k)
  <1> DEFINE V == Vocabulary32
             exceeds(k) == Exceeds(weights, order, start, k)
             Ends(k) == k = V \/ exceeds(k)
             First(k) == /\ k = V \/ exceeds(k)
                         /\ \A m \in start..k - 1 : ~exceeds(m)
  <1>0. V \in Nat \ {0} /\ start \in Nat /\ start <= V /\ V \in start..V
    BY SizesAreNatural
  <1>1. CASE sampler.top_p = 100
    <2>1. first = start
      BY <1>1 DEF NucleusStart
    <2> QED
      BY <1>0, <1>1, <2>1
  <1>2. CASE sampler.top_p # 100
    <2>1. first = CHOOSE k \in start..V : First(k)
      BY <1>2 DEF NucleusStart, Exceeds
    <2>2. ASSUME NEW k \in start..V, NEW m \in start..k, exceeds(m) PROVE exceeds(k)
      <3> DEFINE x == Mass(weights, order, start, m)
                 y == Mass(weights, order, start, k)
                 z == (100 - sampler.top_p) * Mass(weights, order, start, V)
      <3>1. k \in start - 1..V /\ m \in start - 1..k
        BY <1>0
      <3>2. x \in Nat /\ y \in Nat /\ x <= y
        BY <3>1, MassGrows
      <3>3. z \in Nat
        <4>1. V \in start - 1..V
          BY <1>0
        <4>2. Mass(weights, order, start, V) \in Nat
          BY <4>1, MassGrows
        <4> QED
          BY <4>2
      <3>4. x * 100 > z
        BY <2>2 DEF Exceeds
      <3> HIDE DEF x, y, z
      <3>5. y * 100 > z
        BY <3>2, <3>3, <3>4
      <3> QED
        BY <3>5 DEF y, z, Exceeds
    <2> HIDE DEF exceeds, V
    <2>3. \E k \in start..V : First(k)
      <3> DEFINE S == {k \in start..V : Ends(k)}
      <3>1. V \in S /\ S \in SUBSET (start..V) /\ start \in 1..V
        BY <1>0
      <3>2. PICK k \in S : \A m \in start..k - 1 : m \notin S
        <4>1. S \in SUBSET Nat /\ S # {}
          BY <1>0, <3>1
        <4> HIDE DEF S
        <4>2. PICK k \in S : \A m \in S : k <= m
          BY <4>1, Least
        <4>3. ASSUME NEW m \in start..k - 1 PROVE m \notin S
          <5>1. ~(k <= m)
            BY <1>0, <4>1
          <5> QED
            BY <4>2, <5>1
        <4> QED
          BY <4>3
      <3>3. \A m \in start..k - 1 : ~exceeds(m)
        <4> SUFFICES ASSUME NEW m \in start..k - 1 PROVE ~exceeds(m)
          OBVIOUS
        <4>1. m \in start..V /\ m \notin S
          BY <1>0, <3>2
        <4> QED
          BY <4>1
      <3> QED
        BY <3>3
    <2>4. first \in start..V /\ First(first)
      <3> HIDE DEF First
      <3> QED
        BY <2>1, <2>3
    <2>5. ASSUME NEW k \in start..V PROVE first <= k <=> k = V \/ exceeds(k)
      <3>1. ASSUME first <= k PROVE k = V \/ exceeds(k)
        <4>1. CASE first = V
          BY <1>0, <2>4, <3>1, <4>1
        <4>2. CASE first # V
          <5>1. exceeds(first) /\ first \in start..k
            BY <1>0, <2>4, <3>1, <4>2
          <5> QED
            BY <2>2, <5>1
        <4> QED
          BY <4>1, <4>2
      <3>2. ASSUME ~(first <= k) PROVE ~(k = V \/ exceeds(k))
        <4>1. k \in start..first - 1 /\ k # V
          BY <1>0, <2>4, <3>2
        <4> QED
          BY <2>4, <4>1
      <3> QED
        BY <3>1, <3>2
    <2> QED
      BY <1>2, <2>4, <2>5 DEF V, exceeds
  <1> QED
    BY <1>1, <1>2

\* The contract's two filters, of ids and not of places.
Top(scores) == {i \in TokenIds : AmongTop(scores, i)}

UpTo(scores, i) == {j \in Top(scores) : j = i \/ Less(scores, j, i)}

MassOf(weights, S) ==
    Total([i \in TokenIds |-> IF i \in S THEN weights[i] ELSE 0], Vocabulary32)

ByContract(scores, weights) ==
    {i \in Top(scores) :
       \/ sampler.top_p = 100
       \/ \A j \in Top(scores) : j = i \/ Less(scores, j, i)
       \/ MassOf(weights, UpTo(scores, i)) * 100
            > (100 - sampler.top_p) * MassOf(weights, Top(scores))}

\* The mass of the ids up to one is that of the places up to its own.
LEMMA MassUpTo ==
    ASSUME NEW scores, Scored(scores), NEW order, Sorts(scores, order),
           NEW weights, Weighs(weights), NEW start \in 1..Vocabulary32,
           \A k \in 1..Vocabulary32 : start <= k <=> AmongTop(scores, order[k]),
           NEW k \in start..Vocabulary32
    PROVE  /\ MassOf(weights, UpTo(scores, order[k])) = Mass(weights, order, start, k)
           /\ UpTo(scores, order[Vocabulary32]) = Top(scores)
           /\ (\A j \in Top(scores) : j = order[k] \/ Less(scores, j, order[k]))
                <=> k = Vocabulary32
  <1> DEFINE V == Vocabulary32
  <1>0. V \in Nat \ {0} /\ start \in Nat /\ k \in 1..V /\ V \in 1..V
    BY SizesAreNatural
  <1>1. ASSUME NEW n \in 1..V, NEW j \in TokenIds
        PROVE  j \in UpTo(scores, order[n]) <=> \E m \in start..n : order[m] = j
    <2>1. PICK m \in 1..V : order[m] = j
      BY DEF Sorts
    <2>2. j \in Top(scores) <=> start <= m
      BY <2>1 DEF Top
    <2>3. j = order[n] \/ Less(scores, j, order[n]) <=> m <= n
      <3>1. j = order[n] <=> m = n
        BY <2>1, PlacesAscend
      <3>2. Less(scores, j, order[n]) <=> m < n
        BY <2>1 DEF Sorts
      <3>3. m <= n <=> m = n \/ m < n
        BY <1>0
      <3> QED
        BY <3>1, <3>2, <3>3
    <2>4. j \in UpTo(scores, order[n]) <=> start <= m /\ m <= n
      BY <2>2, <2>3 DEF UpTo
    <2>5. start <= m /\ m <= n <=> m \in start..n
      BY <1>0
    <2>6. \A l \in start..n : order[l] = j => l = m
      <3> SUFFICES ASSUME NEW l \in start..n, order[l] = j PROVE l = m
        OBVIOUS
      <3>1. l \in 1..V
        BY <1>0
      <3> QED
        BY <2>1, <3>1, PlacesAscend
    <2> QED
      BY <2>1, <2>4, <2>5, <2>6
  <1>2. MassOf(weights, UpTo(scores, order[k])) = Mass(weights, order, start, k)
    <2>1. [i \in TokenIds |-> IF i \in UpTo(scores, order[k]) THEN weights[i] ELSE 0]
            = Kept(weights, order, start, k)
      BY <1>0, <1>1 DEF Kept
    <2>2. k \in start - 1..V
      BY <1>0
    <2>3. Mass(weights, order, start, k) = Total(Kept(weights, order, start, k), V)
      BY <2>2, MassIsTotal
    <2> QED
      BY <2>1, <2>3 DEF MassOf
  <1>3. ASSUME NEW j \in TokenIds PROVE j = order[V] \/ Less(scores, j, order[V])
    <2>1. PICK m \in 1..V : order[m] = j
      BY DEF Sorts
    <2>2. m = V \/ m < V
      BY <1>0
    <2> QED
      BY <1>0, <2>1, <2>2 DEF Sorts
  <1>4. UpTo(scores, order[V]) = Top(scores)
    BY <1>3 DEF UpTo, Top
  <1>5. (\A j \in Top(scores) : j = order[k] \/ Less(scores, j, order[k])) <=> k = V
    <2>1. ASSUME k = V PROVE \A j \in Top(scores) : j = order[k] \/ Less(scores, j, order[k])
      BY <1>3, <2>1 DEF Top
    <2>2. ASSUME k # V PROVE \E j \in Top(scores) : ~(j = order[k] \/ Less(scores, j, order[k]))
      <3>1. start <= V /\ k < V /\ ~(V < k)
        BY <1>0, <2>2
      <3>2. order[V] \in Top(scores)
        BY <1>0, <3>1 DEF Top, Sorts
      <3>3. order[V] # order[k] /\ ~Less(scores, order[V], order[k])
        BY <1>0, <2>2, <3>1, PlacesAscend DEF Sorts
      <3> QED
        BY <3>2, <3>3
    <2> QED
      BY <2>1, <2>2
  <1> QED
    BY <1>2, <1>4, <1>5

\* What the code keeps is what the contract keeps.
LEMMA KeptAsContract ==
    ASSUME NEW scores, Scored(scores), NEW order, Sorts(scores, order),
           NEW weights, Weighs(weights),
           sampler.top_k \in 0..Vocabulary32, sampler.top_p \in 0..100,
           NEW first, first = NucleusStart(weights, order, TopKStart(scores, order))
    PROVE  /\ first \in 1..Vocabulary32
           /\ \A k \in 1..Vocabulary32 :
                order[k] \in ByContract(scores, weights) <=> first <= k
  <1> DEFINE V == Vocabulary32
             start == TopKStart(scores, order)
  <1>0. V \in Nat \ {0} /\ V \in 1..V
    BY SizesAreNatural
  <1>1. start \in 1..V /\ \A k \in 1..V : start <= k <=> AmongTop(scores, order[k])
    BY TopKStartIs
  <1> HIDE DEF start
  <1>2. /\ first \in start..V
        /\ \A k \in start..V : first <= k <=> \/ sampler.top_p = 100 \/ k = V
                                              \/ Exceeds(weights, order, start, k)
    BY <1>1, NucleusStartIs DEF start
  <1>3. ASSUME NEW k \in 1..V PROVE order[k] \in ByContract(scores, weights) <=> first <= k
    <2>0. order[k] \in TokenIds
      BY DEF Sorts
    <2>1. CASE k \in start..V
      <3>1. /\ MassOf(weights, UpTo(scores, order[k])) = Mass(weights, order, start, k)
            /\ (\A j \in Top(scores) : j = order[k] \/ Less(scores, j, order[k])) <=> k = V
        BY <1>1, <2>1, MassUpTo
      <3>2. MassOf(weights, Top(scores)) = Mass(weights, order, start, V)
        <4>1. V \in start..V
          BY <1>0, <1>1
        <4> QED
          BY <1>1, <4>1, MassUpTo
      <3>3. order[k] \in Top(scores)
        BY <1>1, <2>0, <2>1 DEF Top
      <3>4. order[k] \in ByContract(scores, weights)
              <=> \/ sampler.top_p = 100 \/ k = V \/ Exceeds(weights, order, start, k)
        BY <3>1, <3>2, <3>3, Zenon DEF ByContract, Exceeds
      <3> QED
        BY <1>2, <2>1, <3>4
    <2>2. CASE k \notin start..V
      <3>1. ~(start <= k) /\ ~(first <= k)
        BY <1>0, <1>1, <1>2, <2>2
      <3>2. order[k] \notin Top(scores)
        BY <1>1, <3>1 DEF Top
      <3> QED
        BY <3>1, <3>2 DEF ByContract
    <2> QED
      BY <2>1, <2>2
  <1>4. first \in 1..V
    BY <1>0, <1>1, <1>2
  <1> QED
    BY <1>3, <1>4

-----------------------------------------------------------------------------
(* What a selection is made from.                                          *)

\* Scores that have passed the checks.
Admitted(logits) ==
    /\ logits \in Logits /\ IsFinite(logits)
    /\ \A i \in TokenIds : InRange(Scores(logits)[i])

Configured == sampler \in Policies /\ Supported(sampler)

\* The numbers of an accepted policy.
LEMMA PolicyTyped ==
    ASSUME Configured
    PROVE  /\ sampler.top_k \in 0..Vocabulary32 /\ sampler.top_p \in 0..100
           /\ sampler.inverse \in Nat \ {0}
  <1>1. sampler.top_k \in Nat /\ sampler.inverse \in Int /\ sampler.top_k <= Vocabulary32
        /\ sampler.inverse > 0 /\ sampler.top_p \in 0..100
    BY SamplingAssumption DEF Configured, Supported
  <1> QED
    BY <1>1, SizesAreNatural

\* The scores of admitted logits.
LEMMA ScoresTyped ==
    ASSUME Configured, NEW logits, Admitted(logits)
    PROVE  Scored(Scores(logits)) /\ \A i \in TokenIds : logits[i] \in Int
  <1>1. ASSUME NEW i \in TokenIds PROVE logits[i] \in Int
    BY SamplingAssumption DEF Admitted, IsFinite
  <1>2. ASSUME NEW i \in TokenIds PROVE Scores(logits)[i] \in Int
    <2>1. Scores(logits)[i] = logits[i] * sampler.inverse
      BY DEF Scores
    <2>2. sampler.inverse \in Int
      BY PolicyTyped
    <2> QED
      BY <1>1, <2>1, <2>2
  <1> QED
    BY <1>1, <1>2 DEF Scored

\* Weights are natural numbers, and the highest score's is not nothing.
LEMMA WeightsTyped ==
    ASSUME Configured, NEW logits, Admitted(logits),
           NEW order, order = Order(Scores(logits)),
           NEW weights, weights = Weights(Scores(logits), order)
    PROVE  Weighs(weights) /\ weights[order[Vocabulary32]] > 0
  <1> DEFINE scores == Scores(logits)
             top == order[Vocabulary32]
             c == sampler.inverse
  <1>0. Scored(scores) /\ Sorts(scores, order) /\ c \in Nat \ {0}
    BY ScoresTyped, OrderSorts, PolicyTyped
  <1>1. top \in TokenIds
    <2>1. Vocabulary32 \in 1..Vocabulary32
      BY SizesAreNatural
    <2> QED
      BY <1>0, <2>1 DEF Sorts
  <1>2. \A i \in TokenIds : /\ logits[i] \in Int /\ scores[i] = logits[i] * c
                            /\ weights[i] = Weight[scores[top] - scores[i]]
    <2>1. \A i \in TokenIds : logits[i] \in Int
      BY ScoresTyped
    <2> QED
      BY <2>1 DEF Scores, Weights
  <1>3. \A i \in TokenIds : scores[i] <= scores[top]
    <2> SUFFICES ASSUME NEW i \in TokenIds PROVE scores[i] <= scores[top]
      OBVIOUS
    <2>1. PICK k \in 1..Vocabulary32 : order[k] = i
      BY <1>0 DEF Sorts
    <2>2. k <= Vocabulary32 /\ Vocabulary32 \in 1..Vocabulary32
      BY SizesAreNatural
    <2> QED
      BY <1>0, <2>1, <2>2, PlacesAscend
  <1>4. \A i \in TokenIds : InRange(scores[i])
    BY DEF Admitted
  <1> HIDE DEF scores, top, c
  <1>5. ASSUME NEW i \in TokenIds PROVE weights[i] \in Nat
    <2> DEFINE x == logits[i]
               y == logits[top]
    <2>1. x \in Int /\ y \in Int /\ x * c <= y * c /\ InRange(x * c) /\ InRange(y * c)
      BY <1>1, <1>2, <1>3, <1>4
    <2>2. Weight[y * c - x * c] \in Nat
      BY <1>1, <2>1, SamplingAssumption DEF Configured, Admitted, c, x, y
    <2>3. weights[i] = Weight[y * c - x * c]
      BY <1>1, <1>2
    <2> QED
      BY <2>2, <2>3
  <1>6. weights[top] > 0
    <2>1. scores[top] - scores[top] = 0
      BY <1>0, <1>1 DEF Scored
    <2>2. weights[top] = Weight[0]
      BY <1>1, <1>2, <2>1
    <2> QED
      BY <2>2, SamplingAssumption
  <1> QED
    BY <1>5, <1>6 DEF Weighs, top

\* What is left of the weights after both filters.
LEMMA FilteredAs ==
    ASSUME Configured, NEW logits, Admitted(logits),
           NEW scores, scores = Scores(logits),
           NEW weights, weights = Weights(scores, Order(scores))
    PROVE  /\ \A i \in TokenIds : Filtered(logits)[i]
                = IF i \in ByContract(scores, weights) THEN weights[i] ELSE 0
           /\ Weighs(weights) /\ Weighs(Filtered(logits))
           /\ Total(Filtered(logits), Vocabulary32) > 0
  <1> DEFINE order == Order(scores)
             first == NucleusStart(weights, order, TopKStart(scores, order))
             V == Vocabulary32
             top == order[V]
             left == Filtered(logits)
  <1>0. V \in Nat \ {0} /\ V \in 1..V /\ V \in 0..V
    BY SizesAreNatural
  <1>1. Scored(scores) /\ Sorts(scores, order)
    BY ScoresTyped, OrderSorts
  <1>2. Weighs(weights) /\ weights[top] > 0
    BY WeightsTyped
  <1> HIDE DEF order
  <1>3. /\ first \in 1..V
        /\ \A k \in 1..V : order[k] \in ByContract(scores, weights) <=> first <= k
    BY <1>1, <1>2, PolicyTyped, KeptAsContract
  <1>4. left = [i \in TokenIds |-> IF \E k \in first..V : order[k] = i THEN weights[i] ELSE 0]
    BY DEF Filtered, order
  <1> HIDE DEF first, left
  <1>5. ASSUME NEW i \in TokenIds
        PROVE  left[i] = IF i \in ByContract(scores, weights) THEN weights[i] ELSE 0
    <2>1. PICK k \in 1..V : order[k] = i
      BY <1>1 DEF Sorts
    <2>2. i \in ByContract(scores, weights) <=> \E m \in first..V : order[m] = i
      <3>1. ASSUME i \in ByContract(scores, weights) PROVE \E m \in first..V : order[m] = i
        <4>1. first <= k
          BY <1>3, <2>1, <3>1
        <4>2. k \in first..V
          BY <1>0, <1>3, <4>1
        <4> QED
          BY <2>1, <4>2
      <3>2. ASSUME NEW m \in first..V, order[m] = i PROVE i \in ByContract(scores, weights)
        <4>1. m \in 1..V /\ first <= m
          BY <1>0, <1>3
        <4> QED
          BY <1>3, <3>2, <4>1
      <3> QED
        BY <3>1, <3>2
    <2> QED
      BY <1>4, <2>2
  <1>6. Weighs(left)
    BY <1>2, <1>5 DEF Weighs
  <1>7. Total(left, V) > 0
    <2>1. top \in TokenIds
      BY <1>0, <1>1 DEF Sorts
    <2>2. top \in ByContract(scores, weights)
      <3>1. first <= V
        BY <1>0, <1>3
      <3> QED
        BY <1>0, <1>3, <3>1
    <2>3. left[top] = weights[top]
      BY <1>5, <2>1, <2>2
    <2> HIDE DEF top
    <2>4. top \in 0..V /\ top + 1 \in 0..V /\ top \in Nat
      BY <1>0, <2>1 DEF TokenIds
    <2>5. Total(left, top + 1) = Total(left, top) + left[top]
      BY <2>4, TotalStep
    <2>6. Total(left, top) \in Nat /\ Total(left, top + 1) \in Nat /\ Total(left, V) \in Nat
      BY <1>0, <1>6, <2>4, TotalTyped
    <2>7. Total(left, top + 1) <= Total(left, V)
      BY <1>0, <1>6, <2>4, TotalGrows
    <2>8. left[top] > 0 /\ left[top] \in Nat
      BY <1>2, <1>6, <2>1, <2>3 DEF top, Weighs
    <2> QED
      BY <2>5, <2>6, <2>7, <2>8
  <1> QED
    BY <1>2, <1>5, <1>6, <1>7 DEF left

\* A generator in one of its states.
Stated(r) == r.valid => r.state \in 0..StateSize - 1 /\ {r.seed, r.stream} \subseteq Nat

\* What is known of a selection until it is published.
SelectionInvariant ==
    /\ DOMAIN rng = DOMAIN NoRng /\ DOMAIN saved = DOMAIN NoRng
    /\ sampler = NoSampler \/ Configured
    /\ Stated(rng) /\ Stated(saved)
    /\ Selected => /\ Configured /\ Admitted(selection.logits) /\ sampler # NoSampler
                   /\ selection.weights = Filtered(selection.logits)
                   /\ selection.word \in 0..Words - 1
                   /\ selection.selected = Categorical(selection.weights, selection.word)

\* A step of the generator gives a state.
LEMMA StepStated ==
    ASSUME NEW state \in Nat, NEW stream \in Nat
    PROVE  NextState(state, stream) \in 0..StateSize - 1
  <1> DEFINE x == state * Multiplier + Increment(stream)
  <1>1. state * Multiplier \in Nat /\ Increment(stream) \in Nat /\ StateSize \in Nat \ {0}
    BY SamplingAssumption DEF Increment
  <1>2. x \in Nat
    BY <1>1
  <1> HIDE DEF x
  <1>3. x % StateSize \in 0..StateSize - 1
    BY <1>1, <1>2
  <1> QED
    BY <1>3 DEF NextState, x

\* A seeded generator has one.
LEMMA SeededStated ==
    ASSUME NEW seed \in Nat, NEW stream \in Nat
    PROVE  Stated(Seeded(seed, stream)) /\ DOMAIN Seeded(seed, stream) = DOMAIN NoRng
  <1> DEFINE r == Seeded(seed, stream)
             x == NextState(0, stream) + seed
             y == x % StateSize
  <1>1. StateSize \in Nat \ {0}
    BY SamplingAssumption
  <1>2. NextState(0, stream) \in Nat
    <2>1. NextState(0, stream) \in 0..StateSize - 1
      BY StepStated
    <2> QED
      BY <1>1, <2>1
  <1>3. x \in Nat
    BY <1>2
  <1>4. r.state = NextState(y, stream) /\ r.seed = seed /\ r.stream = stream
        /\ DOMAIN r = DOMAIN NoRng
    BY DEF Seeded, NoRng
  <1> HIDE DEF x, r
  <1>5. y \in Nat
    BY <1>1, <1>3
  <1> HIDE DEF y
  <1>6. NextState(y, stream) \in 0..StateSize - 1
    BY <1>5, StepStated
  <1> QED
    BY <1>4, <1>6 DEF Stated, r

\* And so has a generator that was drawn from.
LEMMA DrawnStated ==
    ASSUME NEW r, DOMAIN r = DOMAIN NoRng, r.valid, Stated(r)
    PROVE  Stated(Drawn(r)) /\ DOMAIN Drawn(r) = DOMAIN NoRng
  <1> DEFINE d == Drawn(r)
  <1>1. /\ d.seed = r.seed /\ d.stream = r.stream /\ d.state = NextState(r.state, r.stream)
        /\ DOMAIN d = DOMAIN NoRng
    BY DEF Drawn, NoRng
  <1>2. r.state \in Nat /\ r.stream \in Nat /\ r.seed \in Nat
    <2>1. StateSize \in Nat \ {0}
      BY SamplingAssumption
    <2> QED
      BY <2>1 DEF Stated
  <1>3. NextState(r.state, r.stream) \in 0..StateSize - 1
    BY <1>2, StepStated
  <1> HIDE DEF d
  <1> QED
    BY <1>1, <1>2, <1>3 DEF Stated, d

\* The invariant holds before anything was selected.
LEMMA SelectionInit == SamplingInit => SelectionInvariant
  BY DEF SamplingInit, SelectionInvariant, Stated, NoRng, NoSelection, Selected

\* A selection is made of scores and with a word that the checks have let pass.
LEMMA SelectionAdmitted ==
    ASSUME SelectionInvariant, NEW logits \in Logits, NEW fault \in Faults,
           SelectRefusal(logits, fault) = "OK"
    PROVE  /\ Configured /\ sampler # NoSampler /\ Admitted(logits) /\ rng.valid
           /\ Word32(rng) \in 0..Words - 1
  <1>1. sampler # NoSampler /\ rng.valid /\ IsFinite(logits)
        /\ ~\E i \in TokenIds : ~InRange(Scores(logits)[i])
    <2> DEFINE high == \E i \in TokenIds : ~InRange(Scores(logits)[i])
               over == Categorical(Filtered(logits), Word32(rng)) >= CanonicalTokens
               drawn == rng.draws = MaxDraws
               rest == IF ~rng.valid THEN "INVALID_RNG_STATE"
                       ELSE IF fault # "none" THEN fault
                       ELSE IF ~IsFinite(logits) THEN "NUMERIC_DOMAIN"
                       ELSE IF high THEN "NUMERIC_DOMAIN"
                       ELSE IF drawn THEN "ARITHMETIC_OVERFLOW"
                       ELSE IF over THEN "INVALID_TOKEN_ID"
                       ELSE "OK"
    <2>1. SelectRefusal(logits, fault)
            = CASE sampler = NoSampler -> "INCOMPATIBLE_SAMPLING"
                [] sampler # NoSampler /\ fault = "INVALID_ARGUMENT" -> fault
                [] sampler # NoSampler /\ fault # "INVALID_ARGUMENT" -> rest
      BY Zenon DEF SelectRefusal
    <2>2. fault # "OK"
      BY DEF Faults
    <2> HIDE DEF rest
    <2>3. sampler # NoSampler /\ rest = "OK"
      BY <2>1, <2>2
    <2> HIDE DEF high, drawn, over
    <2>4. rng.valid /\ IsFinite(logits) /\ ~high
      BY <2>2, <2>3 DEF rest
    <2> QED
      BY <2>3, <2>4 DEF high
  <1>2. Configured /\ rng.state \in 0..StateSize - 1
    BY <1>1 DEF SelectionInvariant, Stated
  <1>3. Word32(rng) \in 0..Words - 1
    BY <1>2, SamplingAssumption DEF Word32
  <1> QED
    BY <1>1, <1>2, <1>3 DEF Admitted

\* What the filters keep depends on the policy and the scores only.
LEMMA FilteredStays ==
    ASSUME UNCHANGED sampler, NEW logits
    PROVE  Filtered(logits)' = Filtered(logits)
  <1> DEFINE scoresBy(p) == [i \in TokenIds |-> logits[i] * p.inverse]
             topBy(p, scores, order) ==
               IF p.top_k = 0 THEN 1
               ELSE LET threshold == scores[order[Vocabulary32 - p.top_k + 1]]
                    IN  CHOOSE n \in 1..Vocabulary32 :
                          /\ scores[order[n]] >= threshold
                          /\ \A m \in 1..n - 1 : scores[order[m]] < threshold
             nucleusBy(p, weights, order, start) ==
               IF p.top_p = 100 THEN start
               ELSE LET sum == Mass(weights, order, start, Vocabulary32)
                        exceeds(k) == Mass(weights, order, start, k) * 100
                                        > (100 - p.top_p) * sum
                    IN  CHOOSE k \in start..Vocabulary32 :
                          /\ k = Vocabulary32 \/ exceeds(k)
                          /\ \A m \in start..k - 1 : ~exceeds(m)
             leftOf(scores, order, weights, start) ==
               [i \in TokenIds |->
                  IF \E k \in start..Vocabulary32 : order[k] = i THEN weights[i] ELSE 0]
             filterBy(p) ==
               LET scores  == scoresBy(p)
                   order   == Order(scores)
                   weights == Weights(scores, order)
                   start   == nucleusBy(p, weights, order, topBy(p, scores, order))
               IN  leftOf(scores, order, weights, start)
  <1>1. Filtered(logits) = filterBy(sampler)
    BY Zenon DEF Filtered, Scores, TopKStart, NucleusStart
  <1>2. Filtered(logits)' = filterBy(sampler')
    BY Zenon DEF Filtered, Scores, TopKStart, NucleusStart
  <1> HIDE DEF filterBy
  <1> QED
    BY <1>1, <1>2

\* Nothing of a selection changes while the sampler is what it was.
LEMMA SelectionStays ==
    ASSUME SelectionInvariant, UNCHANGED samplingVars
    PROVE  SelectionInvariant'
  <1>1. UNCHANGED <<sampler, rng, saved, selection>>
    BY DEF samplingVars
  <1>2. Filtered(selection.logits)' = Filtered(selection.logits)
    <2>1. \A l : Filtered(l)' = Filtered(l)
      BY <1>1, FilteredStays
    <2> QED
      BY <1>1, <2>1
  <1>3. Admitted(selection.logits)' <=> Admitted(selection.logits)
    BY <1>1 DEF Admitted, Scores
  <1>4. /\ Configured' <=> Configured
        /\ Stated(rng)' <=> Stated(rng)
        /\ Stated(saved)' <=> Stated(saved)
        /\ Selected' <=> Selected
    BY <1>1 DEF Configured, Supported, Stated, Selected
  <1> QED
    BY <1>1, <1>2, <1>3, <1>4 DEF SelectionInvariant

\* Every operation of the sampler keeps it.
LEMMA SelectionNextInv ==
    ASSUME SelectionInvariant, [SamplingNext]_samplingVars
    PROVE  SelectionInvariant'
  <1>1. CASE \E seed \in Seeds, stream \in Streams : Seed(seed, stream)
    <2>1. PICK seed \in Seeds, stream \in Streams : Seed(seed, stream)
      BY <1>1
    <2>2. seed \in Nat /\ stream \in Nat
      BY SamplingAssumption
    <2>3. Stated(Seeded(seed, stream)) /\ DOMAIN Seeded(seed, stream) = DOMAIN NoRng
      BY <2>2, SeededStated
    <2>4. rng' = Seeded(seed, stream) \/ rng' = rng
      BY <2>1 DEF Seed
    <2>5. Stated(rng)' /\ DOMAIN rng' = DOMAIN NoRng
      BY <2>3, <2>4 DEF SelectionInvariant, Stated
    <2> QED
      BY <2>1, <2>5 DEF Seed, SelectionInvariant, Stated, Configured, Supported, Selected,
         NoSelection
  <1>2. CASE Reset
    <2>1. rng.valid => Stated(Seeded(rng.seed, rng.stream))
                       /\ DOMAIN Seeded(rng.seed, rng.stream) = DOMAIN NoRng
      BY SeededStated DEF SelectionInvariant, Stated
    <2>2. Stated(rng)' /\ DOMAIN rng' = DOMAIN NoRng
      BY <1>2, <2>1 DEF Reset, SelectionInvariant, Stated
    <2> QED
      BY <1>2, <2>2 DEF Reset, SelectionInvariant, Stated, Configured, Supported, Selected,
         NoSelection
  <1>3. CASE Snapshot \/ Import
    BY <1>3 DEF Snapshot, Import, SelectionInvariant, Stated, Configured, Supported, Selected,
       NoSelection
  <1>4. CASE NextU32
    <2>1. rng.valid => Stated(Drawn(rng)) /\ DOMAIN Drawn(rng) = DOMAIN NoRng
      BY DrawnStated DEF SelectionInvariant
    <2>2. rng' = rng \/ (rng.valid /\ rng' = Drawn(rng))
      BY <1>4 DEF NextU32
    <2>3. Stated(rng)' /\ DOMAIN rng' = DOMAIN NoRng
      BY <2>1, <2>2 DEF SelectionInvariant, Stated
    <2> QED
      BY <1>4, <2>3 DEF NextU32, SelectionInvariant, Stated, Configured, Supported, Selected,
         NoSelection
  <1>5. CASE \E policy \in Policies : OpenSampler(policy)
    <2>1. PICK policy \in Policies : OpenSampler(policy)
      BY <1>5
    <2>2. UNCHANGED <<rng, saved, selection>> /\ ~Selected
          /\ (sampler' = sampler \/ (Supported(policy) /\ sampler' = policy))
      BY <2>1 DEF OpenSampler, SelectionInvariant
    <2>3. (sampler = NoSampler \/ Configured)'
      BY <2>2 DEF SelectionInvariant, Configured, Supported
    <2> QED
      BY <2>2, <2>3 DEF SelectionInvariant, Stated, Selected
  <1>6. CASE CloseSampler \/ Published
    BY <1>6 DEF CloseSampler, Published, SelectionInvariant, Stated, Configured, Supported,
       Selected, NoSelection
  <1>7. CASE UNCHANGED samplingVars
    <2> QED
      BY <1>7, SelectionStays
  <1>8. CASE \E logits \in Logits, fault \in Faults : Select(logits, fault)
    <2>1. PICK logits \in Logits, fault \in Faults : Select(logits, fault)
      BY <1>8
    <2>2. CASE SelectRefusal(logits, fault) # "OK"
      <3>1. UNCHANGED <<sampler, rng, saved>> /\ ~Selected'
        BY <2>1, <2>2 DEF Select, Refuse, Selected
      <3> QED
        BY <3>1 DEF SelectionInvariant, Stated, Configured, Supported
    <2>3. CASE SelectRefusal(logits, fault) = "OK"
      <3> DEFINE made == [status   |-> "OK",
                          logits   |-> logits,
                          weights  |-> Filtered(logits),
                          word     |-> Word32(rng),
                          selected |-> Categorical(Filtered(logits), Word32(rng)),
                          before   |-> rng.draws]
      <3>1. /\ Configured /\ sampler # NoSampler /\ Admitted(logits) /\ rng.valid
            /\ Word32(rng) \in 0..Words - 1
        BY <2>3, SelectionAdmitted
      <3>2. /\ selection' = made /\ rng' = Drawn(rng) /\ UNCHANGED <<sampler, saved>>
        BY <2>1, <2>3 DEF Select
      <3>3. /\ selection'.logits = logits /\ selection'.weights = Filtered(logits)
            /\ selection'.word = Word32(rng)
            /\ selection'.selected = Categorical(Filtered(logits), Word32(rng))
        BY <3>2
      <3> HIDE DEF made
      <3>4. Configured' /\ sampler' # NoSampler
        BY <3>1, <3>2 DEF Configured, Supported, NoSampler
      <3>5. Admitted(selection.logits)' /\ Filtered(selection.logits)' = Filtered(logits)
        <4>1. Filtered(selection.logits)' = Filtered(logits)
          <5>1. \A l : Filtered(l)' = Filtered(l)
            BY <3>2, FilteredStays
          <5> QED
            BY <3>3, <5>1
        <4>2. Admitted(selection.logits)'
          BY <3>1, <3>2, <3>3 DEF Admitted, Scores
        <4> QED
          BY <3>3, <4>1, <4>2
      <3>6. Stated(rng)' /\ DOMAIN rng' = DOMAIN NoRng
        BY <3>1, <3>2, DrawnStated DEF SelectionInvariant, Stated
      <3>7. Stated(saved)' /\ DOMAIN saved' = DOMAIN NoRng
        BY <3>2 DEF SelectionInvariant, Stated
      <3> QED
        BY <3>1, <3>3, <3>4, <3>5, <3>6, <3>7 DEF SelectionInvariant
    <2> QED
      BY <2>2, <2>3
  <1> QED
    BY <1>1, <1>2, <1>3, <1>4, <1>5, <1>6, <1>7, <1>8 DEF SamplingNext

\* The share of each id is a consequence of it.
LEMMA SelectionProportional == ASSUME SelectionInvariant PROVE WordsProportional
  <1> SUFFICES ASSUME Selected PROVE WordsProportional
    BY DEF WordsProportional
  <1> DEFINE logits == selection.logits
             weights == selection.weights
             total == Total(weights, Vocabulary32)
             owned(i) == {w \in 0..Words - 1 : Categorical(weights, w) = i}
  <1>1. /\ Configured /\ Admitted(logits) /\ weights = Filtered(logits)
        /\ selection.word \in 0..Words - 1
        /\ selection.selected = Categorical(weights, selection.word)
    BY DEF SelectionInvariant
  <1>2. Weighs(weights) /\ total > 0
    BY <1>1, FilteredAs
  <1>3. selection.word \in owned(selection.selected)
    BY <1>1
  <1> HIDE DEF weights
  <1>4. ASSUME NEW i \in TokenIds
        PROVE  /\ Cardinality(owned(i)) * total < weights[i] * Words + total
               /\ Cardinality(owned(i)) * total > weights[i] * Words - total
    <2> DEFINE mine == owned(i)
    <2>1. mine = {w \in 0..Words - 1 : Categorical(weights, w) = i}
      OBVIOUS
    <2> HIDE DEF mine, total
    <2>2. total = Total(weights, Vocabulary32)
      BY DEF total
    <2>3. /\ Cardinality(mine) * total < weights[i] * Words + total
          /\ Cardinality(mine) * total > weights[i] * Words - total
      BY <1>2, <2>1, <2>2, SharesProportional
    <2> QED
      BY <2>3 DEF mine
  <1> QED
    BY <1>3, <1>4, Zenon DEF WordsProportional, weights

\* So are the ids that keep one.
LEMMA SelectionByContract == ASSUME SelectionInvariant PROVE FilterAsContract
  <1> SUFFICES ASSUME Selected PROVE FilterAsContract
    BY DEF FilterAsContract
  <1> DEFINE logits == selection.logits
             scores == Scores(logits)
             all == Weights(scores, Order(scores))
             left == selection.weights
  <1>1. Configured /\ Admitted(logits) /\ left = Filtered(logits)
    BY DEF SelectionInvariant
  <1>2. /\ \A i \in TokenIds : left[i] = IF i \in ByContract(scores, all) THEN all[i] ELSE 0
        /\ Weighs(all)
    BY <1>1, FilteredAs
  <1> DEFINE weight(i) == all[i]
             above(i)  == {j \in TokenIds : scores[j] > scores[i]}
             topk      == {i \in TokenIds :
                             sampler.top_k = 0 \/ Cardinality(above(i)) < sampler.top_k}
             mass(S)   == Total([i \in TokenIds |-> IF i \in S THEN weight(i) ELSE 0],
                                Vocabulary32)
             upto(i)   == {j \in topk : j = i \/ Less(scores, j, i)}
             highest(i) == \A j \in topk : j = i \/ Less(scores, j, i)
             kept      == {i \in topk : \/ sampler.top_p = 100
                                        \/ highest(i)
                                        \/ mass(upto(i)) * 100
                                             > (100 - sampler.top_p) * mass(topk)}
  <1>3. FilterAsContract <=> {i \in TokenIds : left[i] > 0} = {i \in kept : weight(i) > 0}
    BY Zenon DEF FilterAsContract
  <1> HIDE DEF scores, all, left
  <1>4. topk = Top(scores)
    BY DEF Top, AmongTop, Above
  <1>5. kept = ByContract(scores, all)
    <2>1. \A S : mass(S) = MassOf(all, S)
      BY DEF MassOf
    <2>2. \A i : upto(i) = UpTo(scores, i)
      BY <1>4 DEF UpTo
    <2> HIDE DEF mass, upto, topk
    <2> QED
      BY <1>4, <2>1, <2>2, Zenon DEF ByContract
  <1>6. kept \subseteq TokenIds
    BY <1>5 DEF ByContract, Top
  <1> HIDE DEF kept
  <1>7. \A i \in TokenIds : left[i] > 0 <=> i \in kept /\ all[i] > 0
    <2>1. ~(0 > 0)
      OBVIOUS
    <2> QED
      BY <1>2, <1>5, <2>1
  <1> QED
    BY <1>3, <1>6, <1>7

\* The program's other steps leave the sampler alone.
LEMMA SelectionKept ==
    ASSUME SelectionInvariant, [TextNext]_textVars
    PROVE  SelectionInvariant'
  <1>1. CASE UNCHANGED samplingVars
    BY <1>1, SelectionStays
  <1>2. CASE SamplingNext
    BY <1>2, SelectionNextInv
  <1>3. CASE Forget
    <2>1. ~Selected' /\ rng' = NoRng /\ saved' = NoRng /\ sampler' = NoSampler
      BY <1>3 DEF Forget, Selected, NoSelection
    <2> QED
      BY <2>1 DEF SelectionInvariant, Stated, NoRng
  <1>4. UNCHANGED samplingVars \/ SamplingNext \/ Forget
    BY DEF TextNext, FileStep, RegistryStep, ViewStep, TokenizerStep, SamplingStep, Ended,
       textVars
  <1> QED
    BY <1>1, <1>2, <1>3, <1>4

\* It holds of every program.
LEMMA SelectionInvariantHolds == TextSpec => []SelectionInvariant
  <1>1. TextInit => SelectionInvariant
    BY SelectionInit DEF TextInit
  <1>2. SelectionInvariant /\ [TextNext]_textVars => SelectionInvariant'
    BY SelectionKept
  <1> QED
    BY <1>1, <1>2, PTL DEF TextSpec

\* For any vocabulary, scores, ties and policy, the ids that keep a share are
\* those that the contract's two filters keep, which speak of ids and sums over
\* sets where the code sorts, scans from a place and keeps a running sum
\* (kq_sampling.c:661-713).
THEOREM FilterKeepsContract == TextSpec => []FilterAsContract
  <1>1. SelectionInvariant => FilterAsContract
    BY SelectionByContract
  <1> QED
    BY SelectionInvariantHolds, <1>1, PTL

\* For any weights and any number of words, each id owns as many words as its
\* share asks for, to within one, and the word drawn is the selected id's
\* (kq_categorical_word).
THEOREM WordsAreProportional == TextSpec => []WordsProportional
  <1>1. SelectionInvariant => WordsProportional
    BY SelectionProportional
  <1> QED
    BY SelectionInvariantHolds, <1>1, PTL

\* What the tokenizer and its call keep to.
TokenizerInvariant == CallFits(tokenizer, call)

\* The program's other steps leave both alone.
LEMMA TokenizerKept ==
    ASSUME TokenizerInvariant, [TextNext]_textVars
    PROVE  TokenizerInvariant'
  <1>1. CallFits(tokenizer, call)
    BY DEF TokenizerInvariant
  <1>2. CASE TokenizerNext
    <2>1. CallFits(tokenizer', call')
      BY <1>1, <1>2, TokenizerFits
    <2> QED
      BY <2>1, Zenon DEF TokenizerInvariant
  <1>3. CASE UNCHANGED tokenizerVars
    <2>1. tokenizer' = tokenizer /\ call' = call
      BY <1>3 DEF tokenizerVars
    <2>2. CallFits(tokenizer', call')
      BY <1>1, <2>1
    <2> QED
      BY <2>2, Zenon DEF TokenizerInvariant
  <1>4. TokenizerNext \/ UNCHANGED tokenizerVars
    BY Zenon DEF TextNext, FileStep, RegistryStep, ViewStep, TokenizerStep, SamplingStep,
                 Ended, textVars
  <1> QED
    BY <1>2, <1>3, <1>4

\* It holds of every program.
LEMMA TokenizerInvariantHolds == TextSpec => []TokenizerInvariant
  <1>1. TextInit => TokenizerInvariant
    <2>1. ASSUME TextInit PROVE tokenizer = NoTokenizer /\ call = NoCall
      BY <2>1 DEF TextInit, TokenizerInit
    <2>2. CallFits(NoTokenizer, NoCall)
      BY NoCallFits
    <2> QED
      BY <2>1, <2>2 DEF TokenizerInvariant
  <1>2. TokenizerInvariant /\ [TextNext]_textVars => TokenizerInvariant'
    BY TokenizerKept
  <1> QED
    BY <1>1, <1>2, PTL DEF TextSpec

\* For any text, the pretokens of what is encoded are those of the vocabulary's
\* regular expression, which says at each place what the scanner of the code
\* finds with its cursor and its special cases (kq_pretokenize).
THEOREM PretokensAreRegex == TextSpec => []PretokensAsRegex
  <1>1. TokenizerInvariant => PretokensAsRegex
    BY FitGives DEF TokenizerInvariant
  <1> QED
    BY TokenizerInvariantHolds, <1>1, PTL

\* For any text and vocabulary, merging every place of a pair in one pass gives
\* the words that merging one place after the other gives, the leftmost of the
\* lowest rank first (kq_bpe_piece).
THEOREM MergesAreReference == TextSpec => []MergesAsReference
  <1>1. TokenizerInvariant => MergesAsReference
    BY FitGives DEF TokenizerInvariant
  <1> QED
    BY TokenizerInvariantHolds, <1>1, PTL

\* For any text, what an encoding is decoded to is the text after its
\* normalization, and for any ids what is decoded is UTF-8: nothing is lost
\* between the two sides of the tokenizer (kq_tokenizer_decode).
THEOREM RoundTrips == TextSpec => []RoundTrip
  <1>1. TokenizerInvariant => RoundTrip
    BY FitGives DEF TokenizerInvariant
  <1> QED
    BY TokenizerInvariantHolds, <1>1, PTL
=============================================================================
