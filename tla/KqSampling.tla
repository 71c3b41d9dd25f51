----------------------------- MODULE KqSampling -----------------------------
(***************************************************************************)
(* The sampler (kq_sampling.c): a policy, a random generator the caller    *)
(* owns, and the selection of one id from a vector of scores.              *)
(*                                                                         *)
(* Scores are whole numbers, a weight stands for exp of the distance from  *)
(* the highest score, scaled to a whole number and 0 where expf underflows, *)
(* and shares are compared by cross-multiplication: the rounding of the    *)
(* program's floating point sums is left out.  The generator is the LCG of *)
(* pcg32 with a small state; its output permutation is given.              *)
(***************************************************************************)
EXTENDS Integers, Sequences, FiniteSets

CONSTANTS
    Vocabulary32,       \* KQ_SAMPLING_QWEN38_VOCAB_SIZE
    CanonicalTokens,    \* KQ_SAMPLING_QWEN38_CANONICAL_TOKEN_COUNT
    MaxScore,           \* the largest finite score, and the least with its sign changed
    Weight,             \* by the distance from the highest score
    Words,              \* the number of random words, 2^32
    StateSize,          \* the number of generator states, 2^64
    Multiplier,         \* KQ_PCG32_MULTIPLIER
    Permuted,           \* the word a generator state gives
    MaxStream,          \* KQ_SAMPLING_MAX_STREAM
    MaxDraws,           \* the largest number of draws, UINT64_MAX
    NotFinite,          \* a score that is not a finite number
    Policies, Seeds, Streams, Logits    \* the arguments of the calls

VARIABLES
    sampler,    \* the policy of the open configuration
    rng,        \* the caller's generator
    saved,      \* and the snapshot it has taken
    selection   \* the answer to the last selection

samplingVars == <<sampler, rng, saved, selection>>

NoSampler == [version |-> 0]

\* A generator record that was never seeded fails its checks.  `given' is the
\* history of the words it has given away since it was seeded.
NoRng == [seed |-> 0, stream |-> 0, state |-> 0, draws |-> 0, valid |-> FALSE,
          given |-> << >>]

NoSelection == [status |-> "none"]
-----------------------------------------------------------------------------
(* The generator.                                                          *)

Increment(stream) == 2 * stream + 1

\* kq_pcg32_step: the word comes from the state before the step.
NextState(state, stream) == (state * Multiplier + Increment(stream)) % StateSize

\* kq_rng_seed_value.
Seeded(seed, stream) ==
    [seed |-> seed, stream |-> stream,
     state |-> NextState((NextState(0, stream) + seed) % StateSize, stream),
     draws |-> 0, valid |-> TRUE, given |-> << >>]

Word32(r) == Permuted[r.state]

\* kq_rng_next_local.
Drawn(r) ==
    [r EXCEPT !.state = NextState(@, r.stream), !.draws = @ + 1,
              !.given = Append(@, Word32(r))]

SamplingInit ==
    sampler = NoSampler /\ rng = NoRng /\ saved = NoRng /\ selection = NoSelection

\* kq_sampling_rng_seed.
Seed(seed, stream) ==
    /\ selection = NoSelection
    /\ IF stream <= MaxStream THEN rng' = Seeded(seed, stream) ELSE UNCHANGED rng
    /\ UNCHANGED <<sampler, saved, selection>>

\* kq_sampling_rng_reset.
Reset ==
    /\ selection = NoSelection
    /\ IF rng.valid THEN rng' = Seeded(rng.seed, rng.stream) ELSE UNCHANGED rng
    /\ UNCHANGED <<sampler, saved, selection>>

\* kq_sampling_rng_snapshot, and kq_sampling_rng_import of it.
Snapshot ==
    /\ selection = NoSelection
    /\ IF rng.valid THEN saved' = rng ELSE UNCHANGED saved
    /\ UNCHANGED <<sampler, rng, selection>>

Import ==
    /\ selection = NoSelection
    /\ IF saved.valid THEN rng' = saved ELSE UNCHANGED rng
    /\ UNCHANGED <<sampler, saved, selection>>

\* kq_sampling_rng_next_u32.
NextU32 ==
    /\ selection = NoSelection
    /\ IF rng.valid /\ rng.draws < MaxDraws THEN rng' = Drawn(rng) ELSE UNCHANGED rng
    /\ UNCHANGED <<sampler, saved, selection>>
-----------------------------------------------------------------------------
(* The policy (kq_sampling_config_open_qwen38).  A temperature is given by  *)
(* its inverse, and top_p in hundredths.                                   *)

Supported(policy) ==
    /\ policy.version = 1 /\ policy.flags = 0 /\ policy.reserved = 0
    /\ policy.inverse # NotFinite /\ policy.inverse > 0
    /\ policy.top_p # NotFinite /\ policy.top_p \in 0..100
    /\ policy.top_k <= Vocabulary32

OpenSampler(policy) ==
    /\ sampler = NoSampler
    /\ \/ Supported(policy) /\ sampler' = policy
       \/ UNCHANGED sampler
    /\ UNCHANGED <<rng, saved, selection>>

CloseSampler ==
    /\ sampler # NoSampler /\ selection = NoSelection
    /\ sampler' = NoSampler
    /\ UNCHANGED <<rng, saved, selection>>
-----------------------------------------------------------------------------
(* Selection (kq_sampling_select_f32).                                     *)

TokenIds == 0..Vocabulary32 - 1

IsFinite(logits) == \A i \in TokenIds : logits[i] # NotFinite

Scores(logits) == [i \in TokenIds |-> logits[i] * sampler.inverse]

\* What a score may be without overflowing to an infinity of either sign.
InRange(score) == -MaxScore <= score /\ score <= MaxScore

\* Scores are finite or refused, and a weight is the whole number that stands for
\* exp of a distance between two scores that pass the checks.
ASSUME SamplingAssumption ==
    /\ {Vocabulary32, Words, StateSize} \subseteq Nat \ {0} /\ MaxScore \in Int
    /\ Multiplier \in Nat /\ Seeds \cup Streams \subseteq Nat
    /\ \A s \in 0..StateSize - 1 : Permuted[s] \in 0..Words - 1
    /\ \A policy \in Policies :
         policy.top_k \in Nat /\ (policy.inverse # NotFinite => policy.inverse \in Int)
    /\ \A logits \in Logits, i \in TokenIds :
         logits[i] # NotFinite => logits[i] \in Int
    /\ Weight[0] \in Nat \ {0}
    /\ \A logits \in Logits, policy \in Policies :
         IsFinite(logits) /\ Supported(policy) =>
           \A i, j \in TokenIds :
             LET low  == logits[i] * policy.inverse
                 high == logits[j] * policy.inverse
             IN  low <= high /\ InRange(low) /\ InRange(high) => Weight[high - low] \in Nat

\* kq_id_less_ascending and the merge sort under it.
Less(scores, i, j) == scores[i] < scores[j] \/ (scores[i] = scores[j] /\ i < j)

Order(scores) ==
    [k \in 1..Vocabulary32 |->
       CHOOSE i \in TokenIds :
         Cardinality({j \in TokenIds : Less(scores, j, i)}) = k - 1]

\* Mutant: one place above the k-th highest score.
TopKStartStrict(scores, order) ==
    IF sampler.top_k = 0 THEN 1
    ELSE LET k         == Vocabulary32 - sampler.top_k + 1
             threshold == scores[order[IF k < Vocabulary32 THEN k + 1 ELSE k]]
         IN  CHOOSE n \in 1..Vocabulary32 :
               /\ scores[order[n]] >= threshold
               /\ \A m \in 1..n - 1 : scores[order[m]] < threshold

\* The place of the first score that is not below the k-th highest.
TopKStart(scores, order) ==
    IF sampler.top_k = 0 THEN 1
    ELSE LET threshold == scores[order[Vocabulary32 - sampler.top_k + 1]]
         IN  CHOOSE n \in 1..Vocabulary32 :
               /\ scores[order[n]] >= threshold
               /\ \A m \in 1..n - 1 : scores[order[m]] < threshold

Weights(scores, order) ==
    [i \in TokenIds |-> Weight[scores[order[Vocabulary32]] - scores[i]]]

\* The weight of the places from a to b.
Mass(weights, order, a, b) ==
    LET upto[k \in a - 1..b] ==
          IF k = a - 1 THEN 0 ELSE upto[k - 1] + weights[order[k]]
    IN  upto[b]

\* The first place at which the running share exceeds 1 - top_p, the last if
\* none does before.
NucleusStart(weights, order, start) ==
    IF sampler.top_p = 100 THEN start
    ELSE LET sum == Mass(weights, order, start, Vocabulary32)
             exceeds(k) == Mass(weights, order, start, k) * 100
                             > (100 - sampler.top_p) * sum
         IN  CHOOSE k \in start..Vocabulary32 :
               /\ k = Vocabulary32 \/ exceeds(k)
               /\ \A m \in start..k - 1 : ~exceeds(m)

\* What is left of the weights, ids in their own order: proportional to the
\* final probabilities.
Filtered(logits) ==
    LET scores  == Scores(logits)
        order   == Order(scores)
        weights == Weights(scores, order)
        start   == NucleusStart(weights, order, TopKStart(scores, order))
    IN  [i \in TokenIds |->
           IF \E k \in start..Vocabulary32 : order[k] = i THEN weights[i] ELSE 0]

Total(weights, n) ==
    LET upto[k \in 0..n] == IF k = 0 THEN 0 ELSE upto[k - 1] + weights[k - 1]
    IN  upto[n]

\* Mutant: a boundary belongs to the id before it.
CategoricalInclusive(weights, word) ==
    LET total == Total(weights, Vocabulary32)
        takes(i) == weights[i] > 0 /\ word * total <= Total(weights, i + 1) * Words
    IN  CHOOSE i \in TokenIds : takes(i) /\ \A j \in 0..i - 1 : ~takes(j)

\* kq_categorical_word: the first id whose cumulative share exceeds the word's.
Categorical(weights, word) ==
    LET total == Total(weights, Vocabulary32)
        takes(i) == weights[i] > 0 /\ word * total < Total(weights, i + 1) * Words
    IN  CHOOSE i \in TokenIds : takes(i) /\ \A j \in 0..i - 1 : ~takes(j)

\* What a caller can get wrong, and how it is told.
Faults == {"none", "INVALID_ARGUMENT", "ALIASING_VIOLATION", "BUFFER_TOO_SMALL"}

SelectRefusal(logits, fault) ==
    CASE sampler = NoSampler          -> "INCOMPATIBLE_SAMPLING"
      [] sampler # NoSampler /\ fault = "INVALID_ARGUMENT" -> fault
      [] sampler # NoSampler /\ fault # "INVALID_ARGUMENT" ->
           IF ~rng.valid THEN "INVALID_RNG_STATE"
           ELSE IF fault # "none" THEN fault
           ELSE IF ~IsFinite(logits) THEN "NUMERIC_DOMAIN"
           ELSE IF \E i \in TokenIds : ~InRange(Scores(logits)[i])
                  THEN "NUMERIC_DOMAIN"
           ELSE IF rng.draws = MaxDraws THEN "ARITHMETIC_OVERFLOW"
           ELSE IF Categorical(Filtered(logits), Word32(rng)) >= CanonicalTokens
                  THEN "INVALID_TOKEN_ID"
           ELSE "OK"

\* Mutant: the word is spent before the id it selects is looked at.
RefuseSpent(status) ==
    /\ selection' = [status |-> status]
    /\ rng' = IF status = "INVALID_TOKEN_ID"
                THEN [Drawn(rng) EXCEPT !.given = rng.given] ELSE rng
    /\ UNCHANGED <<sampler, saved>>

Refuse(status) ==
    /\ selection' = [status |-> status]
    /\ UNCHANGED <<sampler, rng, saved>>

Select(logits, fault) ==
    /\ selection = NoSelection
    /\ IF SelectRefusal(logits, fault) = "OK"
         THEN /\ selection' = [status   |-> "OK",
                               logits   |-> logits,
                               weights  |-> Filtered(logits),
                               word     |-> Word32(rng),
                               selected |-> Categorical(Filtered(logits), Word32(rng)),
                               before   |-> rng.draws]
              /\ rng' = Drawn(rng)
              /\ UNCHANGED <<sampler, saved>>
         ELSE Refuse(SelectRefusal(logits, fault))

Published ==
    /\ selection # NoSelection
    /\ selection' = NoSelection
    /\ UNCHANGED <<sampler, rng, saved>>

SamplingNext ==
    \/ \E seed \in Seeds, stream \in Streams : Seed(seed, stream)
    \/ Reset \/ Snapshot \/ Import \/ NextU32
    \/ \E policy \in Policies : OpenSampler(policy)
    \/ CloseSampler
    \/ \E logits \in Logits, fault \in Faults : Select(logits, fault)
    \/ Published
-----------------------------------------------------------------------------
(* Properties.                                                             *)

Selected == selection.status = "OK"

\* The ids that keep a probability are those the contract keeps
\* (docs/SAMPLING-CONTRACT.md:98-119): a score strictly below the k-th largest
\* removes its id, ties stay; then an id goes if it and the ids under it have no
\* more than 1 - top_p of what is left, but never the highest.  An id whose
\* weight underflowed keeps nothing.
FilterAsContract ==
    Selected =>
      LET scores    == Scores(selection.logits)
          weight(i) == Weights(scores, Order(scores))[i]
          above(i)  == {j \in TokenIds : scores[j] > scores[i]}
          topk      == {i \in TokenIds :
                          sampler.top_k = 0 \/ Cardinality(above(i)) < sampler.top_k}
          mass(S)   == Total([i \in TokenIds |-> IF i \in S THEN weight(i) ELSE 0],
                             Vocabulary32)
          upto(i)   == {j \in topk : j = i \/ Less(scores, j, i)}
          highest(i) == \A j \in topk : j = i \/ Less(scores, j, i)
          kept      == {i \in topk : \/ sampler.top_p = 100
                                     \/ highest(i)
                                     \/ mass(upto(i)) * 100
                                          > (100 - sampler.top_p) * mass(topk)}
      IN  {i \in TokenIds : selection.weights[i] > 0}
            = {i \in kept : weight(i) > 0}

\* Every id owns as many of the random words as its probability asks for, to
\* within one word, and the id selected owns the word that was drawn.
WordsProportional ==
    Selected =>
      LET weights == selection.weights
          total   == Total(weights, Vocabulary32)
          owned(i) == {w \in 0..Words - 1 : Categorical(weights, w) = i}
      IN  /\ selection.word \in owned(selection.selected)
          /\ \A i \in TokenIds :
               /\ Cardinality(owned(i)) * total < weights[i] * Words + total
               /\ Cardinality(owned(i)) * total > weights[i] * Words - total

\* The words a seed gives, whoever draws them.
StreamOf(r, n) ==
    LET state[k \in 0..n] ==
          IF k = 0 THEN Seeded(r.seed, r.stream).state
          ELSE NextState(state[k - 1], r.stream)
    IN  [k \in 1..n |-> Permuted[state[k - 1]]]

\* The words that selections and explicit draws have been given since the
\* generator was seeded, reset or restored are the first words of its seed's
\* stream: none is skipped and none is given twice, whatever was refused in
\* between (the private copy of kq_sampling_select_f32).
StreamUnbroken ==
    rng.valid =>
      /\ rng.draws = Len(rng.given)
      /\ rng.given = StreamOf(rng, Len(rng.given))
      /\ Selected => rng.given[Len(rng.given)] = selection.word
=============================================================================
