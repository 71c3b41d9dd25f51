----------------------------- MODULE KqScratch -----------------------------
(***************************************************************************)
(* The memory of one executor call (kq_model_exec.c and what it calls).    *)
(*                                                                         *)
(* The caller hands over one block.  The executor cuts its buffers from it *)
(* and gives the rest to each layer in turn; the layer cuts its own, keeps *)
(* the end for the weights and lends what is left to its operators, one    *)
(* after another.  How much is needed is a sum in one function, where each *)
(* buffer lies is a cursor in another, often of another file, and what the *)
(* weight provider is asked to fill is written in a third.                 *)
(*                                                                         *)
(* The sizes are the program's own: these sums are what may be wrong.      *)
(***************************************************************************)
EXTENDS Integers, Sequences

CONSTANTS LayerKinds,       \* the family of each layer, in order
          ContextCapacity,  \* positions of a stream
          Base              \* the address of the caller's block

Hidden == 2560
Branches == 4
Width == Branches * Hidden
Rank == 320
Vocabulary == 248320

GdnHeads == 48
GdnKey == 128
GdnValues == GdnHeads * GdnKey
GdnConv == 2 * 16 * GdnKey + GdnValues

QsaHeads == 24
QsaQuery == QsaHeads * 256
QsaKv == 2 * 256
QsaIndex == 128
QsaIndexQuery == 4 * QsaIndex
BlockSize == 4
BlockTopK == 2048 \div BlockSize
SelectedCapacity == 2048 + BlockSize - 1
QsaBlocks == ContextCapacity \div BlockSize

Experts == 512
TopK == 10
Intermediate == 640

PleHeads == 16
PleRow == 160
PleEmbedding == PleHeads * PleRow
PleHistory == 9
IntentWords == 16

\* Without weights of its own the PLE run takes their null pointer for an array
\* at the address zero: the block has to lie behind it.
ASSUME ScratchAssumption ==
    /\ LayerKinds \in Seq({"gdn", "ple", "qsa"}) /\ LayerKinds # << >>
    /\ ContextCapacity \in Nat \ {0}
    /\ Base \in Nat /\ Base % 16 = 0
    /\ Base >= 4 * Width * PleEmbedding

VARIABLE work   \* the call in progress, or NoWork

Sets == INSTANCE FiniteSetsExt

NoWork == [stage |-> "none"]
-----------------------------------------------------------------------------
(* Regions of memory, and cutting them.                                    *)

\* The floats in the first k of a list of named buffers.
Words(parts, k) ==
    LET words[n \in 0..Len(parts)] == IF n = 0 THEN 0 ELSE words[n - 1] + parts[n][2]
    IN  words[k]

\* A cursor runs over the region and takes each buffer in turn.
Cut(region, parts) ==
    [name \in {parts[n][1] : n \in DOMAIN parts} |->
       LET n == CHOOSE m \in DOMAIN parts : parts[m][1] = name
       IN  [at |-> region.at + 4 * Words(parts, n - 1), bytes |-> 4 * parts[n][2]]]

\* What lies behind the cursor at the end.
Behind(region, parts) ==
    LET taken == 4 * Words(parts, Len(parts))
    IN  [at |-> region.at + taken, bytes |-> region.bytes - taken]

Within(inner, outer) ==
    /\ inner.at >= outer.at
    /\ inner.at + inner.bytes <= outer.at + outer.bytes

Overlap(a, b) ==
    a.bytes > 0 /\ b.bytes > 0 /\ a.at < b.at + b.bytes /\ b.at < a.at + a.bytes
-----------------------------------------------------------------------------
(* What each operator says it needs.                                       *)

GdnBytes ==
    4 * (Hidden + GdnConv + GdnValues + GdnHeads + GdnHeads + GdnConv
           + GdnHeads * GdnKey + GdnHeads * GdnKey + GdnValues + GdnHeads + GdnHeads
           + GdnValues + GdnValues + GdnValues + GdnValues + Hidden
           + GdnHeads * GdnKey * GdnKey + GdnConv * 4)

\* Mutant: the sum was not extended with the last buffer of the cursor.
QsaBytesWithoutOutput(n) ==
    4 * (n * (2 * QsaKv + QsaIndex) + n * Hidden + 2 * QsaQuery + QsaQuery
           + QsaKv + QsaKv + QsaIndexQuery + QsaIndex + QsaBlocks * QsaIndex
           + QsaBlocks + QsaBlocks + BlockTopK + SelectedCapacity
           + 2 * QsaHeads * SelectedCapacity + QsaQuery + QsaQuery)

QsaBytes(n) ==
    4 * (n * (2 * QsaKv + QsaIndex) + n * Hidden + 2 * QsaQuery + QsaQuery
           + QsaKv + QsaKv + QsaIndexQuery + QsaIndex + QsaBlocks * QsaIndex
           + QsaBlocks + QsaBlocks + BlockTopK + SelectedCapacity
           + 2 * QsaHeads * SelectedCapacity + QsaQuery + QsaQuery + Hidden)

MoeBytes ==
    4 * (2 * Experts) + TopK * (4 + 4) + 4 * (3 * Intermediate + 2 * Hidden)
      + 4 * Hidden + 4 * (3 * Intermediate + 2 * Hidden)

PleBytes ==
    4 * (Width * PleHistory + PleEmbedding + PleRow + Hidden + 7 * Width)

\* A layer's own buffers and the largest of its operators.
BaseRequired(kind, n) ==
    LET operators == CASE kind = "gdn" -> {GdnBytes, MoeBytes}
                       [] kind = "ple" -> {PleBytes, GdnBytes, MoeBytes}
                       [] kind = "qsa" -> {QsaBytes(n), MoeBytes}
    IN  4 * (n * (3 * Width + 4 * Hidden + 2 * Branches) + 2 * Width + Rank)
          + (IF kind = "ple" THEN n * PleHeads * (4 * IntentWords) ELSE 0)
          + Sets!Max(operators)

WeightScratch == 1048576

LayerRequired(kind, n) == BaseRequired(kind, n) + WeightScratch

LayerMax(n) == Sets!Max({LayerRequired(LayerKinds[k], n) : k \in DOMAIN LayerKinds})

\* Mutant: the provider needs room for what it returns only.
ProviderWordsOfRows == Vocabulary

ProviderWords == Vocabulary + Hidden

\* The answer to kq_model_exec_required_scratch_bytes, also of a decode.
Required(n) ==
    4 * (2 * n * Width + Hidden + 5 * Width + 2 * Rank + Hidden + Vocabulary)
      + 4 * ProviderWords + LayerMax(n)
-----------------------------------------------------------------------------
(* Where the buffers lie.                                                  *)

ExecParts(n) ==
    << <<"branches_a", n * Width>>, <<"branches_b", n * Width>>,
       <<"embedding", Hidden>>, <<"norm_delta", Width>>, <<"normalized", Width>>,
       <<"low", Rank>>, <<"low_scaled", Rank>>, <<"gate_logits", Width>>,
       <<"gate", Width>>, <<"gated", Width>>, <<"hidden", Hidden>>,
       <<"logits", Vocabulary>>, <<"provider_scratch", ProviderWords>> >>

LayerParts(kind, n) ==
    << <<"ple_output", n * Width>>, <<"current", n * Width>>, <<"mixed", n * Hidden>>,
       <<"block_output", n * Hidden>>, <<"after_mixer", n * Width>>,
       <<"moe_input", n * Hidden>>, <<"moe_output", n * Hidden>>,
       <<"normalized", Width>>, <<"read_gate", Width>>, <<"rank", Rank>>,
       <<"attention_write_gates", n * Branches>>, <<"moe_write_gates", n * Branches>> >>
    \o IF kind = "ple" THEN << <<"intents", n * PleHeads * IntentWords>> >> ELSE << >>

GdnParts ==
    << <<"conv_state", GdnConv * 4>>, <<"recurrent_state", GdnHeads * GdnKey * GdnKey>>,
       <<"masked_input", Hidden>>, <<"projected_qkv", GdnConv>>,
       <<"projected_gate", GdnValues>>, <<"projected_beta", GdnHeads>>,
       <<"projected_alpha", GdnHeads>>, <<"conv_output", GdnConv>>,
       <<"query", GdnHeads * GdnKey>>, <<"key", GdnHeads * GdnKey>>,
       <<"value", GdnValues>>, <<"beta", GdnHeads>>, <<"log_decay", GdnHeads>>,
       <<"read", GdnValues>>, <<"delta", GdnValues>>, <<"core_output", GdnValues>>,
       <<"gated_output", GdnValues>>, <<"operator_output", Hidden>> >>

QsaParts(n) ==
    << <<"pending_key", n * QsaKv>>, <<"pending_value", n * QsaKv>>,
       <<"pending_raw", n * QsaIndex>>, <<"staged_output", n * Hidden>>,
       <<"projected_query_gate", 2 * QsaQuery>>, <<"query", QsaQuery>>,
       <<"key", QsaKv>>, <<"value", QsaKv>>, <<"index_query", QsaIndexQuery>>,
       <<"raw_index_key", QsaIndex>>, <<"block_keys", QsaBlocks * QsaIndex>>,
       <<"candidate_scores", QsaBlocks>>, <<"candidate_ids", QsaBlocks>>,
       <<"selected_block_ids", BlockTopK>>, <<"selected_tokens", SelectedCapacity>>,
       <<"attention_logits", QsaHeads * SelectedCapacity>>,
       <<"attention_probabilities", QsaHeads * SelectedCapacity>>,
       <<"head_context", QsaQuery>>, <<"gated_context", QsaQuery>>,
       <<"operator_output", Hidden>> >>

MoeParts ==
    << <<"router_logits", Experts>>, <<"router_probabilities", Experts>>,
       <<"selected_ids", TopK>>, <<"selected_weights", TopK>>,
       <<"expert_gate", Intermediate>>, <<"expert_up", Intermediate>>,
       <<"expert_activated", Intermediate>>, <<"expert_output", Hidden>>,
       <<"weighted_output", Hidden>>, <<"routed_sum", Hidden>>,
       <<"shared_gate", Intermediate>>, <<"shared_up", Intermediate>>,
       <<"shared_activated", Intermediate>>, <<"shared_output", Hidden>>,
       <<"gated_shared", Hidden>> >>

PleParts ==
    << <<"staged", Width * PleHistory>>, <<"embedding", PleEmbedding>>,
       <<"row", PleRow>>, <<"value", Hidden>>, <<"key", Width>>, <<"key_norm", Width>>,
       <<"query_norm", Width>>, <<"gated", Width>>, <<"conv_norm", Width>>,
       <<"conv_pre", Width>>, <<"conv_out", Width>> >>
-----------------------------------------------------------------------------
(* What each step asks of the weight provider and writes itself.           *)

\* A place is a buffer and an offset into it; a request fills rows floats at
\* one, from columns floats at another; a vector or a row has no input.
Start(name) == <<name, 0>>
Nth(name, t, width) == <<name, t * width>>

Linear(from, to, rows, columns) ==
    [from |-> from, to |-> to, rows |-> rows, columns |-> columns]

Fetch(to, count) == [from |-> to, to |-> to, rows |-> count, columns |-> 0]

\* Each operator: the weights it loads first and the floats it sets aside to
\* load them, what it then insists on for the rest, what it cuts from the
\* layer's scratch, its input and output, and the requests and the furthest
\* writes it makes for token t.
Operator(vectors, temporary, spare, parts, bytes, input, output) ==
    [vectors |-> vectors, temporary |-> temporary, spare |-> spare, parts |-> parts,
     bytes |-> bytes, input |-> input, output |-> output]

Gdn(n) ==
    Operator(<< <<"a_log", 48>>, <<"conv", 40960>>, <<"dt_bias", 48>>, <<"norm", 128>> >>,
             40960, 65536, GdnParts, GdnBytes,
             <<"mixed", n * Hidden>>, <<"block_output", n * Hidden>>)

Qsa(n) ==
    Operator(<< <<"key_norm", 256>>, <<"query_norm", 256>>, <<"index_key_norm", 128>>,
                <<"index_query_norm", 128>> >>,
             256, 65536, QsaParts(n), QsaBytes(n),
             <<"mixed", n * Hidden>>, <<"block_output", n * Hidden>>)

Moe(n) ==
    Operator(<< >>, 0, 65536, MoeParts, MoeBytes,
             <<"moe_input", n * Hidden>>, <<"moe_output", n * Hidden>>)

Ple(n) ==
    Operator(<< <<"norm_key", 10240>>, <<"norm_query", 10240>>, <<"norm_conv", 10240>>,
                <<"convolution", 40960>> >>,
             40960, 65536, PleParts, PleBytes,
             <<"input", n * Width>>, <<"ple_output", n * Width>>)

\* kq_layer_gr_read_quantized_f32 works in the layer's own buffers.
GrRead(n) ==
    Operator(<< <<"norm_storage", Width>> >>, Width, 65536, << >>, 0,
             <<"rank", 0>>, <<"rank", 0>>)

GdnRequests(t) ==
    { Linear(Start("masked_input"), Start("projected_qkv"), GdnConv, Hidden),
      Linear(Start("masked_input"), Start("projected_gate"), GdnValues, Hidden),
      Linear(Start("masked_input"), Start("projected_beta"), GdnHeads, Hidden),
      Linear(Start("masked_input"), Start("projected_alpha"), GdnHeads, Hidden),
      Linear(Start("core_output"), Start("operator_output"), Hidden, GdnValues) }

QsaRequests(t) ==
    LET input == Nth("mixed", t, Hidden)
    IN  { Linear(input, Start("projected_query_gate"), 2 * QsaQuery, Hidden),
          Linear(input, Start("key"), QsaKv, Hidden),
          Linear(input, Start("value"), QsaKv, Hidden),
          Linear(input, Start("index_query"), QsaIndexQuery, Hidden),
          Linear(input, Start("raw_index_key"), QsaIndex, Hidden),
          Linear(Start("gated_context"), Start("operator_output"), Hidden, QsaQuery) }

\* The scale of the shared expert goes to a variable of the function.
MoeRequests(t) ==
    LET input == Nth("moe_input", t, Hidden)
    IN  { Linear(input, Start("router_logits"), Experts, Hidden),
          Linear(input, Start("expert_gate"), Intermediate, Hidden),
          Linear(input, Start("expert_up"), Intermediate, Hidden),
          Linear(Start("expert_activated"), Start("expert_output"), Hidden, Intermediate),
          Linear(input, Start("shared_gate"), Intermediate, Hidden),
          Linear(input, Start("shared_up"), Intermediate, Hidden),
          Linear(Start("shared_activated"), Start("shared_output"), Hidden, Intermediate),
          Linear(input, Start("shared_scale_logit"), 1, Hidden) }

PleRequests(t) ==
    { Linear(Start("embedding"), Start("key"), Width, PleEmbedding),
      Linear(Start("embedding"), Start("value"), Hidden, PleEmbedding) }

GrRequests(t, gates) ==
    { Linear(Start("normalized"), Start("rank"), Rank, Width),
      Linear(Start("rank"), Start("read_gate"), Width, Rank),
      Linear(Start("normalized"), Nth(gates, t, Branches), Branches, Width) }

\* What a token at a position reaches in the buffers that the past fills, and
\* in those that hold one entry for each token of the call.
QsaWrites(t, position) ==
    LET complete == (position + 1) \div BlockSize
        selected == BlockSize * (IF complete < BlockTopK THEN complete ELSE BlockTopK)
                      + ((position + 1) % BlockSize)
    IN  { <<"block_keys", complete * QsaIndex>>, <<"candidate_scores", complete>>,
          <<"candidate_ids", complete>>, <<"selected_tokens", selected>>,
          <<"attention_logits", QsaHeads * selected>>,
          <<"attention_probabilities", QsaHeads * selected>>,
          <<"pending_key", (t + 1) * QsaKv>>, <<"pending_value", (t + 1) * QsaKv>>,
          <<"pending_raw", (t + 1) * QsaIndex>>, <<"staged_output", (t + 1) * Hidden>>,
          <<"block_output", (t + 1) * Hidden>> }

PleWrites(t) ==
    { <<"intents", (t + 1) * PleHeads * IntentWords>>, <<"row", PleRow>>,
      <<"embedding", PleHeads * PleRow>>, <<"ple_output", (t + 1) * Width>> }
-----------------------------------------------------------------------------
(* A step of the call.                                                     *)

Kind(w) == LayerKinds[w.layer]
Tokens(w) == 0..(w.tokens - 1)

OperatorOf(w) ==
    CASE w.stage = "ple" -> Ple(w.tokens)
      [] w.stage \in {"attention_read", "moe_read"} -> GrRead(w.tokens)
      [] w.stage = "mixer" -> IF Kind(w) = "qsa" THEN Qsa(w.tokens) ELSE Gdn(w.tokens)
      [] w.stage = "moe" -> Moe(w.tokens)

InLayer(w) == w.stage \in {"ple", "attention_read", "mixer", "moe_read", "moe"}

RequestsOf(w) ==
    CASE w.stage = "embed" -> {Fetch(Start("embedding"), Hidden)}
      [] w.stage = "final_mix" ->
           { Fetch(Start("norm_delta"), Width),
             Linear(Start("normalized"), Start("low"), Rank, Width),
             Linear(Start("low"), Start("gate_logits"), Width, Rank) }
      [] w.stage = "head" -> {Linear(Start("hidden"), Start("logits"), Vocabulary, Hidden)}
      [] w.stage = "ple" -> UNION {PleRequests(t) : t \in Tokens(w)}
      [] w.stage = "attention_read" ->
           UNION {GrRequests(t, "attention_write_gates") : t \in Tokens(w)}
      [] w.stage = "mixer" ->
           UNION {IF Kind(w) = "qsa" THEN QsaRequests(t) ELSE GdnRequests(t) :
                    t \in Tokens(w)}
      [] w.stage = "moe_read" -> UNION {GrRequests(t, "moe_write_gates") : t \in Tokens(w)}
      [] w.stage = "moe" -> UNION {MoeRequests(t) : t \in Tokens(w)}

WritesOf(w) ==
    CASE w.stage = "ple" -> UNION {PleWrites(t) : t \in Tokens(w)}
      [] w.stage = "mixer" /\ Kind(w) = "qsa" ->
           UNION {QsaWrites(t, w.position + t) : t \in Tokens(w)}
      [] OTHER -> {}

\* The caller's block, what the executor leaves of it to a layer, what the
\* layer leaves to the operators and to the weights, and what is left of that
\* behind an operator's vectors and the floats to load them.
Block(w) == [at |-> Base, bytes |-> w.bytes]

LayerScratch(w) ==
    [at |-> Behind(Block(w), ExecParts(w.tokens)).at, bytes |-> LayerMax(w.tokens)]

SubScratch(w) ==
    Behind([at |-> LayerScratch(w).at, bytes |-> BaseRequired(Kind(w), w.tokens)],
           LayerParts(Kind(w), w.tokens))

Weights(w) ==
    LET base == BaseRequired(Kind(w), w.tokens)
    IN  [at |-> LayerScratch(w).at + base, bytes |-> LayerScratch(w).bytes - base]

Loading(w) == Behind(Weights(w), OperatorOf(w).vectors)

LinearScratch(w) == Behind(Loading(w), << <<"temporary", OperatorOf(w).temporary>> >>)

\* The buffers by name: an operator's hide the layer's, these the executor's.
Over(inner, outer) ==
    [name \in DOMAIN inner \cup DOMAIN outer |->
        IF name \in DOMAIN inner THEN inner[name] ELSE outer[name]]

ExecBuffers(w)     == Cut(Block(w), ExecParts(w.tokens))
LayerBuffers(w)    == Cut(LayerScratch(w), LayerParts(Kind(w), w.tokens))
OperatorBuffers(w) == Cut(SubScratch(w), OperatorOf(w).parts)

\* The layers read one of the two branch buffers and write the other, in turn;
\* a variable of a function lies where nothing else does.
Lent(w) ==
    LET odd == w.layer % 2 = 1
    IN  [input  |-> ExecBuffers(w)[IF odd THEN "branches_a" ELSE "branches_b"],
         output |-> ExecBuffers(w)[IF odd THEN "branches_b" ELSE "branches_a"],
         shared_scale_logit |-> [at |-> 0, bytes |-> 4]]

Buffers(w) ==
    IF InLayer(w)
      THEN Over(OperatorBuffers(w), Over(LayerBuffers(w), Over(Lent(w), ExecBuffers(w))))
      ELSE ExecBuffers(w)
-----------------------------------------------------------------------------
(* What the code checks, step by step: a request, an operator, a layer.    *)

Place(w, place, words) ==
    [at |-> Buffers(w)[place[1]].at + 4 * place[2], bytes |-> 4 * words]

\* The provider has room to stage its answer, with the input or without, and
\* nothing it was given overlaps.
RequestAdmitted(w, request, room) ==
    LET staged == [at |-> room.at, bytes |-> 4 * (request.rows + request.columns)]
        input  == Place(w, request.from, request.columns)
        output == Place(w, request.to, request.rows)
    IN  /\ room.bytes >= staged.bytes
        /\ ~Overlap(input, output) /\ ~Overlap(input, staged) /\ ~Overlap(output, staged)

\* The vectors an operator has loaded.
Vectors(w) ==
    LET vectors == Cut(Weights(w), OperatorOf(w).vectors)
    IN  {vectors[name] : name \in DOMAIN vectors}

\* Each is loaded into floats of its own behind them.
VectorLoads(w, vector) ==
    /\ vector.bytes <= 4 * OperatorOf(w).temporary
    /\ vector.bytes <= 4 * 65536
    /\ ~Overlap(vector, [at |-> Loading(w).at, bytes |-> vector.bytes])

Loads(w) ==
    LET operator == OperatorOf(w)
    IN  /\ Weights(w).bytes >= 4 * Words(operator.vectors, Len(operator.vectors))
                                 + 4 * operator.temporary + operator.spare
        /\ \A vector \in Vectors(w) : VectorLoads(w, vector)

\* The weights the PLE run would have been given by another caller.
NullArrays == {[at |-> 0, bytes |-> 4 * Width * PleEmbedding],
               [at |-> 0, bytes |-> 4 * Hidden * PleEmbedding]}

OperatorAdmitted(w) ==
    LET operator == OperatorOf(w)
        input    == Place(w, Start(operator.input[1]), operator.input[2])
        output   == Place(w, Start(operator.output[1]), operator.output[2])
        \* The PLE run looks at what it uses, the others at what they are given.
        scratch  == [SubScratch(w) EXCEPT !.bytes = IF w.stage = "ple" THEN PleBytes ELSE @]
    IN  /\ Loads(w)
        /\ SubScratch(w).bytes >= operator.bytes
        /\ operator.parts # << >> =>
             ~Overlap(input, output) /\ ~Overlap(input, scratch) /\ ~Overlap(output, scratch)
        /\ w.stage = "ple" =>
             \A array \in NullArrays \cup Vectors(w) :
               ~Overlap(output, array) /\ ~Overlap(scratch, array)

Admitted(w) ==
    CASE w.stage = "entry" -> /\ w.position + w.tokens <= ContextCapacity
                              /\ w.bytes >= Required(w.tokens)
      [] InLayer(w) ->
           /\ LayerScratch(w).bytes >= LayerRequired(Kind(w), w.tokens)
           /\ OperatorAdmitted(w)
           /\ \A request \in RequestsOf(w) : RequestAdmitted(w, request, LinearScratch(w))
      [] w.stage \in {"embed", "final_mix", "head"} ->
           \A request \in RequestsOf(w) :
             RequestAdmitted(w, request, Buffers(w)["provider_scratch"])
-----------------------------------------------------------------------------
(* The call.                                                               *)

ScratchInit == work = NoWork

Call(n, position, bytes) ==
    [stage |-> "entry", tokens |-> n, position |-> position, bytes |-> bytes, layer |-> 0]

\* The layer after this one, or the end of the layers.
NextLayer(w) ==
    IF w.layer = Len(LayerKinds) THEN [w EXCEPT !.stage = "final_mix"]
    ELSE [w EXCEPT !.layer = @ + 1,
                   !.stage = IF LayerKinds[w.layer + 1] = "ple" THEN "ple"
                             ELSE "attention_read"]

After(w) ==
    CASE w.stage = "entry"          -> [w EXCEPT !.stage = "embed"]
      [] w.stage \in {"embed", "moe"} -> NextLayer(w)
      [] w.stage = "ple"            -> [w EXCEPT !.stage = "attention_read"]
      [] w.stage = "attention_read" -> [w EXCEPT !.stage = "mixer"]
      [] w.stage = "mixer"          -> [w EXCEPT !.stage = "moe_read"]
      [] w.stage = "moe_read"       -> [w EXCEPT !.stage = "moe"]
      [] w.stage = "final_mix"      -> [w EXCEPT !.stage = "head"]
      [] w.stage = "head"           -> [w EXCEPT !.stage = "done"]

InWork == work.stage \notin {"none", "done", "refused"}

\* The next step, or the error of the first check that fails.
Proceed ==
    /\ InWork
    /\ work' = IF Admitted(work) THEN After(work) ELSE [work EXCEPT !.stage = "refused"]
-----------------------------------------------------------------------------
\* A call that was given what the executor asked for is never refused for want
\* of room, or for buffers that overlap, by any layer, operator or request below
\* it (kq_model_exec.c:466, kq_layer.c:533, kq_weight_provider.c:378).
CallHasRoom == work.stage # "refused"

\* Nothing is cut, filled or written beyond what it was cut from: the sums of
\* one function are not short of the cursors of another, each answer of the
\* provider goes into a buffer of its size, and the buffers of the past have
\* room for every position of the context.  The intents, which hold 64-bit
\* numbers, lie where such numbers may.
BuffersHold ==
    InWork /\ work.stage # "entry" =>
      /\ Within(LayerScratch(work), Block(work))
      /\ InLayer(work) =>
           LET buffers == Buffers(work)
           IN  /\ SubScratch(work).bytes >= 0
               /\ \A part \in DOMAIN OperatorBuffers(work) :
                    Within(buffers[part], SubScratch(work))
               /\ LinearScratch(work).bytes >= 0
               /\ Within(LinearScratch(work), Weights(work))
               /\ Kind(work) = "ple" => buffers["intents"].at % 8 = 0
      /\ \A request \in RequestsOf(work) :
           /\ Within(Place(work, request.to, request.rows), Buffers(work)[request.to[1]])
           /\ Within(Place(work, request.from, request.columns),
                     Buffers(work)[request.from[1]])
      /\ \A write \in WritesOf(work) :
           4 * write[2] <= Buffers(work)[write[1]].bytes
=============================================================================
