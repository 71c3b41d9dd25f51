----------------------------- MODULE KqRegistry -----------------------------
(***************************************************************************)
(* The semantic model registry (kq_model.c): from an open container to the *)
(* table of what every tensor of the model is.                             *)
(*                                                                         *)
(* kq_model_open_from_source checks that the container describes the one   *)
(* supported topology, then walks a fixed table of semantics, looking each *)
(* of their tensors up by name and comparing its shape and type with what  *)
(* the table says, and accepts the model only if the table accounts for    *)
(* every tensor of the file.  The table is the program's, its sizes are    *)
(* parameters here: the model of a run is the program's, with small sizes. *)
(***************************************************************************)
EXTENDS KqGguf

CONSTANTS
    Dim,                \* the KQ_QWEN_* sizes and the expected PLE arrays
    InitialSemantics    \* KQ_QWEN_INITIAL_SEMANTICS

ASSUME RegistryAssumption ==
    /\ {Dim.layers, InitialSemantics} \subseteq Nat
    /\ {Dim.experts, Dim.ple_members} \subseteq Nat \ {0}

\* The fused table has several members, of whole rows each.  A size that no tensor
\* of the file has, that of both halves of a split, is one that a word can count.
ASSUME SizesAssumption ==
    /\ Dim.ple_members > 1 /\ Dim.ple_rows \in Nat
    /\ Dim.experts * (2 * Dim.intermediate) * Dim.hidden <= MaxWord
    /\ (Dim.index_query + Dim.index_key) * Dim.hidden <= MaxWord

VARIABLE model          \* the registry being built, or open

registryVars == <<ggufVars, model>>

NoAxis == 8

NoLayer == 99
-----------------------------------------------------------------------------
(* The identity of the model (kq_validate_model_identity).                 *)

\* The words that must be there, with the values they must have.
RequiredWords ==
    << <<"block_count", Dim.layers>>, <<"context_length", Dim.context>>,
       <<"embedding_length", Dim.hidden>>, <<"attention.head_count", 24>>,
       <<"attention.head_count_kv", 2>>, <<"attention.key_length", 256>>,
       <<"attention.value_length", 256>>, <<"expert_count", Dim.experts>>,
       <<"expert_used_count", Dim.top_k>>,
       <<"expert_feed_forward_length", Dim.intermediate>>,
       <<"expert_shared_feed_forward_length", Dim.intermediate>>,
       <<"ssm.conv_kernel", 4>>, <<"ssm.state_size", 128>>,
       <<"ssm.group_count", 16>>, <<"ssm.time_step_rank", 48>>,
       <<"ssm.inner_size", 6144>>, <<"full_attention_interval", Dim.interval>>,
       <<"rope.dimension_count", 64>>, <<"hyper_connection.count", 4>>,
       <<"hyper_connection.low_rank", Dim.low_rank>>,
       <<"attention.indexer.head_count", 4>>,
       <<"attention.indexer.key_length", 128>>,
       <<"attention.indexer.top_k", 2048>>, <<"ple.ngram_size", 3>>,
       <<"ple.heads_per_ngram", 8>>, <<"ple.conv_kernel", 4>>,
       <<"ple.eos_token_id", Dim.eos>>,
       <<"embedding_length_per_layer_input", Dim.ple_width>> >>

LayerIds == 0..Dim.layers - 1

\* Every fourth layer is a QSA layer: the fourth of the metadata's pattern.
IsQsaLayer(layer) == (layer + 1) % Dim.interval = 0

LayerPattern == [k \in 1..Dim.layers |-> IF IsQsaLayer(k - 1) THEN 4 ELSE 0]

IdentityRefusal ==
    IF gguf.architecture # "qwen4exp" THEN "UNSUPPORTED_MODEL"
    ELSE IF /\ \A w \in DOMAIN RequiredWords :
                 IsUint32(RequiredWords[w][1], RequiredWords[w][2])
            /\ IsArrayOf("tokenizer.ggml.tokens", "STRING", Dim.vocabulary)
            /\ IsArray("attention.compress_ratios", "INT32", LayerPattern)
            /\ IsArray("ple.layers", "INT32", <<Dim.ple_layer>>)
            /\ IsArray("ple.layer_multipliers", "UINT64", Dim.multipliers)
            /\ IsArray("ple.head_offsets", "UINT64", Dim.head_offsets)
            /\ IsArray("ple.head_vocab_sizes", "UINT64", Dim.head_vocab_sizes)
           THEN "OK"
    ELSE "MODEL_TOPOLOGY_MISMATCH"
-----------------------------------------------------------------------------
(* The table of semantics.                                                 *)

\* One physical tensor that a semantic is bound to (kq_bind_physical).
Part(name, dimensions, types, role, fused, axis) ==
    [name |-> name, dimensions |-> dimensions, types |-> types, role |-> role,
     fused |-> fused, axis |-> axis]

Semantic(id, component, relation, canonical, axis, parts) ==
    [id |-> id, component |-> component, relation |-> relation,
     canonical |-> canonical, axis |-> axis, parts |-> parts]

\* kq_add_single_entry: one tensor, whole.
Single(id, component, relation, canonical, name, physical, types) ==
    Semantic(id, component, relation, canonical, NoAxis,
             <<Part(name, physical, types, "WHOLE", 0, NoAxis)>>)

Vector(id, name, component, relation, length, types) ==
    Single(id, component, relation, <<length>>, name, <<length>>, types)

\* GGUF lists the dimensions of a matrix from the fastest to the slowest.
Matrix(id, name, component, relation, rows, columns, types) ==
    Single(id, component, relation, <<rows, columns>>, name, <<columns, rows>>,
           types)

Convolution(id, name, component, channels) ==
    Single(id, component, "TRANSFORMED", <<channels, 1, 4>>, name,
           <<4, channels>>, {"F32"})

F32 == {"F32"}
Q8  == {"Q8_0"}

\* kq_build_top_level.
TopLevel ==
    LET table(id, name, rows, columns) ==
          Matrix(<<NoLayer, id>>, <<NoLayer, name>>, "TOP", "RENAMED", rows,
                 columns, Q8)
    IN  << table("text.token_embedding", "token_embd", Dim.vocabulary, Dim.hidden),
           table("text.lm_head", "output", Dim.vocabulary, Dim.hidden),
           Vector(<<NoLayer, "text.final_gr.norm">>,
                  <<NoLayer, "output_hc_norm">>, "TOP", "RENAMED", Dim.width, F32),
           table("text.final_gr.down", "output_hc_down", Dim.low_rank, Dim.width),
           table("text.final_gr.up", "output_hc_up", Dim.width, Dim.low_rank) >>

\* kq_build_gated_residual: the same four tensors before attention and MoE.
GatedResidual(l) ==
    << Matrix(<<l, "gr.attn.inject">>, <<l, "hc_attn_inject">>, "GR", "RENAMED",
              4, Dim.width, F32),
       Vector(<<l, "gr.attn.norm">>, <<l, "hc_attn_norm">>, "GR", "RENAMED",
              Dim.width, F32),
       Matrix(<<l, "gr.attn.down">>, <<l, "hc_attn_down">>, "GR", "RENAMED",
              Dim.low_rank, Dim.width, Q8),
       Matrix(<<l, "gr.attn.up">>, <<l, "hc_attn_up">>, "GR", "RENAMED",
              Dim.width, Dim.low_rank, Q8),
       Matrix(<<l, "gr.moe.inject">>, <<l, "hc_ffn_inject">>, "GR", "RENAMED",
              4, Dim.width, F32),
       Vector(<<l, "gr.moe.norm">>, <<l, "hc_ffn_norm">>, "GR", "RENAMED",
              Dim.width, F32),
       Matrix(<<l, "gr.moe.down">>, <<l, "hc_ffn_down">>, "GR", "RENAMED",
              Dim.low_rank, Dim.width, Q8),
       Matrix(<<l, "gr.moe.up">>, <<l, "hc_ffn_up">>, "GR", "RENAMED",
              Dim.width, Dim.low_rank, Q8) >>

\* kq_build_gdn.
Gdn(l) ==
    << Vector(<<l, "gdn.a_log">>, <<l, "ssm_a">>, "GDN", "TRANSFORMED",
              Dim.gdn_heads, F32),
       Convolution(<<l, "gdn.conv">>, <<l, "ssm_conv1d">>, "GDN", Dim.gdn_channels),
       Vector(<<l, "gdn.dt_bias">>, <<l, "ssm_dt.bias">>, "GDN", "RENAMED",
              Dim.gdn_heads, F32),
       Matrix(<<l, "gdn.alpha">>, <<l, "ssm_alpha">>, "GDN", "TRANSFORMED",
              Dim.gdn_heads, Dim.hidden, F32),
       Matrix(<<l, "gdn.beta">>, <<l, "ssm_beta">>, "GDN", "TRANSFORMED",
              Dim.gdn_heads, Dim.hidden, F32),
       Matrix(<<l, "gdn.qkv">>, <<l, "attn_qkv">>, "GDN", "TRANSFORMED",
              Dim.gdn_channels, Dim.hidden, Q8),
       Matrix(<<l, "gdn.gate">>, <<l, "attn_gate">>, "GDN", "TRANSFORMED",
              Dim.inner, Dim.hidden, Q8),
       Vector(<<l, "gdn.norm">>, <<l, "ssm_norm">>, "GDN", "RENAMED",
              Dim.gdn_head, F32),
       Matrix(<<l, "gdn.out">>, <<l, "ssm_out">>, "GDN", "TRANSFORMED",
              Dim.hidden, Dim.inner, Q8) >>

\* kq_build_qsa: the indexer's projection is one matrix in the checkpoint and
\* two tensors, its query rows and its key rows, in the file.
Qsa(l) ==
    << Vector(<<l, "qsa.k_norm">>, <<l, "attn_k_norm">>, "QSA", "RENAMED",
              Dim.qsa_head, F32),
       Matrix(<<l, "qsa.k">>, <<l, "attn_k">>, "QSA", "RENAMED",
              Dim.qsa_kv, Dim.hidden, Q8),
       Matrix(<<l, "qsa.output">>, <<l, "attn_output">>, "QSA", "RENAMED",
              Dim.hidden, Dim.inner, Q8),
       Vector(<<l, "qsa.q_norm">>, <<l, "attn_q_norm">>, "QSA", "RENAMED",
              Dim.qsa_head, F32),
       Matrix(<<l, "qsa.q">>, <<l, "attn_q">>, "QSA", "RENAMED",
              2 * Dim.inner, Dim.hidden, Q8),
       Matrix(<<l, "qsa.v">>, <<l, "attn_v">>, "QSA", "RENAMED",
              Dim.qsa_kv, Dim.hidden, Q8),
       Vector(<<l, "qsa.indexer.k_norm">>, <<l, "indexer.k_norm">>, "INDEXER",
              "RENAMED", Dim.index_key, F32),
       Vector(<<l, "qsa.indexer.q_norm">>, <<l, "indexer.q_norm">>, "INDEXER",
              "RENAMED", Dim.index_key, F32),
       Semantic(<<l, "qsa.indexer.qk">>, "INDEXER", "SPLIT",
                <<Dim.index_query + Dim.index_key, Dim.hidden>>, NoAxis,
                << Part(<<l, "indexer.q_proj">>, <<Dim.hidden, Dim.index_query>>,
                        {"BF16"}, "INDEX_QUERY", 0, NoAxis),
                   Part(<<l, "indexer.k_proj">>, <<Dim.hidden, Dim.index_key>>,
                        {"BF16"}, "INDEX_KEY", 0, NoAxis) >>) >>

\* kq_build_moe: the routed experts are stacked, the checkpoint's stack by its
\* first axis and the file's by its last.
Moe(l) ==
    LET stack == <<Dim.hidden, Dim.intermediate, Dim.experts>>
    IN  << Matrix(<<l, "moe.router">>, <<l, "ffn_gate_inp">>, "MOE", "RENAMED",
                  Dim.experts, Dim.hidden, F32),
           Semantic(<<l, "moe.routed.down">>, "ROUTED", "RENAMED",
                    <<Dim.experts, Dim.hidden, Dim.intermediate>>, 0,
                    <<Part(<<l, "ffn_down_exps">>,
                           <<Dim.intermediate, Dim.hidden, Dim.experts>>,
                           {"Q5_1", "Q8_0"}, "WHOLE", 0, 2)>>),
           Matrix(<<l, "moe.shared.down">>, <<l, "ffn_down_shexp">>, "SHARED",
                  "RENAMED", Dim.hidden, Dim.intermediate, Q8),
           Matrix(<<l, "moe.shared.gate">>, <<l, "ffn_gate_shexp">>, "SHARED",
                  "RENAMED", Dim.intermediate, Dim.hidden, Q8),
           Matrix(<<l, "moe.shared.up">>, <<l, "ffn_up_shexp">>, "SHARED",
                  "RENAMED", Dim.intermediate, Dim.hidden, Q8),
           Single(<<l, "moe.shared.gate_weight">>, "SHARED", "RENAMED",
                  <<1, Dim.hidden>>, <<l, "ffn_gate_inp_shexp">>, <<Dim.hidden>>,
                  F32),
           Semantic(<<l, "moe.routed.gate_up">>, "ROUTED", "SPLIT",
                    <<Dim.experts, 2 * Dim.intermediate, Dim.hidden>>, 0,
                    << Part(<<l, "ffn_gate_exps">>, stack, {"Q4_K", "Q5_K"},
                            "GATE", 0, 2),
                       Part(<<l, "ffn_up_exps">>, stack, {"Q4_K", "Q5_K"},
                            "UP", 0, 2) >>) >>

\* kq_build_ple, the dense tensors of the PLE layer.
PleDense(l) ==
    << Convolution(<<l, "ple.conv">>, <<l, "ple_conv1d">>, "PLE", Dim.width),
       Matrix(<<l, "ple.key">>, <<l, "ple_key">>, "PLE", "RENAMED",
              Dim.width, Dim.hidden, Q8),
       Vector(<<l, "ple.norm_conv">>, <<l, "ple_norm_conv">>, "PLE",
              "TRANSFORMED", Dim.width, F32),
       Vector(<<l, "ple.norm_key">>, <<l, "ple_norm_key">>, "PLE",
              "TRANSFORMED", Dim.width, F32),
       Vector(<<l, "ple.norm_query">>, <<l, "ple_norm_query">>, "PLE",
              "TRANSFORMED", Dim.width, F32),
       Matrix(<<l, "ple.value">>, <<l, "ple_value">>, "PLE", "RENAMED",
              Dim.hidden, Dim.hidden, Q8) >>

\* The checkpoint's table shards are one fused tensor of the file.
PleTable(l) ==
    [m \in 1..Dim.ple_members |->
       Semantic(<<l, "ple.table", m - 1>>, "PLE_TABLE", "FUSED",
                <<Dim.ple_rows, Dim.ple_width>>, NoAxis,
                <<Part(<<NoLayer, "per_layer_token_embd">>,
                       <<Dim.ple_width, Dim.ple_members * Dim.ple_rows>>,
                       {"IQ4_NL"}, "FUSED_MEMBER", m - 1, NoAxis)>>)]

\* kq_add_ple_metadata: semantics that are arrays of the metadata.
PleAddresses(l) ==
    LET derived(key, items) ==
          Semantic(<<l, key>>, "PLE_ADDRESS", "METADATA_DERIVED", <<Len(items)>>,
                   NoAxis, << >>)
    IN  << derived("ple.layer_multipliers", Dim.multipliers),
           derived("ple.head_offsets", Dim.head_offsets),
           derived("ple.head_vocab_sizes", Dim.head_vocab_sizes) >>

\* The order of kq_model_open_from_source.
Registry ==
    LET upto[n \in 0..Dim.layers] ==
          IF n = 0 THEN TopLevel
          ELSE upto[n - 1] \o GatedResidual(n - 1)
                           \o (IF IsQsaLayer(n - 1) THEN Qsa(n - 1) ELSE Gdn(n - 1))
                           \o Moe(n - 1)
    IN  upto[Dim.layers] \o PleDense(Dim.ple_layer) \o PleTable(Dim.ple_layer)
                         \o PleAddresses(Dim.ple_layer)
-----------------------------------------------------------------------------
(* Registering, and the end of the open.                                   *)

EmptyModel == [registered |-> 0, coverage |-> {}]

Registered == 1..model.registered

\* kq_source_find_tensor: the places at which a tensor of that name is.
Places(name) == {i \in 1..parsed.tensors : Tensor(i).name = name}

Place(part) == CHOOSE i \in Places(part.name) : TRUE

\* kq_bind_physical, once the tensor is found.  The members of a fused tensor
\* share it: only the first must find it free.
BindChecks(part, covered) ==
    LET t == Tensor(Place(part))
    IN  << <<t.dimensions = part.dimensions, "MODEL_TOPOLOGY_MISMATCH">>,
           <<t.type \in part.types, "MODEL_TOPOLOGY_MISMATCH">>,
           <<part.axis # NoAxis => part.axis < Len(t.dimensions)
                                   /\ t.dimensions[part.axis + 1] = Dim.experts,
             "MODEL_TOPOLOGY_MISMATCH">>,
           <<Place(part) \notin covered
               \/ (part.role = "FUSED_MEMBER" /\ part.fused # 0),
             "SEMANTIC_MAPPING_FAILED">> >>

BindRefusal(part, covered) ==
    IF \E i \in Places(part.name) : Places(part.name) = {i}
      THEN FirstRefusal(BindChecks(part, covered))
      ELSE "SEMANTIC_MAPPING_FAILED"

\* The parts bound before part p of a semantic cover their tensors already.
CoveredBefore(s, p) ==
    model.coverage \cup UNION {Places(s.parts[q].name) : q \in 1..p - 1}

MetadataKey(s) == s.id[2]

\* KQ_SEMANTIC_MAX_DIMS.
MaxRank == 4

\* kq_begin_semantic and the binding of every part.  The texts of the program's
\* own table fit their buffers.
RegisterRefusal(s) ==
    FirstRefusal(
      << <<s.relation = "METADATA_DERIVED" =>
             IsArrayOf(MetadataKey(s), "UINT64", s.canonical[1]),
           "MODEL_TOPOLOGY_MISMATCH">>,
         <<model.registered < InitialSemantics, "SEMANTIC_MAPPING_FAILED">>,
         <<\A k \in Registered : Registry[k].id # s.id, "SEMANTIC_MAPPING_FAILED">>,
         <<Len(s.canonical) \in 1..MaxRank, "SEMANTIC_MAPPING_FAILED">>,
         <<\A d \in DOMAIN s.canonical : s.canonical[d] # 0,
           "SEMANTIC_MAPPING_FAILED">> >>
      \o [p \in DOMAIN s.parts |->
            LET refusal == BindRefusal(s.parts[p], CoveredBefore(s, p))
            IN  <<refusal = "OK", refusal>>])

RegistryParts == {"model", "semantics", "coverage"}

\* Every failure after the first allocation runs kq_model_close; the container
\* stays open, for it is the caller's.
RefuseModel(status) ==
    /\ held' = held \ RegistryParts
    /\ model' = EmptyModel
    /\ stage' = "container"
    /\ outcome' = status
    /\ UNCHANGED <<file, reader, parsed, gguf>>

RegistryInit == GgufInit /\ model = EmptyModel

AllocateModel ==
    /\ stage = "container" /\ outcome = "OK"
    /\ \/ Acquire({"model"}, "entries") /\ UNCHANGED model
       \/ RefuseModel("OUT_OF_MEMORY")

\* Both tables are asked for before either is looked at.
AllocateEntries ==
    /\ stage = "entries"
    /\ \E given \in SUBSET {"semantics", "coverage"} : Acquire(given, "allocated")
    /\ UNCHANGED model

CheckEntries ==
    /\ stage = "allocated"
    /\ IF RegistryParts \subseteq held
         THEN Acquire({}, "identity") /\ UNCHANGED model
         ELSE RefuseModel("OUT_OF_MEMORY")

ValidateIdentity ==
    /\ stage = "identity"
    /\ IF IdentityRefusal = "OK"
         THEN Acquire({}, "registry") /\ UNCHANGED model
         ELSE RefuseModel(IdentityRefusal)

Register ==
    /\ stage = "registry" /\ model.registered < Len(Registry)
    /\ LET s       == Registry[model.registered + 1]
           verdict == RegisterRefusal(s)
       IN  IF verdict = "OK"
             THEN /\ model' = [registered |-> model.registered + 1,
                               coverage   |-> CoveredBefore(s, Len(s.parts) + 1)]
                  /\ UNCHANGED ggufVars
             ELSE RefuseModel(verdict)

\* Mutant: a tensor that nothing explains is let through.
CompletionChecksLenient ==
    << <<model.registered = InitialSemantics, "SEMANTIC_MAPPING_FAILED">> >>

\* kq_validate_registry_complete.
CompletionChecks ==
    << <<\A k \in Registered :
           Registry[k].relation = "SPLIT" => Len(Registry[k].parts) = 2,
         "SEMANTIC_MAPPING_FAILED">>,
       <<\A k \in Registered :
           Registry[k].relation = "FUSED" => Len(Registry[k].parts) = 1,
         "SEMANTIC_MAPPING_FAILED">>,
       <<model.registered = InitialSemantics, "SEMANTIC_MAPPING_FAILED">>,
       <<model.coverage = 1..parsed.tensors, "UNKNOWN_PHYSICAL_TENSOR">>,
       <<\A k \in Registered : Registry[k].parts # << >>
                               \/ Registry[k].relation = "METADATA_DERIVED",
         "SEMANTIC_MAPPING_FAILED">> >>

CompleteRegistry ==
    /\ stage = "registry" /\ model.registered = Len(Registry)
    /\ LET verdict == FirstRefusal(CompletionChecks)
       IN  IF verdict = "OK"
             THEN Acquire({}, "model") /\ UNCHANGED model
             ELSE RefuseModel(verdict)

\* kq_model_close.
CloseModel ==
    /\ stage = "model"
    /\ held' = held \ RegistryParts
    /\ model' = EmptyModel
    /\ stage' = "container"
    /\ outcome' = "closed"
    /\ UNCHANGED <<file, reader, parsed, gguf>>

RegistryNext == AllocateModel \/ AllocateEntries \/ CheckEntries
                \/ ValidateIdentity \/ Register \/ CompleteRegistry
-----------------------------------------------------------------------------
(* Properties.                                                             *)

\* The places in the table, as <<semantic, part>>, that name a tensor.
Binders(i) ==
    {b \in Registered \X (1..2) :
       /\ b[2] \in DOMAIN Registry[b[1]].parts
       /\ Registry[b[1]].parts[b[2]].name = Tensor(i).name}

Bound(b) == Registry[b[1]].parts[b[2]]

BoundOnce(i) ==
    \/ \E b \in Binders(i) : Binders(i) = {b}
    \/ /\ \A b \in Binders(i) : Bound(b).role = "FUSED_MEMBER"
       /\ {Bound(b).fused : b \in Binders(i)} = 0..Dim.ple_members - 1
       /\ \A b, c \in Binders(i) : b # c => Bound(b).fused # Bound(c).fused

Opening == stage # "model" /\ stage' = "model"

\* When a model opens, every tensor of the file is bound exactly once, as a
\* whole or as one half of a split; a fused tensor is bound by each of its
\* members, once.  Nothing in the file is left unexplained and no two semantics
\* read the same weights (kq_validate_registry_complete, kq_model.c:593).
EveryTensorBoundOnce ==
    [][Opening => (\A i \in 1..parsed.tensors : BoundOnce(i))']_registryVars

=============================================================================
