------------------------------ MODULE MCKqText ------------------------------
(***************************************************************************)
(* The files a run starts from, and the calls made over the one that opens. *)
(*                                                                         *)
(* "directories": three tensors of one or two words at every combination   *)
(* of four offsets, in files that end with the last or earlier; they are   *)
(* well formed up to their data section and name another architecture.     *)
(* "cuts": a small file with records of every type, ending after any       *)
(* number of bytes.  "scars": the same file with one thing wrong in it.    *)
(* "damages": a whole model with small sizes, once as it should be and     *)
(* once with each of the things that can be wrong with it.                 *)
(***************************************************************************)
EXTENDS KqText, TLC

MCDim ==
    [layers |-> 2, interval |-> 2, ple_layer |-> 0, context |-> 64,
     hidden |-> 256, vocabulary |-> 49, width |-> 1024, low_rank |-> 32,
     experts |-> 2, top_k |-> 1, intermediate |-> 32, eos |-> 9,
     ple_width |-> 32, ple_members |-> 2, ple_rows |-> 3,
     gdn_heads |-> 3, gdn_head |-> 8, gdn_channels |-> 40, inner |-> 64,
     qsa_head |-> 16, qsa_kv |-> 32, index_query |-> 12, index_key |-> 4,
     multipliers |-> <<7, 11, 13>>, head_offsets |-> <<0, 5>>,
     head_vocab_sizes |-> <<5, 7>>]

MCMaxWord == 2 ^ 29 - 1

Word(key, value) == [key |-> key, type |-> "UINT32", value |-> value]

List(key, element, items) ==
    [key |-> key, type |-> "ARRAY", value |-> [element |-> element, items |-> items]]

Named(architecture) ==
    [key |-> "general.architecture", type |-> "STRING", value |-> architecture]

\* A file whose header is right and which ends `tail' bytes behind the start of
\* its data section.
MetadataSize(metadata) ==
    LET upto[n \in 0..Len(metadata)] ==
          IF n = 0 THEN 24 ELSE upto[n - 1] + MetadataBytes(metadata[n])
    IN  upto[Len(metadata)]

DirectorySize(metadata, tensors) ==
    LET upto[n \in 0..Len(tensors)] ==
          IF n = 0 THEN MetadataSize(metadata)
          ELSE upto[n - 1] + TensorBytes(tensors[n])
    IN  upto[Len(tensors)]

Aligned(value, alignment) == ((value + alignment - 1) \div alignment) * alignment

FileOf(metadata, tensors, alignment, tail) ==
    [size |-> Aligned(DirectorySize(metadata, tensors), alignment) + tail,
     magic |-> "GGUF", version |-> 3,
     metadata_count |-> Len(metadata), tensor_count |-> Len(tensors),
     metadata |-> metadata, tensors |-> tensors]

-----------------------------------------------------------------------------
(* Small directories.                                                      *)

SmallTensor(name, words, offset) ==
    [name |-> <<NoLayer, name>>, dimensions |-> <<words>>, type |-> "F32",
     offset |-> offset]

SmallMetadata == <<Named("other"), Word("general.alignment", 4)>>

\* Three bits of n for each tensor, and one for the end of the file.
SmallFile(n) ==
    LET tensor(name, bits) ==
          SmallTensor(name, 1 + (bits % 2), 4 * ((bits \div 2) % 4))
    IN  FileOf(SmallMetadata,
               <<tensor("a", n), tensor("b", n \div 8), tensor("c", n \div 64)>>,
               4, 12 + 4 * (n \div 512))

-----------------------------------------------------------------------------
(* A file with a record of every type, its cuts and its scars.              *)

RichMetadata ==
    << Named("other"), Word("general.alignment", 4),
       [key |-> "half",  type |-> "UINT16",  value |-> 1],
       [key |-> "sign",  type |-> "INT32",   value |-> 1],
       [key |-> "real",  type |-> "FLOAT32", value |-> 1],
       [key |-> "truth", type |-> "BOOL",    value |-> 1],
       List("texts", "STRING", <<"t", "u">>),
       List("numbers", "INT32", <<1, 2, 3>>),
       List("wide", "UINT64", <<1>>) >>

RichTensors ==
    << SmallTensor("a", 2, 0),
       [name |-> <<NoLayer, "q">>, dimensions |-> <<32, 2>>, type |-> "Q8_0",
        offset |-> 8] >>

Rich(metadata, tensors) == FileOf(metadata, tensors, 4, 76)

RichFile == Rich(RichMetadata, RichTensors)

\* Other records, in a file that is long enough for them.
Scarred(metadata, tensors) ==
    [RichFile EXCEPT !.metadata = metadata, !.tensors = tensors, !.size = @ + 100]

Headers ==
    << [RichFile EXCEPT !.magic = "GGML"], [RichFile EXCEPT !.version = 2],
      [RichFile EXCEPT !.metadata_count = 0], [RichFile EXCEPT !.tensor_count = 0],
      [RichFile EXCEPT !.metadata_count = 2 ^ 26],
      [RichFile EXCEPT !.tensor_count = 2 ^ 26],
      [RichFile EXCEPT !.metadata_count = MaxMetadata + 1],
      [RichFile EXCEPT !.tensor_count = MaxTensors + 1] >>

\* Records in the place of, or behind, the right ones.
BadMetadata ==
    << [RichMetadata EXCEPT ![1] = Word("general.architecture", 1)],
      [RichMetadata EXCEPT ![1].key = "name"],
      [RichMetadata EXCEPT ![1].value = NotUtf8],
      [RichMetadata EXCEPT ![1].value = TooLong],
      [RichMetadata EXCEPT ![1].key = TooLong],
      [RichMetadata EXCEPT ![2] = [key |-> "general.alignment", type |-> "INT32",
                                   value |-> 4]],
      [RichMetadata EXCEPT ![2].value = 0], [RichMetadata EXCEPT ![2].value = 3],
      [RichMetadata EXCEPT ![2].value = 8192],
      [RichMetadata EXCEPT ![3].key = "general.alignment"],
      [RichMetadata EXCEPT ![3].type = "FLOAT64"],
      [RichMetadata EXCEPT ![6].value = 2],
      [RichMetadata EXCEPT ![7].value.items[2] = NotUtf8],
      [RichMetadata EXCEPT ![8].value.items = [k \in 1..MaxArray + 1 |-> 0]],
      [RichMetadata EXCEPT ![9].value.element = "FLOAT32"] >>

BadTensors ==
    LET named == RichTensors[2]
    IN  << [named EXCEPT !.name = NotUtf8], [named EXCEPT !.name = <<NoLayer, "a">>],
          [named EXCEPT !.dimensions = << >>],
          [named EXCEPT !.dimensions = <<32, 1, 1, 1, 1, 1, 1, 1, 1>>],
          [named EXCEPT !.dimensions = <<32, 0>>],
          [named EXCEPT !.dimensions = <<2 ^ 16, 2 ^ 16>>],
          [named EXCEPT !.dimensions = <<33, 2>>],
          [named EXCEPT !.type = "Q2_K"],
          [named EXCEPT !.offset = 10],
          [named EXCEPT !.offset = 2 ^ 29 - 4],
          [named EXCEPT !.offset = 2 ^ 29 - 100],
          [named EXCEPT !.offset = 12],
          [named EXCEPT !.type = "F32", !.dimensions = <<2 ^ 28>>],
          [named EXCEPT !.type = "F32", !.dimensions = <<2 ^ 26>>] >>

\* More records than may be looked at.
Bulky == RichMetadata
           \o [k \in 1..30 |-> List(ToString(k), "STRING", [t \in 1..MaxArray |-> "t"])]

\* Nothing at the start of the data section.
ShiftedTensors == << [RichTensors[1] EXCEPT !.offset = 4],
                     [RichTensors[2] EXCEPT !.offset = 12] >>
-----------------------------------------------------------------------------
(* The vocabulary.                                                         *)

MCByteValues ==
    {97, 98, 99, 101, 105, 107, 108, 109, 110, 114, 115, 116, 117, 121,
     39, 32, 10, 49, 33, 60, 62, 47, 82, 76,
     195, 169, 204, 129, 240, 145, 164, 181, 176}

MCLetter == {97, 98, 99, 101, 105, 107, 108, 109, 110, 114, 115, 116, 117, 121,
             82, 76, 233}
MCNumber == {49}

\* e with an acute, and two code points of Unicode 13 with their composition.
MCCompose == (<<101, 769>> :> 233) @@ (<<71989, 71984>> :> 71992)
MCUnassigned == {71984, 71989, 71992}

BlankCode == 288

MCMerges ==
    << <<97, 32, 97>>, <<98, 32, 97>>, <<97, 97, 32, 98>>, <<98, 97, 32, 98>>,
       <<97, 97, 32, 97, 97>>, <<BlankCode, 32, 97>>, <<195, 32, 169>>,
       <<BlankCode, 97, 32, 98>> >>

MCSpecial ==
    << [text |-> <<60, 101, 62>>, skipped |-> TRUE],
       [text |-> <<60, 115, 62>>, skipped |-> TRUE],
       [text |-> <<60, 109, 62>>, skipped |-> TRUE],
       [text |-> <<60, 99, 62>>,  skipped |-> FALSE],
       [text |-> <<60, 107, 62>>, skipped |-> FALSE],
       [text |-> <<60, 47, 107, 62>>, skipped |-> FALSE] >>

ByteOrder ==
    [k \in 1..Cardinality(MCByteValues) |->
       CHOOSE b \in MCByteValues :
         Cardinality({c \in MCByteValues : c < b}) = k - 1]

ByteId(b) == Cardinality({c \in MCByteValues : c < b})

MCBaseVocabulary == Cardinality(MCByteValues) + Len(MCMerges)

MCTokens ==
    [k \in 1..Cardinality(MCByteValues) |-> <<ByteToUnicode(ByteOrder[k])>>]
      \o [k \in 1..Len(MCMerges) |-> SelectSeq(MCMerges[k], LAMBDA c : c # 32)]
      \o [k \in 1..Len(MCSpecial) |-> MCSpecial[k].text]
      \o [k \in 1..2 |-> PadText(MCBaseVocabulary + Len(MCSpecial) + k - 1)]

MCVocabulary ==
    [tokens |-> MCTokens,
     types  |-> [k \in 1..Len(MCTokens) |-> IF k > MCBaseVocabulary THEN 3 ELSE 1],
     merges |-> MCMerges]
-----------------------------------------------------------------------------
(* The model.                                                              *)

ModelMetadata ==
    <<Named("qwen4exp")>>
    \o [w \in DOMAIN RequiredWords |-> Word(RequiredWords[w][1], RequiredWords[w][2])]
    \o << List("tokenizer.ggml.tokens", "STRING", Vocabulary.tokens),
          List("attention.compress_ratios", "INT32", LayerPattern),
          List("ple.layers", "INT32", <<Dim.ple_layer>>),
          List("ple.layer_multipliers", "UINT64", Dim.multipliers),
          List("ple.head_offsets", "UINT64", Dim.head_offsets),
          List("ple.head_vocab_sizes", "UINT64", Dim.head_vocab_sizes),
          [key |-> "tokenizer.ggml.model", type |-> "STRING", value |-> "gpt2"],
          [key |-> "tokenizer.ggml.pre", type |-> "STRING", value |-> "qwen35"],
          Word("tokenizer.ggml.eos_token_id", BaseVocabulary + 2),
          Word("tokenizer.ggml.padding_token_id", BaseVocabulary),
          Word("tokenizer.ggml.bos_token_id", BaseVocabulary),
          [key |-> "tokenizer.ggml.add_bos_token", type |-> "BOOL", value |-> 0],
          List("tokenizer.ggml.token_type", "INT32", Vocabulary.types),
          List("tokenizer.ggml.merges", "STRING", Vocabulary.merges) >>

\* The tensors the table asks for, each once, one behind the other.
SomeType(types) == CHOOSE t \in types : TRUE

Behind(tensors) ==
    IF tensors = << >> THEN 0
    ELSE LET last == tensors[Len(tensors)]
         IN  Aligned(last.offset + Packed(last), 32)

ModelTensors ==
    LET registry == Registry
        place(tensors, part) ==
          Append(tensors, [name       |-> part.name,
                           dimensions |-> part.dimensions,
                           type       |-> SomeType(part.types),
                           offset     |-> Behind(tensors)])
        upto[n \in 0..Len(registry)] ==
          IF n = 0 THEN << >>
          ELSE LET parts == registry[n].parts
               IN  IF parts = << >> \/ parts[1].fused # 0 THEN upto[n - 1]
                   ELSE IF Len(parts) = 1 THEN place(upto[n - 1], parts[1])
                   ELSE place(place(upto[n - 1], parts[1]), parts[2])
    IN  upto[Len(registry)]

Model == LET metadata == ModelMetadata
             tensors  == ModelTensors
         IN  FileOf(metadata, tensors, 32, Behind(tensors))
-----------------------------------------------------------------------------
\* Each damage is a file that differs from the model's in one thing.
Without(sequence, n) ==
    SubSeq(sequence, 1, n - 1) \o SubSeq(sequence, n + 1, Len(sequence))

Metas(metadata) ==
    LET tensors == ModelTensors
    IN  FileOf(metadata, tensors, 32, Behind(tensors))

Tables(tensors) == FileOf(ModelMetadata, tensors, 32, Behind(ModelTensors))

\* One more tensor than the table has a semantic for.
Extra == Append(ModelTensors, [name |-> <<NoLayer, "extra">>, dimensions |-> <<8>>,
                               type |-> "F32", offset |-> Behind(ModelTensors)])

\* One tensor of each part of the model.
SomeTensors == {1, 3, 6, 23, 30, 40, 55, 62}

\* An identity word, two arrays of the identity, one of them too short.
SomeKeys == {2, 20, 31, 32}

Damages == {"drop", "type", "shape"} \X SomeTensors
             \cup {"no key", "mistyped", "other value"} \X SomeKeys

\* The file with the n-th thing of a kind wrong in it.
MCImage(f) ==
    LET kind     == f[1]
        n        == f[2]
        metadata == ModelMetadata
        tensors  == ModelTensors
    IN  CASE kind = "directory" -> SmallFile(n)
          [] kind = "cut"       -> [RichFile EXCEPT !.size = n]
          [] kind = "header"    -> Headers[n]
          [] kind = "metadata"  -> Scarred(BadMetadata[n], RichTensors)
          [] kind = "tensor"    -> Scarred(RichMetadata, <<RichTensors[1], BadTensors[n]>>)
          [] kind = "shifted"   -> Scarred(RichMetadata, ShiftedTensors)
          [] kind = "bulky"     -> Rich(Bulky, RichTensors)
          [] kind = "model"     -> Model
          [] kind = "drop"      -> Tables(Without(tensors, n))
          [] kind = "type"      -> Tables([tensors EXCEPT ![n].type = "Q5_1"])
          [] kind = "shape"     -> Tables([tensors EXCEPT ![n].dimensions[1] = 32 * 5])
          [] kind = "extra"     -> FileOf(metadata, Extra, 32, Behind(Extra))
          [] kind = "no key"    -> Metas(Without(metadata, n))
          [] kind = "mistyped"  -> Metas([metadata EXCEPT ![n] =
                                     [key |-> metadata[n].key, type |-> "INT32",
                                      value |-> 0]])
          [] kind = "other value" ->
               Metas([metadata EXCEPT ![n] =
                        IF metadata[n].type = "ARRAY"
                          THEN [metadata[n] EXCEPT !.value.items = Tail(@)]
                          ELSE [metadata[n] EXCEPT !.value = 1000]])
          \* Accepted by the registry, refused by the tokenizer.
          [] kind = "other order" ->
               Metas([metadata EXCEPT ![Len(metadata)].value.items =
                        <<@[2], @[1]>> \o SubSeq(@, 3, Len(@))])
          [] kind = "other type" ->
               FileOf([metadata EXCEPT ![Len(metadata) - 1].value.items[1] = 6],
                      [k \in DOMAIN tensors |->
                         IF tensors[k].type = "Q4_K" THEN [tensors[k] EXCEPT !.type = "Q5_K"]
                         ELSE tensors[k]], 32, Behind(tensors))

MCFiles == ({"directory"} \X (0..1023))
             \cup ({"cut"} \X (0..RichFile.size))
             \cup ({"header"} \X DOMAIN Headers)
             \cup ({"metadata"} \X DOMAIN BadMetadata)
             \cup ({"tensor"} \X DOMAIN BadTensors)
             \cup ({"shifted", "bulky", "model", "extra", "other order",
                    "other type"} \X {1})
             \cup Damages
-----------------------------------------------------------------------------
(* The calls.                                                              *)

\* The gate and up of the stacked experts, both members of the PLE table, and a
\* plain tensor, its own container's or not, asked for as each kind.
MCCall ==
    {c \in Calls :
       \/ c.semantic = 29 /\ c.own
       \/ c.semantic \in {60, 61} /\ c.own /\ c.kind # "EXPERT"
       \/ c.semantic = 1 /\ c.binding = 0 /\ ~c.canonical /\ c.expert = 0}

\* Up to three code points of any class, up to four that are blank or not, the
\* words that the merges are about, and texts with a point to them.
MCText ==
    LET upto(n, S) == UNION {[1..k -> S] : k \in 0..n}
    IN  upto(3, {97, 115, 39, 32, 10, 49, 33}) \cup upto(4, {97, 32, 10, 33})
          \cup upto(6, {97, 98})
          \cup { <<39, 82, 101>>, <<39, 108, 76, 97>>, <<97, 39, 108, 97>>,
                 <<101, 769, 97>>, <<32, 233, 101, 769>>, <<769, 101>>,
                 <<71989, 71984, 101, 769>>,
                 <<60, 115, 62>>, <<97, 60, 60, 115, 62, 62, 97>>, <<60, 115>>,
                 <<60, 107, 62, 60, 47, 107, 62, 32, 97>>,
                 <<97, NotUtf8>>, <<60, 115, 62, NotUtf8>>, <<NotUtf8, 60, 115, 62>>,
                 [k \in 1..MaxInput + 1 |-> 97] }

\* Half a code point, its other half, a stray continuation, a letter, a special
\* token of each kind, an id of the padding, one beyond.
MCIds ==
    LET some == {ByteId(195), ByteId(169), ByteId(240), ByteId(97),
                 BaseVocabulary, BaseVocabulary + 3,
                 BaseVocabulary + Len(Special), ModelVocabulary}
    IN  UNION {[1..k -> some] : k \in 0..3}

Message(role, text) == [role |-> role, type |-> "text", content |-> text]

MCMessages ==
    LET system == Message("system", <<97>>)
        user   == Message("user", <<32, 97, 32, 98, 10>>)
        answer == Message("assistant", <<49>>)
    IN  { << >>, <<user>>, <<system>>, <<system, user>>, <<user, answer>>,
          <<user, answer, user>>, <<user, user>>, <<answer>>, <<user, system>>,
          <<[user EXCEPT !.type = "image"]>>, <<Message("tool", <<97>>)>>,
          <<Message("user", <<NotUtf8>>)>>, <<Message("user", <<32, 10>>)>>,
          <<Message("user", <<60, 109, 62>>)>> }

MCWeight == [d \in 0..4 |-> <<8, 3, 1, 0, 0>>[d + 1]]

MCPermuted == [s \in 0..15 |-> ((s * 3) \div 2) % 8]

Policy(inverse, top_p, top_k) ==
    [version |-> 1, flags |-> 0, reserved |-> 0, inverse |-> inverse,
     top_p |-> top_p, top_k |-> top_k]

MCPolicies ==
    { Policy(1, 95, 2), Policy(1, 100, 0), Policy(2, 100, 1), Policy(2, 50, 0),
      Policy(3, 100, 2),
      Policy(1, 0, 3), Policy(1, 75, 4), Policy(1, 30, 2),
      Policy(0, 95, 2), Policy(NotFinite, 95, 2), Policy(1, 101, 2),
      Policy(1, NotFinite, 2), Policy(1, 95, 5),
      [Policy(1, 95, 2) EXCEPT !.version = 2], [Policy(1, 95, 2) EXCEPT !.flags = 1],
      [Policy(1, 95, 2) EXCEPT !.reserved = 1] }

MCLogits == [0..Vocabulary32 - 1 -> -1..1]
              \cup {[i \in 0..Vocabulary32 - 1 |-> IF i = 1 THEN NotFinite ELSE 0]}
=============================================================================
