---------------------------- MODULE KqTensorView ----------------------------
(***************************************************************************)
(* Views of the weights (kq_tensor_view.c): from a registered semantic and *)
(* a selector, a read-only window onto the bytes that hold its elements.   *)
(*                                                                         *)
(* A view shows a whole physical tensor, one routed expert of a stack, or  *)
(* one member of the fused PLE table.  Its range of elements is turned     *)
(* into a range of quantized blocks, the blocks into bytes of the tensor,  *)
(* the bytes into a part of the file, and that part is mapped from the     *)
(* last boundary the system can map at.                                    *)
(***************************************************************************)
EXTENDS KqRegistry

CONSTANTS
    Handle,         \* the views the caller may have open at a time
    Call,           \* the calls it makes
    Granularity     \* allocation granularity of the system's mappings

ASSUME ViewAssumption == Granularity \in Nat \ {0}

VARIABLE views      \* what is open under each handle

viewVars == <<registryVars, views>>

NoView == [kind |-> "none"]

\* A call names a semantic (its place in the table), a binding, a kind and the
\* expert it wants (0 for the other kinds), whether the bytes must be in the
\* canonical order, and whether the container is the semantic's own.
Calls ==
    {c \in [semantic : 1..Len(Registry), binding : 0..1, canonical : BOOLEAN,
            kind : {"BINDING", "EXPERT", "PLE"}, expert : 0..Dim.experts,
            own : BOOLEAN] :
       /\ c.kind = "PLE" => c.binding = 0
       /\ c.kind # "EXPERT" => c.expert = 0}

\* The caller makes such calls; it may ask for any binding and any expert.
ASSUME CallAssumption ==
    \A c \in Call :
      /\ c.semantic \in 1..Len(Registry) /\ {c.binding, c.expert} \subseteq Nat
      /\ c.kind \in {"BINDING", "EXPERT", "PLE"}
      /\ c.kind = "PLE" => c.binding = 0
-----------------------------------------------------------------------------
(* Blocks.                                                                 *)

\* kq_quant_packed_size, as a condition on the element count.
WholeBlocks(type, count) ==
    count # 0 /\ count % TypeInfo[type].elements = 0

\* Mutant: the last block is found from the element after the last.
BlockSpanPastEnd(type, offset, count) ==
    LET block == TypeInfo[type].elements
        first == offset \div block
        last  == (offset + count) \div block + 1
    IN  [first_block |-> first, blocks |-> last - first,
         leading |-> offset - first * block,
         trailing |-> last * block - (offset + count)]

\* kq_quant_range_to_blocks: the blocks that hold a range of elements.
BlockSpan(type, offset, count) ==
    LET block == TypeInfo[type].elements
        first == offset \div block
        last  == (offset + count - 1) \div block + 1
    IN  [first_block |-> first, blocks |-> last - first,
         leading |-> offset - first * block,
         trailing |-> last * block - (offset + count)]

RangeRefusal(t, offset, count) ==
    FirstRefusal(
      << <<count # 0, "INVALID_ARGUMENT">>,
         <<WholeBlocks(t.type, Elements(t)), "INVALID_QUANTIZED_GEOMETRY">>,
         <<AddFits(offset, count), "ARITHMETIC_OVERFLOW">>,
         <<offset < Elements(t) /\ offset + count <= Elements(t),
           "SPAN_OUT_OF_RANGE">> >>)
-----------------------------------------------------------------------------
(* What is checked before a view is opened.                                *)

CanonicalElements(s) == Product(s.canonical, Len(s.canonical))

Physical(s, binding) == Tensor(Place(s.parts[binding + 1]))

\* kq_validate_open_arguments.
ArgumentChecks(s, c) ==
    << <<s.relation # "METADATA_DERIVED", "NO_TENSOR_PAYLOAD">>,
       <<c.binding < Len(s.parts), "SPAN_OUT_OF_RANGE">> >>

\* kq_validate_split: two different halves that make up the whole.
SplitChecks(s) ==
    IF s.relation # "SPLIT" THEN << >>
    ELSE << <<Len(s.parts) = 2 /\ Place(s.parts[1]) # Place(s.parts[2]),
              "SEMANTIC_MAPPING_FAILED">>,
            << \/ s.parts[1].role = "GATE" /\ s.parts[2].role = "UP"
               \/ s.parts[1].role = "INDEX_QUERY" /\ s.parts[2].role = "INDEX_KEY",
              "SEMANTIC_MAPPING_FAILED">>,
            <<CanonicalElements(s) # 0, "ARITHMETIC_OVERFLOW">>,
            <<CanonicalElements(s)
                = Elements(Physical(s, 0)) + Elements(Physical(s, 1)),
              "INVALID_QUANTIZED_GEOMETRY">> >>

\* A tensor that is not half of a split holds all the canonical elements.
WholeChecks(s, t) ==
    << <<s.relation # "SPLIT" => CanonicalElements(s) = Elements(t),
         "INVALID_QUANTIZED_GEOMETRY">> >>

Contiguous(s) == s.relation \in {"DIRECT", "RENAMED"}

OrderChecks(s, c) == << <<c.canonical => Contiguous(s), "TENSOR_LAYOUT_MISMATCH">> >>

MaxShape == 4

\* kq_tensor_view_open_binding.
BindingChecks(s, c) ==
    LET t == Physical(s, c.binding)
    IN  << <<s.relation # "FUSED", "TENSOR_LAYOUT_MISMATCH">> >>
        \o SplitChecks(s) \o WholeChecks(s, t) \o OrderChecks(s, c)
        \o << <<Contiguous(s) \/ Len(t.dimensions) <= MaxShape,
                "INVALID_QUANTIZED_GEOMETRY">> >>

\* Mutant: a member is taken to be as long as one row of the stack.
RowOfStack(t) == t.dimensions[1]

\* The elements below the expert axis: one expert's.
ExpertElements(t) == Product(t.dimensions, Len(t.dimensions) - 1)

AlignedChecks(t, offset, count) ==
    LET span == BlockSpan(t.type, offset, count)
    IN  << <<RangeRefusal(t, offset, count) = "OK", RangeRefusal(t, offset, count)>>,
           <<span.leading = 0 /\ span.trailing = 0, "NONCONTIGUOUS_TENSOR_VIEW">> >>

\* kq_tensor_view_open_expert_member.
ExpertChecks(s, c) ==
    LET t    == Physical(s, c.binding)
        axis == s.parts[c.binding + 1].axis
    IN  << <<s.component = "ROUTED" /\ s.axis < Len(s.canonical)
               /\ s.canonical[s.axis + 1] = Dim.experts,
             "INVALID_QUANTIZED_GEOMETRY">>,
           <<c.expert < Dim.experts, "SPAN_OUT_OF_RANGE">> >>
        \o SplitChecks(s)
        \o << <<Contiguous(s) \/ s.relation = "SPLIT", "TENSOR_LAYOUT_MISMATCH">> >>
        \o WholeChecks(s, t)
        \o << <<axis < Len(t.dimensions) /\ t.dimensions[axis + 1] = Dim.experts,
                "INVALID_QUANTIZED_GEOMETRY">>,
              <<axis + 1 = Len(t.dimensions), "NONCONTIGUOUS_TENSOR_VIEW">>,
              <<axis # 0, "INVALID_QUANTIZED_GEOMETRY">> >>
        \o AlignedChecks(t, c.expert * ExpertElements(t), ExpertElements(t))
        \o OrderChecks(s, c)

MemberElements(t) == Elements(t) \div Dim.ple_members

\* kq_tensor_view_open_ple_member.
PleChecks(s, c) ==
    LET t    == Physical(s, 0)
        part == s.parts[1]
    IN  << <<s.component = "PLE_TABLE" /\ s.relation = "FUSED"
               /\ Len(s.canonical) = 2, "INVALID_QUANTIZED_GEOMETRY">>,
           <<part.role = "FUSED_MEMBER" /\ part.fused < Dim.ple_members
               /\ Len(t.dimensions) = 2
               /\ t.dimensions[2] % Dim.ple_members = 0,
             "INVALID_QUANTIZED_GEOMETRY">>,
           <<s.canonical = <<t.dimensions[2] \div Dim.ple_members, t.dimensions[1]>>,
             "INVALID_QUANTIZED_GEOMETRY">> >>
        \o AlignedChecks(t, part.fused * MemberElements(t), MemberElements(t))
        \o << <<BlockSpan(t.type, part.fused * MemberElements(t),
                          MemberElements(t)).blocks * TypeInfo[t.type].bytes
                  < Packed(t), "NONCONTIGUOUS_TENSOR_VIEW">> >>

\* Which of the three entry points was called on the semantic s; the checks on
\* what its parts are come only after those on its having parts.
CallRefusal(s, c) ==
    LET first == FirstRefusal(ArgumentChecks(s, c))
    IN  IF first # "OK" THEN first
        ELSE FirstRefusal(CASE c.kind = "BINDING" -> BindingChecks(s, c)
                            [] c.kind = "EXPERT" ->
                                 IF s.component = "ROUTED" THEN ExpertChecks(s, c)
                                 ELSE << <<FALSE, "INVALID_QUANTIZED_GEOMETRY">> >>
                            [] c.kind = "PLE" ->
                                 IF s.component = "PLE_TABLE" THEN PleChecks(s, c)
                                 ELSE << <<FALSE, "INVALID_QUANTIZED_GEOMETRY">> >>)
-----------------------------------------------------------------------------
(* The view itself (kq_open_span).                                         *)

\* Offset and number of the elements a call asks for.
ElementRange(s, c) ==
    LET t == Physical(s, c.binding)
    IN  CASE c.kind = "BINDING" -> <<0, Elements(t)>>
          [] c.kind = "EXPERT"  -> <<c.expert * ExpertElements(t), ExpertElements(t)>>
          [] c.kind = "PLE"     -> <<s.parts[1].fused * MemberElements(t),
                                     MemberElements(t)>>

Reversed(d) == [k \in DOMAIN d |-> d[Len(d) + 1 - k]]

\* The shape a view reports: canonical, or the file's from slowest to fastest.
LogicalShape(s, c) ==
    LET t == Physical(s, c.binding)
    IN  CASE c.kind = "BINDING" -> IF Contiguous(s) THEN s.canonical
                                   ELSE Reversed(t.dimensions)
          [] c.kind = "EXPERT"  -> Reversed(SubSeq(t.dimensions, 1,
                                                   Len(t.dimensions) - 1))
          [] c.kind = "PLE"     -> s.canonical

Member(s, c) == CASE c.kind = "BINDING" -> 0
                  [] c.kind = "EXPERT"  -> c.expert
                  [] c.kind = "PLE"     -> s.parts[1].fused

Window(s, c) ==
    LET t     == Physical(s, c.binding)
        range == ElementRange(s, c)
        span  == BlockSpan(t.type, range[1], range[2])
    IN  [start  |-> span.first_block * TypeInfo[t.type].bytes,
         length |-> span.blocks * TypeInfo[t.type].bytes]

\* What the view's record says, and where its first byte really is: the mapping
\* starts at a boundary and the data behind it by the difference.
View(s, c) ==
    LET window == Window(s, c)
        place  == Place(s.parts[c.binding + 1])
        first  == DataOffset(place) + window.start
        base   == first - (first % Granularity)
    IN  [kind    |-> c.kind,
         tensor  |-> place,
         member  |-> Member(s, c),
         shape   |-> LogicalShape(s, c),
         canonical |-> Contiguous(s) \/ c.kind = "PLE",
         base    |-> base,
         data    |-> base + (first - base),
         length  |-> window.length]

\* kq_gguf_open_tensor_span and kq_file_view_open under it.
SpanRefusal(s, c) ==
    LET place  == Place(s.parts[c.binding + 1])
        window == Window(s, c)
        end    == window.start + window.length
    IN  FirstRefusal(
          << <<c.own, "TENSOR_OWNERSHIP_MISMATCH">>,
             <<AddFits(window.start, window.length), "ARITHMETIC_OVERFLOW">>,
             <<end <= Packed(Tensor(place)), "SPAN_OUT_OF_RANGE">>,
             <<DataOffset(place) + end <= file.size, "SPAN_OUT_OF_RANGE">> >>)

ViewRefusal(s, c) ==
    LET refusal == CallRefusal(s, c)
    IN  IF refusal # "OK" THEN refusal ELSE SpanRefusal(s, c)

ViewInit == RegistryInit /\ views = [h \in Handle |-> NoView]

\* One call of an entry point on the semantic s.  A refused one changes nothing
\* but its status: what it had mapped or allocated by then, it releases.
OpenView(h, s, c) ==
    /\ stage = "model" /\ views[h] = NoView
    /\ \E refusal \in {ViewRefusal(s, c)} :
         \/ /\ refusal = "OK"
            /\ views' = [views EXCEPT ![h] = View(s, c)]
            /\ outcome' = "OK"
         \/ /\ outcome' \in IF refusal # "OK" THEN {refusal}
                            ELSE {"FILE_MAP_FAILED", "OUT_OF_MEMORY"}
            /\ UNCHANGED views
    /\ UNCHANGED <<file, stage, held, reader, parsed, gguf, model>>

\* kq_tensor_view_close.
CloseView(h) ==
    /\ stage = "model" /\ views[h] # NoView
    /\ views' = [views EXCEPT ![h] = NoView]
    /\ UNCHANGED registryVars

NoViews == views = [h \in Handle |-> NoView]

ViewNext ==
    \E h \in Handle :
      \/ CloseView(h)
      \/ \E c \in Call : OpenView(h, Registry[c.semantic], c)
-----------------------------------------------------------------------------
(* Properties.                                                             *)

Open == {h \in Handle : views[h] # NoView}

\* The members a tensor is divided into by the views of one kind.
Divisions(kind) == CASE kind = "BINDING" -> 1
                     [] kind = "EXPERT"  -> Dim.experts
                     [] kind = "PLE"     -> Dim.ple_members

\* An open view shows whole blocks that hold exactly the elements of its shape
\* and lie inside its own tensor, the first member from the tensor's first byte
\* and the last to its last; views of two members have no byte in common.  All
\* members together are then the tensor, each at its own place, which is what
\* the expert and PLE code reads rows by (kq_tensor_view.c:387-497).
ViewsShowTheirElements ==
    \A h \in Open :
      LET v     == views[h]
          t     == Tensor(v.tensor)
          start == DataOffset(v.tensor)
          end   == start + Packed(t)
      IN  /\ v.length * TypeInfo[t.type].elements
               = Product(v.shape, Len(v.shape)) * TypeInfo[t.type].bytes
          /\ start <= v.data /\ v.data + v.length <= end
          /\ v.member = 0 => v.data = start
          /\ v.member = Divisions(v.kind) - 1 => v.data + v.length = end
          /\ \A g \in Open :
               LET w == views[g]
               IN  (w.tensor # v.tensor
                      \/ (w.kind = v.kind /\ w.member # v.member)) =>
                     v.data + v.length <= w.data \/ w.data + w.length <= v.data

\* The calls a caller may count on: the kind is the one the semantic is made
\* for, the selector is in range, and the order asked for is the order stored.
Legitimate(s, c) ==
    /\ c.own
    /\ s.relation # "METADATA_DERIVED"
    /\ c.binding < Len(s.parts)
    /\ CASE c.kind = "BINDING" -> s.relation # "FUSED"
         [] c.kind = "EXPERT"  -> s.component = "ROUTED" /\ c.expert < Dim.experts
         [] c.kind = "PLE"     -> s.component = "PLE_TABLE"
    /\ c.canonical => Contiguous(s) \/ c.kind = "PLE"

\* Whatever file the registry accepts, every such call on every semantic of the
\* table is granted: the geometry the view checks again, on the canonical shape
\* and on the blocks, follows from what the registry has checked on the names,
\* shapes and types of the tensors.  (The step that opens the model changes
\* nothing that a view is made from.)
RegisteredTensorsViewable ==
    [][Opening => \A c \in Calls :
                    \A s \in {Registry[c.semantic]} :
                      Legitimate(s, c) => ViewRefusal(s, c) = "OK"]_viewVars
=============================================================================
