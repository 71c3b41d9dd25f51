------------------------------- MODULE KqGguf -------------------------------
(***************************************************************************)
(* From a path to an open GGUF container: the file mapping                 *)
(* (kq_file_win32.c) and the directory parser (kq_gguf.c), acquisition by  *)
(* acquisition and record by record.                                       *)
(*                                                                         *)
(* Every call to the system or to the allocator may fail, and whatever is  *)
(* found wrong in the file ends the open: `held' follows what the process  *)
(* holds at each of these points.  The bytes of a file are abstracted to   *)
(* the records they spell and to where each of them ends; all texts have   *)
(* the same number of bytes.  The reader's own cursor cannot overflow: it  *)
(* stays within a view that fits a word.                                   *)
(***************************************************************************)
EXTENDS Integers, Sequences

CONSTANTS
    Files,            \* the files that may be found at the path
    Image(_),         \* what each of them holds
    MaxWord,          \* the largest uint64_t
    DirectoryLimit,   \* KQ_GGUF_MAX_HEADER_DIRECTORY_BYTES
    MaxMetadata,      \* KQ_GGUF_MAX_METADATA_COUNT
    MaxTensors,       \* KQ_GGUF_MAX_TENSOR_COUNT
    MaxArray,         \* KQ_GGUF_MAX_ARRAY_LENGTH
    EntryBytes,       \* size of one entry of the metadata and tensor tables
    TextBytes,        \* bytes of a text
    TooLong,          \* a text beyond KQ_GGUF_MAX_STRING_BYTES
    NotUtf8           \* a text that is not UTF-8

\* Words are natural numbers.  A file has the records its counts promise, or
\* counts that are refused.
ASSUME GgufAssumption ==
    /\ {MaxWord, DirectoryLimit, MaxMetadata, MaxTensors, MaxArray, TextBytes}
         \subseteq Nat
    /\ EntryBytes \in Nat \ {0}
    /\ \A f \in Files :
         LET image == Image(f)
         IN  /\ {image.size, image.metadata_count, image.tensor_count} \subseteq Nat
             /\ image.metadata_count <= MaxMetadata =>
                  1..image.metadata_count \subseteq DOMAIN image.metadata
             /\ image.tensor_count <= MaxTensors =>
                  1..image.tensor_count \subseteq DOMAIN image.tensors
             /\ \A k \in DOMAIN image.metadata :
                  image.metadata[k].type = "ARRAY" =>
                    Len(image.metadata[k].value.items) \in Nat
             /\ \A i \in DOMAIN image.tensors :
                  /\ image.tensors[i].dimensions \in Seq(Nat)
                  /\ image.tensors[i].offset \in Nat

VARIABLES
    file,     \* the image of the file at the path
    stage,    \* how far the open has got
    held,     \* what the process holds: handles, mappings, allocations
    reader,   \* reader.offset
    parsed,   \* how many metadata and tensor records are in the tables
    gguf,     \* the scalars of kq_gguf the later code reads
    outcome   \* the status that ended the last open, "none" before

ggufVars == <<file, stage, held, reader, parsed, gguf, outcome>>
-----------------------------------------------------------------------------
(* The reader.                                                             *)

ViewLength == IF file.size < DirectoryLimit THEN file.size ELSE DirectoryLimit

\* kq_reader_take: a check that the reader may advance to `end'.
Take(end) == <<end <= ViewLength,
               IF ViewLength < file.size THEN "LIMIT_EXCEEDED" ELSE "TRUNCATED">>

\* A sequence of checks <<holds, refusal>> ends at the first that fails.
FirstRefusal(checks) ==
    LET failed == {c \in DOMAIN checks : ~checks[c][1]}
    IN  IF failed = {} THEN "OK"
        ELSE checks[CHOOSE c \in failed : \A d \in failed : c <= d][2]

StringBytes == 8 + TextBytes

\* kq_reader_string at the given offset.
StringChecks(at, text) ==
    << Take(at + 8),
       <<text # TooLong, "LIMIT_EXCEEDED">>,
       Take(at + StringBytes),
       <<text # NotUtf8, "MALFORMED_METADATA">> >>

AddFits(a, b) == a <= MaxWord - b

\* kq_gguf_type_info_for: elements and bytes of one block.
TypeInfo ==
    [F32  |-> [elements |-> 1,   bytes |-> 4],
     Q5_1 |-> [elements |-> 32,  bytes |-> 24],
     Q8_0 |-> [elements |-> 32,  bytes |-> 34],
     Q4_K |-> [elements |-> 256, bytes |-> 144],
     Q5_K |-> [elements |-> 256, bytes |-> 176],
     IQ4_NL |-> [elements |-> 32, bytes |-> 18],
     BF16 |-> [elements |-> 1,   bytes |-> 2]]

\* The product of the first n dimensions; 0, which no product of non-zero
\* dimensions is, once it has overflowed.
Product(dimensions, n) ==
    LET f[d \in 0..n] ==
          IF d = 0 THEN 1
          ELSE IF f[d - 1] = 0 \/ dimensions[d] > MaxWord \div f[d - 1] THEN 0
          ELSE f[d - 1] * dimensions[d]
    IN  f[n]

Elements(t) == Product(t.dimensions, Len(t.dimensions))

PackedFits(t) == Elements(t) \div TypeInfo[t.type].elements
                   <= MaxWord \div TypeInfo[t.type].bytes

Packed(t) == (Elements(t) \div TypeInfo[t.type].elements)
               * TypeInfo[t.type].bytes
-----------------------------------------------------------------------------
(* Metadata records.                                                       *)

ScalarBytes == [UINT16 |-> 2, UINT32 |-> 4, INT32 |-> 4, FLOAT32 |-> 4,
                BOOL |-> 1]

ElementBytes == [INT32 |-> 4, UINT64 |-> 8, STRING |-> StringBytes]

\* kq_read_metadata_scalar.
ScalarChecks(at, m) ==
    IF m.type \in DOMAIN ScalarBytes
      THEN << Take(at + ScalarBytes[m.type]),
              <<m.type = "BOOL" => m.value \in {0, 1}, "MALFORMED_METADATA">> >>
      ELSE << <<FALSE, "UNSUPPORTED_METADATA">> >>

\* kq_read_metadata_array: texts are read one by one, words in one piece.
ArrayChecks(at, m) ==
    LET items == m.value.items
        head  == << Take(at + 4),
                    Take(at + 12),
                    <<Len(items) <= MaxArray, "LIMIT_EXCEEDED">>,
                    <<m.value.element \in DOMAIN ElementBytes,
                      "UNSUPPORTED_METADATA">> >>
    IN  CASE m.value.element = "STRING" ->
               head \o [c \in 1..4 * Len(items) |->
                          StringChecks(at + 12 + StringBytes * ((c - 1) \div 4),
                                       items[(c - 1) \div 4 + 1])
                            [((c - 1) % 4) + 1]]
          [] m.value.element \in {"INT32", "UINT64"} ->
               Append(head,
                      Take(at + 12 + Len(items) * ElementBytes[m.value.element]))
          [] OTHER -> head

ValueBytes(m) ==
    CASE m.type = "STRING" -> StringBytes
      [] m.type = "ARRAY"  ->
           12 + Len(m.value.items) * ElementBytes[m.value.element]
      [] OTHER             -> ScalarBytes[m.type]

ValueChecks(at, m) ==
    CASE m.type = "STRING" -> StringChecks(at, m.value)
      [] m.type = "ARRAY"  -> ArrayChecks(at, m)
      [] OTHER             -> ScalarChecks(at, m)

\* One turn of the loop of kq_parse_metadata, `before' records being parsed.
MetadataChecks(at, before) ==
    LET m == file.metadata[before + 1]
    IN  StringChecks(at, m.key)
        \o << <<\A k \in 1..before : file.metadata[k].key # m.key,
                "DUPLICATE_METADATA">>,
              Take(at + StringBytes + 4) >>
        \o ValueChecks(at + StringBytes + 4, m)
        \o << <<m.key = "general.architecture" => m.type = "STRING",
                "MALFORMED_METADATA">>,
              <<m.key = "general.alignment" => m.type = "UINT32",
                "MALFORMED_METADATA">> >>

MetadataBytes(m) == StringBytes + 4 + ValueBytes(m)

\* The first record under a key (kq_gguf_find_metadata): keys are unique.
HasMetadata(key) == \E k \in 1..Len(file.metadata) : file.metadata[k].key = key

Metadata(key) ==
    file.metadata[CHOOSE k \in 1..Len(file.metadata) :
                    file.metadata[k].key = key]

\* kq_gguf_metadata_u32 and the comparisons of an array with its expected
\* content: absent, mistyped and different all read as "not this".
IsUint32(key, value) ==
    HasMetadata(key) /\ Metadata(key).type = "UINT32" /\ Metadata(key).value = value

IsArrayOf(key, element, length) ==
    /\ HasMetadata(key) /\ Metadata(key).type = "ARRAY"
    /\ Metadata(key).value.element = element
    /\ Len(Metadata(key).value.items) = length

IsArray(key, element, items) ==
    IsArrayOf(key, element, Len(items)) /\ Metadata(key).value.items = items
-----------------------------------------------------------------------------
(* Tensor records.                                                         *)

MaxDimensions == 8

DimensionChecks(at, t) ==
    [c \in 1..3 * Len(t.dimensions) |->
       LET d == (c - 1) \div 3 + 1
       IN  << Take(at + 8 * d),
              <<t.dimensions[d] # 0, "MALFORMED_TENSOR">>,
              <<Product(t.dimensions, d) # 0, "ARITHMETIC_OVERFLOW">> >>
             [((c - 1) % 3) + 1]]

\* What a record of a known type and sane dimensions must still satisfy.
LayoutChecks(t) ==
    << <<t.offset % gguf.alignment = 0, "INVALID_ALIGNMENT">>,
       <<t.dimensions[1] % TypeInfo[t.type].elements = 0, "MALFORMED_TENSOR">>,
       <<PackedFits(t), "ARITHMETIC_OVERFLOW">> >>

TensorBytes(t) == StringBytes + 4 + 8 * Len(t.dimensions) + 4 + 8

\* One turn of the loop of kq_parse_tensors, `before' records being parsed.
TensorChecks(at, before) ==
    LET t    == file.tensors[before + 1]
        dims == at + StringBytes + 4
        type == dims + 8 * Len(t.dimensions)
    IN  StringChecks(at, t.name)
        \o << <<\A k \in 1..before : file.tensors[k].name # t.name,
                "DUPLICATE_TENSOR">>,
              Take(dims),
              <<Len(t.dimensions) \in 1..MaxDimensions, "MALFORMED_TENSOR">> >>
        \o DimensionChecks(dims, t)
        \o << Take(type + 4),
              <<t.type \in DOMAIN TypeInfo, "UNSUPPORTED_TENSOR_TYPE">> >>
        \o IF t.type \in DOMAIN TypeInfo /\ t.dimensions # << >>
             THEN <<Take(type + 12)>> \o LayoutChecks(t)
             ELSE << >>
-----------------------------------------------------------------------------
(* The data section.                                                       *)

Tensors == 1..parsed.tensors

Tensor(i) == file.tensors[i]

Offset(i) == Tensor(i).offset

End(i) == Offset(i) + Packed(Tensor(i))

DataOffset(i) == gguf.data_section + Offset(i)

\* The comparison the directory is sorted by (kq_tensor_order_compare).
Before(i, j) == Offset(i) < Offset(j) \/ (Offset(i) = Offset(j) /\ i < j)

After(i) == {j \in Tensors : Before(i, j)}

\* The entry that follows i's in the sorted order.
Following(i) == CHOOSE j \in After(i) : \A k \in After(i) : k = j \/ Before(j, k)

\* Mutant: where the span starts is compared, not where it ends.
StartsBeforeFollowing(i) == After(i) # {} => Offset(i) <= Offset(Following(i))

StopsBeforeFollowing(i) == After(i) # {} => End(i) <= Offset(Following(i))

\* One turn of the loop of kq_validate_spans.  The running total, a sum of
\* spans already known to be disjoint parts of the file, cannot overflow nor
\* exceed the file's size: the two checks on it never fail.
SpanChecks(i) ==
    << <<AddFits(Offset(i), Packed(Tensor(i))), "ARITHMETIC_OVERFLOW">>,
       <<AddFits(gguf.data_section, End(i)), "ARITHMETIC_OVERFLOW">>,
       <<gguf.data_section + End(i) <= file.size, "SPAN_OUT_OF_RANGE">>,
       <<StopsBeforeFollowing(i), "INCONSISTENT_DATA_SECTION">> >>

StartsAtZero == \E i \in Tensors : Offset(i) = 0

BadSpans == {i \in Tensors : FirstRefusal(SpanChecks(i)) # "OK"}

\* The loop runs in sorted order and ends at the first bad span.
SpansRefusal ==
    IF ~StartsAtZero THEN "INCONSISTENT_DATA_SECTION"
    ELSE IF BadSpans = {} THEN "OK"
    ELSE FirstRefusal(SpanChecks(CHOOSE i \in BadSpans :
                                   \A j \in BadSpans : j = i \/ Before(i, j)))

PackedTotal ==
    LET total[n \in 0..parsed.tensors] ==
          IF n = 0 THEN 0 ELSE total[n - 1] + Packed(Tensor(n))
    IN  total[parsed.tensors]
-----------------------------------------------------------------------------
EmptyGguf == [architecture |-> "none", alignment |-> 32, data_section |-> 0,
              packed |-> 0]

GgufInit ==
    /\ \E f \in Files : file = Image(f)
    /\ stage = "path" /\ held = {}
    /\ reader = 0 /\ parsed = [metadata |-> 0, tensors |-> 0]
    /\ gguf = EmptyGguf
    /\ outcome = "none"

\* A step that acquires something, and one that gives up.
Acquire(what, next) ==
    /\ held' = held \cup what
    /\ stage' = next
    /\ UNCHANGED <<file, reader, parsed, gguf, outcome>>

Fail(released, next, status) ==
    /\ held' = held \ released
    /\ stage' = next
    /\ outcome' = status
    /\ UNCHANGED <<file, reader, parsed, gguf>>

(* kq_file_open_readonly: a refused file ends the program, for the cleanup  *)
(* that follows finds nothing to close.                                    *)

CreateFile ==
    /\ stage = "path"
    /\ \/ Acquire({"handle"}, "handle")
       \/ Fail({}, "closed", "FILE_OPEN_FAILED")

GetSize ==
    /\ stage = "handle"
    /\ \/ Acquire({}, "sized")
       \/ Fail({"handle"}, "closed", "FILE_SIZE_FAILED")

\* An empty file is not mapped.
CreateMapping ==
    /\ stage = "sized"
    /\ \/ file.size > 0 /\ Acquire({"mapping"}, "mapped")
       \/ file.size = 0 /\ Acquire({}, "mapped")
       \/ file.size > 0 /\ Fail({"handle"}, "closed", "FILE_MAP_FAILED")

AllocateFile ==
    /\ stage = "mapped"
    /\ \/ Acquire({"file"}, "granularity")
       \/ Fail({"mapping", "handle"}, "closed", "OUT_OF_MEMORY")

ReadGranularity ==
    /\ stage = "granularity"
    /\ \/ Acquire({}, "file")
       \/ Fail({"mapping", "handle", "file"}, "closed", "FILE_MAP_FAILED")
-----------------------------------------------------------------------------
(* kq_gguf_open.  *)

\* What kq_gguf_close releases.
Container == {"tensors", "metadata", "directory", "gguf"}

\* Mutant: an exit of the open that frees the tables but not the view.
RefuseOpenKeepingView(status) == Fail(Container \ {"directory"}, "cleanup", status)

RefuseOpen(status) == Fail(Container, "cleanup", status)

HeaderBytes == 24

AllocateGguf ==
    /\ stage = "file"
    /\ \/ file.size < HeaderBytes /\ Fail({}, "cleanup", "TRUNCATED")
       \/ file.size >= HeaderBytes /\ Acquire({"gguf"}, "gguf")
       \/ file.size >= HeaderBytes /\ Fail({}, "cleanup", "OUT_OF_MEMORY")

\* kq_file_view_open of the directory: the mapping, then the view's record.
MapDirectory ==
    /\ stage = "gguf"
    /\ \/ Acquire({"directory"}, "header")
       \/ \E status \in {"FILE_MAP_FAILED", "OUT_OF_MEMORY"} : RefuseOpen(status)

\* The header's words are read in order; the view holds all of them.
HeaderChecks ==
    << <<file.magic = "GGUF", "BAD_MAGIC">>,
       <<file.version = 3, "UNSUPPORTED_VERSION">>,
       <<file.tensor_count # 0 /\ file.metadata_count # 0, "MALFORMED_METADATA">>,
       <<file.metadata_count <= MaxWord \div EntryBytes, "ARITHMETIC_OVERFLOW">>,
       <<file.tensor_count <= MaxWord \div EntryBytes, "ARITHMETIC_OVERFLOW">>,
       <<file.metadata_count <= MaxMetadata, "LIMIT_EXCEEDED">>,
       <<file.tensor_count <= MaxTensors, "LIMIT_EXCEEDED">> >>

ReadHeader ==
    /\ stage = "header"
    /\ LET verdict == FirstRefusal(HeaderChecks)
       IN  IF verdict = "OK"
             THEN /\ reader' = HeaderBytes
                  /\ stage' = "tables"
                  /\ UNCHANGED <<file, held, parsed, gguf, outcome>>
             ELSE RefuseOpen(verdict)

\* Both tables are asked for before either answer is looked at.
AllocateTables ==
    /\ stage = "tables"
    /\ \/ Acquire({"metadata", "tensors"}, "metadata")
       \/ RefuseOpen("OUT_OF_MEMORY")

ReadMetadata ==
    /\ stage = "metadata"
    /\ parsed.metadata < file.metadata_count
    /\ LET m       == file.metadata[parsed.metadata + 1]
           verdict == FirstRefusal(MetadataChecks(reader, parsed.metadata))
       IN  IF verdict = "OK"
             THEN /\ reader' = reader + MetadataBytes(m)
                  /\ parsed' = [parsed EXCEPT !.metadata = @ + 1]
                  /\ gguf' = CASE m.key = "general.architecture" ->
                                    [gguf EXCEPT !.architecture = m.value]
                               [] m.key = "general.alignment" ->
                                    [gguf EXCEPT !.alignment = m.value]
                               [] OTHER -> gguf
                  /\ UNCHANGED <<file, stage, held, outcome>>
             ELSE RefuseOpen(verdict)

\* The powers of two up to KQ_GGUF_MAX_ALIGNMENT.
Alignments == {1, 2, 4, 8, 16, 32, 64, 128, 256, 512, 1024, 2048, 4096}

EndMetadata ==
    /\ stage = "metadata"
    /\ parsed.metadata = file.metadata_count
    /\ LET verdict ==
             FirstRefusal(
               << <<HasMetadata("general.architecture"), "MALFORMED_METADATA">>,
                  <<gguf.alignment \in Alignments, "INVALID_ALIGNMENT">> >>)
       IN  IF verdict = "OK" THEN Acquire({}, "tensors") ELSE RefuseOpen(verdict)

ReadTensor ==
    /\ stage = "tensors"
    /\ parsed.tensors < file.tensor_count
    /\ LET verdict == FirstRefusal(TensorChecks(reader, parsed.tensors))
       IN  IF verdict = "OK"
             THEN /\ reader' = reader
                                 + TensorBytes(file.tensors[parsed.tensors + 1])
                  /\ parsed' = [parsed EXCEPT !.tensors = @ + 1]
                  /\ UNCHANGED <<file, stage, held, gguf, outcome>>
             ELSE RefuseOpen(verdict)

AlignUp(value) ==
    ((value + gguf.alignment - 1) \div gguf.alignment) * gguf.alignment

LocateData ==
    /\ stage = "tensors"
    /\ parsed.tensors = file.tensor_count
    /\ LET verdict ==
             FirstRefusal(
               << <<AddFits(reader, gguf.alignment - 1), "ARITHMETIC_OVERFLOW">>,
                  <<AlignUp(reader) <= file.size, "INCONSISTENT_DATA_SECTION">> >>)
       IN  IF verdict = "OK"
             THEN /\ gguf' = [gguf EXCEPT !.data_section = AlignUp(reader)]
                  /\ stage' = "order"
                  /\ UNCHANGED <<file, held, reader, parsed, outcome>>
             ELSE RefuseOpen(verdict)

\* kq_validate_spans sorts a table of its own.
AllocateOrder ==
    /\ stage = "order"
    /\ \/ Acquire({"order"}, "spans")
       \/ RefuseOpen("OUT_OF_MEMORY")

ValidateSpans ==
    /\ stage = "spans"
    /\ IF SpansRefusal = "OK"
         THEN /\ gguf' = [gguf EXCEPT !.packed = PackedTotal]
              /\ held' = held \ {"order"}
              /\ stage' = "container"
              /\ outcome' = "OK"
              /\ UNCHANGED <<file, reader, parsed>>
         ELSE Fail(Container \cup {"order"}, "cleanup", SpansRefusal)

FileNext == CreateFile \/ GetSize \/ CreateMapping \/ AllocateFile
            \/ ReadGranularity

ContainerNext == AllocateGguf \/ MapDirectory \/ ReadHeader \/ AllocateTables
                 \/ ReadMetadata \/ EndMetadata \/ ReadTensor \/ LocateData
                 \/ AllocateOrder \/ ValidateSpans
-----------------------------------------------------------------------------
(* The caller's cleanup.  A refused open has given it nothing to close.    *)

\* kq_gguf_close.
CloseContainer ==
    /\ stage = "container"
    /\ held' = held \ Container
    /\ stage' = "cleanup"
    /\ UNCHANGED <<file, reader, parsed, gguf, outcome>>

\* kq_file_close.
CloseFile ==
    /\ stage = "cleanup"
    /\ held' = held \ {"mapping", "handle", "file"}
    /\ stage' = "closed"
    /\ UNCHANGED <<file, reader, parsed, gguf, outcome>>

GgufNext == FileNext \/ ContainerNext \/ CloseContainer \/ CloseFile
-----------------------------------------------------------------------------
(* Properties.                                                             *)

\* In an open container no byte of the file belongs to two tensors, and every
\* tensor lies behind the directory and before the end of the file: what
\* kq_validate_spans makes sure of by comparing each span with one other.
SpansDisjoint ==
    stage = "container" =>
      \A i \in Tensors :
        /\ reader <= DataOffset(i)
        /\ gguf.data_section + End(i) <= file.size
        /\ \A j \in Tensors \ {i} : End(i) <= Offset(j) \/ End(j) <= Offset(i)
=============================================================================
