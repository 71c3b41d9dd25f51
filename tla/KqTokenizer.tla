----------------------------- MODULE KqTokenizer -----------------------------
(***************************************************************************)
(* The tokenizer (kq_tokenizer.c) and the chat prompt over it (kq_chat.c). *)
(*                                                                         *)
(* A tokenizer is built from the arrays of an open container and serves    *)
(* calls that keep no state between them.  A text is a sequence of code    *)
(* points, a token the sequence of code points its vocabulary string is    *)
(* made of, and an output a sequence of ids or of bytes.  The three        *)
(* digests of the program are the arrays they are the digests of.  What    *)
(* the Unicode library knows, the categories and the compositions, is      *)
(* given; an id of a run's vocabulary is small, its bytes are true bytes.  *)
(***************************************************************************)
EXTENDS KqGguf, FiniteSets

Lists == INSTANCE SequencesExt

CONSTANTS
    Letter, Number,     \* code points of the categories L* and N*
    Compose,            \* canonical compositions: <<starter, mark>> -> code point
    Unassigned,         \* code points without a meaning in Unicode 9
    BaseVocabulary,     \* KQ_TOKENIZER_BASE_VOCABULARY
    ModelVocabulary,    \* KQ_TOKENIZER_MODEL_VOCABULARY
    Special,            \* kq_special_tokens, in the order of their ids
    Vocabulary,         \* the arrays the expected digests are those of
    ByteValues,         \* the bytes that occur
    MaxInput,           \* KQ_TOKENIZER_MAX_INPUT_BYTES
    Text,               \* the texts, ids and messages of the calls
    Ids,
    Messages,
    Capacity            \* capacities of the caller's buffers

ASSUME BytesAssumption == ByteValues \subseteq 0..255 /\ ByteValues # {}

VARIABLES
    tokenizer,      \* what the tokenizer has built, NoTokenizer when closed
    call            \* the last call and its answer

tokenizerVars == <<tokenizer, call>>

NoTokenizer == [tokens |-> << >>, byte |-> << >>, merge |-> << >>]

NoCall == [kind |-> "none"]

TokenizerLength == BaseVocabulary + Len(Special)
-----------------------------------------------------------------------------
(* Bytes and code points.                                                  *)

\* utf8proc_encode_char.
Utf8(c) ==
    IF c < 128 THEN <<c>>
    ELSE IF c < 2048 THEN <<192 + (c \div 64), 128 + (c % 64)>>
    ELSE IF c < 65536 THEN <<224 + (c \div 4096), 128 + ((c \div 64) % 64),
                             128 + (c % 64)>>
    ELSE <<240 + (c \div 262144), 128 + ((c \div 4096) % 64),
           128 + ((c \div 64) % 64), 128 + (c % 64)>>

Bytes(text) == Lists!FlattenSeq([k \in DOMAIN text |-> Utf8(text[k])])

\* The code points: seventeen planes, without the surrogates.
LastCode == 17 * 65536 - 1

IsSurrogate(c) == c >= 55296 /\ c <= 57343

\* Those that are written in the bytes that occur.
Codes == {c \in 0..LastCode : /\ ~IsSurrogate(c)
                             /\ \A k \in DOMAIN Utf8(c) : Utf8(c)[k] \in ByteValues}

\* What a text is made of: code points, and bytes that are none.
Points == Codes \cup {NotUtf8}

IsContinuation(b) == b \in 128..191

\* utf8proc_iterate on bytes: length of the code point at k, 0 if there is none.
CodePointLength(bytes, k) ==
    LET lead == bytes[k]
        n    == CASE lead < 128       -> 1
                  [] lead \in 194..223 -> 2
                  [] lead \in 224..239 -> 3
                  [] lead \in 240..244 -> 4
                  [] OTHER             -> 0
    IN  IF /\ k + n - 1 <= Len(bytes)
           /\ \A j \in k + 1..k + n - 1 : IsContinuation(bytes[j])
           /\ n > 1 => /\ lead = 224 => bytes[k + 1] >= 160
                       /\ lead = 237 => bytes[k + 1] < 160
                       /\ lead = 240 => bytes[k + 1] >= 144
                       /\ lead = 244 => bytes[k + 1] < 144
          THEN n ELSE 0

\* The alphabet vocabulary strings are written in (kq_byte_to_unicode): bytes
\* that print are themselves, the others follow behind the last byte.
IsDirect(b) == b \in 33..126 \cup 161..172 \cup 174..255

ByteToUnicode(b) ==
    IF IsDirect(b) THEN b
    ELSE 256 + Cardinality({c \in 0..b - 1 : ~IsDirect(c)})

\* Every byte under its place in the alphabet.
ByteOf ==
    [c \in {ByteToUnicode(b) : b \in ByteValues} |->
       CHOOSE b \in ByteValues : ByteToUnicode(b) = c]

\* kq_unicode_to_byte, 256 where there is none.
UnicodeToByte(c) == IF c \in DOMAIN ByteOf THEN ByteOf[c] ELSE 256
-----------------------------------------------------------------------------
(* Building the tokenizer (kq_validate_and_build).                         *)

PadText(id) == <<91, 80, 65, 68, id>>

\* The id of a string: vocabulary strings are unique among the ids below the
\* tokenizer's length, the only ones the lookup table holds.
IdsOf(tokens, text) == {id \in 0..TokenizerLength - 1 : tokens[id + 1] = text}

IdOf(tokens, text) == CHOOSE id \in IdsOf(tokens, text) : TRUE

\* The two sides of a merge: what is before and behind its only space.
Spaces(merge) == {k \in DOMAIN merge : merge[k] = 32}

Sides(merge) ==
    LET space == CHOOSE k \in Spaces(merge) : TRUE
    IN  << SubSeq(merge, 1, space - 1), SubSeq(merge, space + 1, Len(merge)) >>

Joined(merge) == Sides(merge)[1] \o Sides(merge)[2]

\* The strings of the vocabulary.  Its merges are in the order they were learnt
\* in, none behind one that uses what it makes; a special token is not merged to.
ASSUME VocabularyAssumption ==
    /\ {BaseVocabulary, ModelVocabulary} \subseteq Nat
    /\ TokenizerLength <= ModelVocabulary
    /\ {Vocabulary.tokens, Vocabulary.merges} \subseteq Seq(Seq(Nat))
    /\ Special \in Seq([text : Seq(Codes), skipped : BOOLEAN])
    /\ Len(Special) > 2 /\ \A k \in DOMAIN Special : Len(Special[k].text) > 1
    /\ \A k \in DOMAIN Vocabulary.merges :
         LET made == Joined(Vocabulary.merges[k])
         IN  /\ \A j \in DOMAIN Vocabulary.merges, side \in {1, 2} :
                  made = Sides(Vocabulary.merges[j])[side] => k < j
             /\ \A s \in DOMAIN Special : made # Special[s].text

\* A merge has two sides, both known, and so is the string they make.
IsMerge(tokens, merge) ==
    /\ Cardinality(Spaces(merge)) = 1
    /\ \A side \in {1, 2} : /\ Sides(merge)[side] # << >>
                            /\ IdsOf(tokens, Sides(merge)[side]) # {}
    /\ IdsOf(tokens, Joined(merge)) # {}

PairOf(tokens, merge) ==
    <<IdOf(tokens, Sides(merge)[1]), IdOf(tokens, Sides(merge)[2])>>

IsText(key, value) ==
    HasMetadata(key) /\ Metadata(key).type = "STRING" /\ Metadata(key).value = value

Items(key) == Metadata(key).value.items

\* Every refusal has the same status.
Compatible ==
    /\ gguf.architecture = "qwen4exp"
    /\ IsText("tokenizer.ggml.model", "gpt2")
    /\ IsText("tokenizer.ggml.pre", "qwen35")
    /\ IsUint32("tokenizer.ggml.eos_token_id", BaseVocabulary + 2)
    /\ IsUint32("tokenizer.ggml.padding_token_id", BaseVocabulary)
    /\ IsUint32("tokenizer.ggml.bos_token_id", BaseVocabulary)
    /\ HasMetadata("tokenizer.ggml.add_bos_token")
    /\ Metadata("tokenizer.ggml.add_bos_token").type = "BOOL"
    /\ Metadata("tokenizer.ggml.add_bos_token").value = 0
    /\ IsArrayOf("tokenizer.ggml.tokens", "STRING", ModelVocabulary)
    /\ IsArrayOf("tokenizer.ggml.token_type", "INT32", ModelVocabulary)
    /\ IsArrayOf("tokenizer.ggml.merges", "STRING", Len(Vocabulary.merges))
    /\ Items("tokenizer.ggml.tokens") = Vocabulary.tokens
    /\ Items("tokenizer.ggml.token_type") = Vocabulary.types
    /\ LET tokens == Items("tokenizer.ggml.tokens")
           merges == Items("tokenizer.ggml.merges")
       IN  /\ \A id \in 0..TokenizerLength - 1 : IdsOf(tokens, tokens[id + 1]) = {id}
           /\ \A k \in DOMAIN Special :
                tokens[BaseVocabulary + k] = Special[k].text
           /\ \A id \in TokenizerLength..ModelVocabulary - 1 :
                tokens[id + 1] = PadText(id)
           /\ \A b \in ByteValues : IdsOf(tokens, <<ByteToUnicode(b)>>) # {}
           /\ \A k \in DOMAIN merges :
                /\ IsMerge(tokens, merges[k])
                /\ \A j \in 1..k - 1 :
                     PairOf(tokens, merges[j]) # PairOf(tokens, merges[k])
           /\ merges = Vocabulary.merges

\* The tables an accepted container gives: strings by id, ids of the single
\* bytes, and for every pair that merges its rank and what it becomes.
Built ==
    LET tokens == Items("tokenizer.ggml.tokens")
        merges == Items("tokenizer.ggml.merges")
        pairs  == {PairOf(tokens, merges[k]) : k \in DOMAIN merges}
        rank(pair) == CHOOSE k \in DOMAIN merges : PairOf(tokens, merges[k]) = pair
    IN  [tokens |-> tokens,
         byte   |-> [b \in ByteValues |-> IdOf(tokens, <<ByteToUnicode(b)>>)],
         merge  |-> [pair \in pairs |->
                       [rank   |-> rank(pair),
                        result |-> IdOf(tokens, tokens[pair[1] + 1]
                                                  \o tokens[pair[2] + 1])]]]
-----------------------------------------------------------------------------
(* Pieces of a text.                                                       *)

IsLetter(c) == c \in Letter
IsNumber(c) == c \in Number
IsSpace(c)  == c \in 9..13 \cup {32, 133, 160, 5760, 8232, 8233, 8239, 8287, 12288}
                     \cup 8192..8202
IsCrLf(c)   == c \in {10, 13}
IsOther(c)  == ~IsSpace(c) /\ ~IsLetter(c) /\ ~IsNumber(c)

\* The categories exclude each other, and neither has a blank or the apostrophe.
ASSUME CategoriesAssumption ==
    /\ Letter \cap Number = {}
    /\ \A c \in Letter \cup Number : ~IsSpace(c) /\ c # 39

\* The classes by name, of code points and, the last, of bytes.
Is(class, c) == CASE class = "letter" -> IsLetter(c)
                  [] class = "space"  -> IsSpace(c)
                  [] class = "crlf"   -> IsCrLf(c)
                  [] class = "other"  -> IsOther(c)
                  [] class = "continuation" -> IsContinuation(c)

\* How many code points from `at' on are of a class.
Stretch(points, at, class) ==
    LET outside == {k \in at..Len(points) : ~Is(class, points[k])}
        end     == IF outside = {} THEN Len(points) + 1
                   ELSE CHOOSE k \in outside : \A j \in outside : k <= j
    IN  end - at

LowerAscii(c) == IF c \in 65..90 THEN c + 32 ELSE c

\* 's 't 're 've 'm 'll 'd
Endings == << <<115>>, <<116>>, <<114, 101>>, <<118, 101>>, <<109>>,
               <<108, 108>>, <<100>> >>

\* kq_match_contraction: the first suffix that is there, in any case.
Contraction(points, at) ==
    LET there(s) == /\ at + Len(Endings[s]) <= Len(points)
                    /\ \A k \in DOMAIN Endings[s] :
                         LowerAscii(points[at + k]) = Endings[s][k]
        found    == {s \in DOMAIN Endings : there(s)}
    IN  IF points[at] # 39 \/ found = {} THEN 0
        ELSE 1 + Len(Endings[CHOOSE s \in found : \A r \in found : s <= r])

Has(points, at, class) == at <= Len(points) /\ Is(class, points[at])

\* The other code points behind an optional space, and the line ends behind.
Punctuation(points, at) ==
    LET first == IF points[at] = 32 /\ Has(points, at + 1, "other")
                   THEN at + 1 ELSE at
        line  == first + Stretch(points, first, "other")
    IN  line + Stretch(points, line, "crlf") - at

\* Mutant: the last blank is not left to the word behind it.
BlankGreedy(points, at) ==
    LET end  == at + Stretch(points, at, "space")
        crlf == {k \in at..end - 1 : IsCrLf(points[k])}
    IN  IF crlf # {} THEN (CHOOSE k \in crlf : \A j \in crlf : j <= k) - at + 1
        ELSE end - at

\* White space up to its last line end, or up to the text behind it.
Blank(points, at) ==
    LET end  == at + Stretch(points, at, "space")
        crlf == {k \in at..end - 1 : IsCrLf(points[k])}
    IN  IF crlf # {} THEN (CHOOSE k \in crlf : \A j \in crlf : j <= k) - at + 1
        ELSE IF end > Len(points) \/ end - at = 1 THEN end - at
        ELSE end - at - 1

\* kq_next_pretoken.
NextPretoken(points, at) ==
    LET c == points[at]
    IN  IF Contraction(points, at) # 0 THEN Contraction(points, at)
        ELSE IF IsLetter(c) THEN Stretch(points, at, "letter")
        ELSE IF ~IsCrLf(c) /\ ~IsNumber(c) /\ Has(points, at + 1, "letter")
               THEN 1 + Stretch(points, at + 1, "letter")
        ELSE IF IsNumber(c) THEN 1
        ELSE IF IsOther(c) \/ (c = 32 /\ Has(points, at + 1, "other"))
               THEN Punctuation(points, at)
        ELSE Blank(points, at)

\* Where a text is cut, given the length of the piece that starts at each place,
\* when each piece starts where the last one ended.
Cut(points, length) ==
    LET from[at \in 1..Len(points) + 1] ==
          IF at > Len(points) THEN << >>
          ELSE LET n == length[at]
               IN  <<SubSeq(points, at, at + n - 1)>> \o from[at + n]
    IN  from[1]

Pretokens(points) ==
    Cut(points, [at \in DOMAIN points |-> NextPretoken(points, at)])

\* kq_nfc9_map: compositions happen within runs of code points Unicode 9 knows.
Nfc9(text) ==
    LET known(c) == c \notin Unassigned
        upto[n \in 0..Len(text)] ==
          IF n = 0 THEN << >>
          ELSE LET before == upto[n - 1]
                   pair   == <<before[Len(before)], text[n]>>
               IN  IF /\ before # << >> /\ pair \in DOMAIN Compose
                      /\ known(pair[1]) /\ known(pair[2])
                     THEN Append(SubSeq(before, 1, Len(before) - 1), Compose[pair])
                     ELSE Append(before, text[n])
    IN  upto[Len(text)]
-----------------------------------------------------------------------------
(* Byte pair encoding (kq_bpe_piece).                                      *)

PairAt(symbols, k) == <<symbols[k], symbols[k + 1]>>

Mergeable(symbols) ==
    {k \in 1..Len(symbols) - 1 : PairAt(symbols, k) \in DOMAIN tokenizer.merge}

RankAt(symbols, k) == tokenizer.merge[PairAt(symbols, k)].rank

\* The leftmost place with the lowest rank.
Best(symbols) ==
    CHOOSE k \in Mergeable(symbols) :
      \A j \in Mergeable(symbols) :
        \/ RankAt(symbols, k) < RankAt(symbols, j)
        \/ RankAt(symbols, k) = RankAt(symbols, j) /\ k <= j

\* Mutant: an occurrence that overlaps the one before is replaced as well.
ReplaceOverlapping(symbols, pair) ==
    LET from[k \in 1..Len(symbols) + 1] ==
          IF k > Len(symbols) THEN << >>
          ELSE IF k < Len(symbols) /\ PairAt(symbols, k) = pair
                 THEN <<tokenizer.merge[pair].result>> \o from[k + 1]
          ELSE <<symbols[k]>> \o from[k + 1]
    IN  from[1]

\* One round: every occurrence of the pair, from the left.
Replace(symbols, pair) ==
    LET from[k \in 1..Len(symbols) + 1] ==
          IF k > Len(symbols) THEN << >>
          ELSE IF k < Len(symbols) /\ PairAt(symbols, k) = pair
                 THEN <<tokenizer.merge[pair].result>> \o from[k + 2]
          ELSE <<symbols[k]>> \o from[k + 1]
    IN  from[1]

Merged(symbols) ==
    LET round[n \in 0..Len(symbols)] ==
          IF n = 0 THEN symbols
          ELSE LET s == round[n - 1]
               IN  IF Mergeable(s) = {} THEN s
                   ELSE Replace(s, PairAt(s, Best(s)))
    IN  round[Len(symbols)]

Symbols(piece) ==
    LET bytes == Bytes(piece)
    IN  [k \in DOMAIN bytes |-> tokenizer.byte[bytes[k]]]

BpePiece(piece) == Merged(Symbols(piece))

\* kq_encode_ordinary.
EncodeOrdinary(text) ==
    LET pieces == Pretokens(Nfc9(text))
    IN  Lists!FlattenSeq([k \in DOMAIN pieces |-> BpePiece(pieces[k])])
-----------------------------------------------------------------------------
(* kq_tokenizer_encode.                                                    *)

\* The special token at a place, the longest if there are more; 0 if none.
SpecialAt(text, at) ==
    LET there == {k \in DOMAIN Special :
                    /\ at + Len(Special[k].text) - 1 <= Len(text)
                    /\ SubSeq(text, at, at + Len(Special[k].text) - 1)
                         = Special[k].text}
    IN  IF there = {} THEN 0
        ELSE CHOOSE k \in there :
               \A j \in there : \/ Len(Special[k].text) > Len(Special[j].text)
                                \/ Len(Special[k].text) = Len(Special[j].text) /\ k <= j

\* The text as ordinary stretches, each with the special token behind it.
Segments(text) ==
    LET from[at \in 1..Len(text) + 1] ==
          LET places == {k \in at..Len(text) : SpecialAt(text, k) # 0}
          IN  IF places = {}
                THEN <<[ordinary |-> SubSeq(text, at, Len(text)), special |-> 0]>>
                ELSE LET next == CHOOSE k \in places : \A j \in places : k <= j
                         s    == SpecialAt(text, next)
                     IN  <<[ordinary |-> SubSeq(text, at, next - 1), special |-> s]>>
                           \o from[next + Len(Special[s].text)]
    IN  from[1]

IsUtf8(text) == \A k \in DOMAIN text : text[k] # NotUtf8

\* An invalid byte is one byte long.
Utf8Length(text) ==
    Len(Lists!FlattenSeq([k \in DOMAIN text |->
                            IF text[k] = NotUtf8 THEN <<0>> ELSE Utf8(text[k])]))

\* A stretch is encoded, and found not to be UTF-8, before the special token
\* behind it is looked at.
EncodeRefusal(text, policy) ==
    LET segments == Segments(text)
    IN  IF Utf8Length(text) > MaxInput THEN "LIMIT_EXCEEDED"
        ELSE FirstRefusal(
               [c \in 1..2 * Len(segments) |->
                  LET segment == segments[(c + 1) \div 2]
                  IN  IF c % 2 = 1
                        THEN <<IsUtf8(segment.ordinary), "INVALID_UTF8">>
                        ELSE <<segment.special = 0 \/ policy = "RECOGNIZE",
                               "UNSUPPORTED_TOKENIZER_OPTION">>])

SpecialId(k) == BaseVocabulary + k - 1

Encoded(text) ==
    LET segments == Segments(text)
    IN  Lists!FlattenSeq([k \in DOMAIN segments |->
                             EncodeOrdinary(segments[k].ordinary)
                               \o IF segments[k].special = 0 THEN << >>
                                  ELSE <<SpecialId(segments[k].special)>>])
-----------------------------------------------------------------------------
(* kq_tokenizer_decode.                                                    *)

\* What stands for bytes that are no code point, U+FFFD.
Replacement == 65533

\* kq_raw_bytes_to_utf8: what is no code point becomes one U+FFFD, together
\* with the continuation bytes behind it.
Repaired(bytes) ==
    LET from[k \in 1..Len(bytes) + 1] ==
          IF k > Len(bytes) THEN << >>
          ELSE LET n == CodePointLength(bytes, k)
               IN  IF n # 0 THEN SubSeq(bytes, k, k + n - 1) \o from[k + n]
                   ELSE Utf8(Replacement)
                          \o from[k + 1 + Stretch(bytes, k + 1, "continuation")]
    IN  from[1]

IsSpecial(id) == id \in BaseVocabulary..TokenizerLength - 1

SpecialOf(id) == Special[id - BaseVocabulary + 1]

\* The bytes a token stands for, 256 where its string is none of the alphabet.
TokenBytes(id) ==
    [k \in DOMAIN tokenizer.tokens[id + 1] |->
       UnicodeToByte(tokenizer.tokens[id + 1][k])]

DecodeRefusal(ids) ==
    FirstRefusal(
      [c \in 1..2 * Len(ids) |->
         LET id == ids[(c + 1) \div 2]
         IN  IF c % 2 = 1 THEN <<id < TokenizerLength, "INVALID_TOKEN_ID">>
             ELSE <<IsSpecial(id) \/ id >= TokenizerLength
                      \/ \A k \in DOMAIN TokenBytes(id) : TokenBytes(id)[k] # 256,
                    "INCOMPATIBLE_TOKENIZER">>])

SpecialText(id, policy) ==
    IF policy = "SKIP" /\ SpecialOf(id).skipped THEN << >>
    ELSE Bytes(SpecialOf(id).text)

\* Mutant: a special token's text overtakes the bytes before it.
StepUnflushed(buffers, id, policy) ==
    IF IsSpecial(id)
      THEN [buffers EXCEPT !.decoded = @ \o SpecialText(id, policy)]
      ELSE [buffers EXCEPT !.raw = @ \o TokenBytes(id)]

\* One turn of the loop: bytes are gathered until a special token comes.
Step(buffers, id, policy) ==
    IF IsSpecial(id)
      THEN [raw     |-> << >>,
            decoded |-> buffers.decoded \o Repaired(buffers.raw)
                          \o SpecialText(id, policy)]
      ELSE [buffers EXCEPT !.raw = @ \o TokenBytes(id)]

Decoded(ids, policy) ==
    LET upto[n \in 0..Len(ids)] ==
          IF n = 0 THEN [raw |-> << >>, decoded |-> << >>]
          ELSE Step(upto[n - 1], ids[n], policy)
    IN  upto[Len(ids)].decoded \o Repaired(upto[Len(ids)].raw)
-----------------------------------------------------------------------------
(* The chat prompt (kq_chat.c).                                            *)

\* kq_chat_trim.
Trimmed(text) ==
    LET solid == {k \in DOMAIN text : ~IsSpace(text[k])}
    IN  IF solid = {} THEN << >>
        ELSE SubSeq(text, CHOOSE k \in solid : \A j \in solid : k <= j,
                          CHOOSE k \in solid : \A j \in solid : j <= k)

RoleText ==
    [system    |-> <<115, 121, 115, 116, 101, 109>>,
     user      |-> <<117, 115, 101, 114>>,
     assistant |-> <<97, 115, 115, 105, 115, 116, 97, 110, 116>>]

LineFeed == <<10>>

\* <|im_start|>, <|im_end|>, <think> and </think> by their places in the table.
ImStart  == Special[2].text
ImEnd    == Special[3].text
Think    == Special[Len(Special) - 1].text
EndThink == Special[Len(Special)].text

\* What the calls are given is made of code points and of bytes that are none; what
\* the program writes, and what two code points compose to, of code points only.
ASSUME TextAssumption ==
    /\ NotUtf8 \notin Codes
    /\ Text \subseteq Seq(Points) /\ Ids \subseteq Seq(Nat)
    /\ Messages \subseteq Seq([role : STRING, type : STRING, content : Seq(Points)])
    /\ \A role \in DOMAIN RoleText : RoleText[role] \in Seq(Codes)
    /\ LineFeed \in Seq(Codes)
    /\ \A pair \in DOMAIN Compose :
         pair[1] \notin Unassigned /\ pair[2] \notin Unassigned => Compose[pair] \in Codes

FirstConversation(messages) == IF messages[1].role = "system" THEN 2 ELSE 1

\* Users and assistants in turn, the user first.
ExpectedRole(messages, m) ==
    IF (m - FirstConversation(messages)) % 2 = 0 THEN "user" ELSE "assistant"

MessageChecks(messages, m) ==
    << <<messages[m].type = "text", "UNSUPPORTED_CHAT">>,
       <<messages[m].role \in DOMAIN RoleText, "UNSUPPORTED_CHAT">>,
       <<m >= FirstConversation(messages) =>
           messages[m].role = ExpectedRole(messages, m), "MALFORMED_CHAT">>,
       <<IsUtf8(messages[m].content), "INVALID_UTF8">> >>

HasConversation(messages) ==
    messages # << >> /\ FirstConversation(messages) <= Len(messages)

RenderRefusal(messages) ==
    IF ~HasConversation(messages) THEN "MALFORMED_CHAT"
    ELSE FirstRefusal(
           Lists!FlattenSeq([m \in DOMAIN messages |-> MessageChecks(messages, m)])
             \o << <<ExpectedRole(messages, Len(messages) + 1) = "assistant",
                     "MALFORMED_CHAT">> >>)

Framed(role, content) ==
    ImStart \o RoleText[role] \o LineFeed \o Trimmed(content) \o ImEnd \o LineFeed

GenerationPrompt ==
    ImStart \o RoleText["assistant"] \o LineFeed
      \o Think \o LineFeed \o LineFeed \o EndThink \o LineFeed \o LineFeed

Rendered(messages, prompt) ==
    Lists!FlattenSeq([m \in DOMAIN messages |->
                        Framed(messages[m].role, messages[m].content)])
      \o IF prompt THEN GenerationPrompt ELSE << >>
-----------------------------------------------------------------------------
(* The calls.                                                              *)

TokenizerParts == {"tokenizer", "tokens", "token_slots", "merge_slots"}

TokenizerInit == tokenizer = NoTokenizer /\ call = NoCall

Closed == tokenizer = NoTokenizer

\* No tokenizer is open or being opened.
Absent == Closed /\ call = NoCall

\* kq_tokenizer_open_impl takes three steps: the record, the three tables, which
\* are all asked for before one is looked at, and what is built of them.
Constructing(next) == [kind |-> "open", next |-> next]

OpenTokenizer ==
    /\ Absent
    /\ \/ /\ held' = held \cup {"tokenizer"}
          /\ call' = Constructing("tables")
          /\ UNCHANGED outcome
       \/ /\ outcome' = "OUT_OF_MEMORY"
          /\ UNCHANGED <<held, call>>
    /\ UNCHANGED <<file, stage, reader, parsed, gguf, tokenizer>>

AllocateLookup ==
    /\ call = Constructing("tables")
    /\ \E given \in SUBSET {"tokens", "token_slots", "merge_slots"} :
         held' = held \cup given
    /\ call' = Constructing("build")
    /\ UNCHANGED <<file, stage, reader, parsed, gguf, outcome, tokenizer>>

\* A tokenizer that lacks a table, or that the container does not fit, is closed.
BuildTokenizer ==
    /\ call = Constructing("build")
    /\ call' = NoCall
    /\ IF TokenizerParts \subseteq held /\ Compatible
         THEN tokenizer' = Built /\ outcome' = "OK" /\ UNCHANGED held
         ELSE /\ held' = held \ TokenizerParts
              /\ outcome' = IF TokenizerParts \subseteq held
                              THEN "INCOMPATIBLE_TOKENIZER" ELSE "OUT_OF_MEMORY"
              /\ UNCHANGED tokenizer
    /\ UNCHANGED <<file, stage, reader, parsed, gguf>>

CloseTokenizer ==
    /\ ~Closed /\ call = NoCall
    /\ tokenizer' = NoTokenizer
    /\ held' = held \ TokenizerParts
    /\ UNCHANGED <<file, stage, reader, parsed, gguf, outcome, call>>

\* The answer to a call that worked out `output' for a buffer of that capacity:
\* a buffer too small is not written, but its right size is told.
Answer(kind, source, output, capacity) ==
    [kind |-> kind, source |-> source, required |-> Len(output),
     output |-> IF Len(output) <= capacity THEN output ELSE << >>,
     status |-> IF Len(output) <= capacity THEN "OK" ELSE "BUFFER_TOO_SMALL"]

Refused(kind, status) ==
    [kind |-> kind, source |-> << >>, required |-> 0, output |-> << >>,
     status |-> status]

\* A buffer is first grown for a special token or a stretch that is not empty:
\* from there on memory may run out, whatever is found wrong later.
EncodeAllocates(text, policy) ==
    /\ text # << >> /\ Utf8Length(text) <= MaxInput
    /\ policy = "RECOGNIZE" \/ Segments(text)[1].ordinary # << >>

\* kq_tokenizer_encode.
EncodeText(text, policy, capacity) ==
    LET refusal == EncodeRefusal(text, policy)
    IN  \/ call' = IF refusal = "OK" THEN Answer("encode", text, Encoded(text), capacity)
                   ELSE Refused("encode", refusal)
        \/ /\ EncodeAllocates(text, policy)
           /\ call' = Refused("encode", "OUT_OF_MEMORY")

Encode(text, policy, capacity) ==
    /\ ~Closed /\ call = NoCall
    /\ EncodeText(text, policy, capacity)
    /\ UNCHANGED <<ggufVars, tokenizer>>

\* kq_chat_tokenize: the prompt is rendered twice, for its size and for itself,
\* and encoded with its special tokens.
Chat(messages, prompt, capacity) ==
    LET refusal == RenderRefusal(messages)
    IN  /\ ~Closed /\ call = NoCall
        /\ \/ refusal = "OK" /\ EncodeText(Rendered(messages, prompt), "RECOGNIZE", capacity)
           \/ refusal # "OK" /\ call' = Refused("encode", refusal)
           \/ /\ refusal # "OK" /\ HasConversation(messages)
              /\ FirstRefusal(MessageChecks(messages, 1)) = "OK"
              /\ call' = Refused("encode", "OUT_OF_MEMORY")
        /\ UNCHANGED <<ggufVars, tokenizer>>

\* Some token before the first that is refused has text to keep.
DecodeAllocates(ids, policy) ==
    \E n \in DOMAIN ids :
      /\ \A k \in 1..n : ids[k] < TokenizerLength
      /\ IsSpecial(ids[n]) => SpecialText(ids[n], policy) # << >>

\* kq_tokenizer_decode, of any ids or of what was encoded before.
Decode(kind, ids, source, policy, capacity) ==
    LET refusal == DecodeRefusal(ids)
    IN  /\ ~Closed
        /\ \/ call' = IF refusal = "OK"
                       THEN Answer(kind, source, Decoded(ids, policy), capacity)
                       ELSE Refused(kind, refusal)
           \/ /\ DecodeAllocates(ids, policy)
              /\ call' = Refused(kind, "OUT_OF_MEMORY")
        /\ UNCHANGED <<ggufVars, tokenizer>>

DecodeIds(ids, policy, capacity) ==
    call = NoCall /\ Decode("decode", ids, << >>, policy, capacity)

\* The back of an encoding, special tokens kept.
DecodeEncoded(capacity) ==
    /\ call.kind = "encode" /\ call.status = "OK"
    /\ Decode("back", call.output, call.source, "KEEP", capacity)

\* The caller is done with the answer.
Return ==
    /\ ~Closed /\ call # NoCall
    /\ call' = NoCall
    /\ UNCHANGED <<ggufVars, tokenizer>>

TokenizerNext ==
    \/ OpenTokenizer \/ AllocateLookup \/ BuildTokenizer \/ CloseTokenizer \/ Return
    \/ \E c \in Capacity :
         \/ \E text \in Text, policy \in {"REJECT", "RECOGNIZE"} :
              Encode(text, policy, c)
         \/ \E messages \in Messages, prompt \in BOOLEAN : Chat(messages, prompt, c)
         \/ \E ids \in Ids, policy \in {"KEEP", "SKIP"} : DecodeIds(ids, policy, c)
         \/ DecodeEncoded(c)
-----------------------------------------------------------------------------
(* Properties.                                                             *)

\* The lengths each alternative of the documented expression can match at a
\* place (docs/TOKENIZER-CONTRACT.md:66), in its order:
\*   (?i:'s|'t|'re|'ve|'m|'ll|'d)    [^\r\n\p{L}\p{N}]?\p{L}+    \p{N}
\*    ?[^\s\p{L}\p{N}]+[\r\n]*    \s*[\r\n]+    \s+(?!\S)    \s+
Matches(points, at) ==
    LET lengths       == 1..Len(points) + 1 - at
        all(from, to, In(_)) == \A k \in from..to : In(points[k])
        lowered(n)    == [k \in 1..n |-> LowerAscii(points[at + k])]
        first         == points[at]
        endings       == {Endings[s] : s \in DOMAIN Endings}
    IN  << {n \in lengths : first = 39 /\ lowered(n - 1) \in endings},
           {n \in lengths : \E o \in {0, 1} :
              /\ o < n /\ all(at + o, at + n - 1, IsLetter)
              /\ o = 1 => ~IsCrLf(first) /\ ~IsLetter(first) /\ ~IsNumber(first)},
           {n \in lengths : n = 1 /\ IsNumber(first)},
           {n \in lengths : \E o \in {0, 1}, m \in 1..n :
              /\ o < m /\ (o = 1 => first = 32)
              /\ all(at + o, at + m - 1, IsOther)
              /\ all(at + m, at + n - 1, IsCrLf)},
           {n \in lengths : all(at, at + n - 1, IsSpace) /\ IsCrLf(points[at + n - 1])},
           {n \in lengths : /\ all(at, at + n - 1, IsSpace)
                            /\ at + n <= Len(points) => IsSpace(points[at + n])},
           {n \in lengths : all(at, at + n - 1, IsSpace)} >>

\* The first alternative that matches takes all it can.
RegexLength(points, at) ==
    LET matches == Matches(points, at)
        first   == CHOOSE a \in DOMAIN matches :
                     matches[a] # {} /\ \A b \in 1..a - 1 : matches[b] = {}
    IN  CHOOSE n \in matches[first] : \A m \in matches[first] : m <= n

\* A text is cut where the documented expression cuts it.
PretokensAsRegex ==
    call.kind = "encode" =>
      LET segments == Segments(call.source)
      IN  \A k \in DOMAIN segments :
            LET points == Nfc9(segments[k].ordinary)
            IN  Pretokens(points)
                  = Cut(points, [at \in DOMAIN points |-> RegexLength(points, at)])

\* The textbook encoding: of all pairs, the one that was learnt first is merged,
\* at its leftmost place only, and then everything is looked at anew.
MergedOnce(symbols) ==
    LET step[n \in 0..Len(symbols)] ==
          IF n = 0 THEN symbols
          ELSE LET s == step[n - 1]
                   k == Best(s)
               IN  IF Mergeable(s) = {} THEN s
                   ELSE SubSeq(s, 1, k - 1)
                          \o <<tokenizer.merge[PairAt(s, k)].result>>
                          \o SubSeq(s, k + 2, Len(s))
    IN  step[Len(symbols)]

\* Replacing every occurrence of the best pair at once, as each round of
\* kq_bpe_piece does, ends where merging one pair at a time ends.
MergesAsReference ==
    call.kind = "encode" =>
      LET segments == Segments(call.source)
      IN  \A k \in DOMAIN segments :
            LET pieces == Pretokens(Nfc9(segments[k].ordinary))
            IN  \A p \in DOMAIN pieces :
                  BpePiece(pieces[p]) = MergedOnce(Symbols(pieces[p]))

\* Decoding what was encoded, special tokens kept, gives the text back in its
\* normal form; and whatever ids are decoded, the bytes are UTF-8.
RoundTrip ==
    call.kind \in {"decode", "back"} /\ call.status = "OK" =>
      /\ Repaired(call.output) = call.output
      /\ call.kind = "back" =>
           LET segments == Segments(call.source)
           IN  call.output =
                 Lists!FlattenSeq([k \in DOMAIN segments |->
                   Bytes(Nfc9(segments[k].ordinary))
                     \o IF segments[k].special = 0 THEN << >>
                        ELSE Bytes(Special[segments[k].special].text)])
=============================================================================
