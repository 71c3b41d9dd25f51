-------------------------- MODULE KqProgramProofs --------------------------
(***************************************************************************)
(* What kq-run guarantees for every capacity, vocabulary and count of new  *)
(* tokens, and every list of layers: the order of its cleanup, the         *)
(* admission of every decode by the one check on the prompt, the wholeness *)
(* of what it prints, and that no call it makes lacks room.                *)
(*                                                                         *)
(* The check on the prompt is made once and relied on by calls that come   *)
(* much later; the strengthening carries it there: after r results the     *)
(* context is the prompt and the first r - 1 of them, so that it grows     *)
(* with the results and stays below what the check left room for.          *)
(*                                                                         *)
(* With it every call of the executor is given what the executor asks for. *)
(* That this is enough is arithmetic on the lists of buffers, from the     *)
(* executor's down to a request at the weight provider: each region is cut *)
(* one buffer behind the other, each sum is that of its cuts, and so the   *)
(* regions of the executor, the layer, the operator, its vectors and what  *)
(* a request stages lie in this order and apart.                           *)
(***************************************************************************)
EXTENDS KqProgram, SequenceTheorems, WellFoundedInduction, TLAPS

Before == {"open", "encode", "encoded", "sampling", "prefill"}
Sized  == {"encoded", "sampling", "prefill", "resize", "decode", "print"}
Fed    == {"resize", "decode", "print"}
Ending == {"close", "exit"}

\* The results are a generation that has not ended before its last token.
Whole(r) ==
    /\ Len(r) \in 1..wanted
    /\ \A i \in 1..(Len(r) - 1) : r[i] \notin Eog
    /\ context = prompt \o SubSeq(r, 1, Len(r) - 1)
    /\ out = Session!Outputs(context, Last(r), IF sampled THEN Len(r) ELSE 0)

\* Nothing has been computed before the prefill.
FreshInv == pc \in Before => /\ context = << >> /\ results = << >>
                             /\ out = Session!NoOutput

\* The check on the prompt, as long as it is relied on.
SizeInv == pc \in Sized => /\ Len(prompt) \in 1..(Capacity - 1)
                           /\ wanted - 1 <= Capacity - Len(prompt)

\* The generation so far, and why the loop goes on or has stopped.
LoopInv == /\ pc \in Fed => Whole(results)
           /\ pc \in {"resize", "decode"} => /\ Len(results) < wanted
                                             /\ Last(results) \notin Eog
           /\ pc = "print" => Len(results) = wanted \/ Last(results) \in Eog
           /\ pc = "decode" => scratch >= Need(Len(context), 1)

\* Success and what was printed.
PrintInv == /\ pc \notin Ending => ok /\ printed = << >>
            /\ pc \in Ending /\ printed = << >> => ~ok
            /\ printed # << >> => /\ ok /\ Whole(printed)
                                  /\ Len(printed) = wanted \/ Last(printed) \in Eog

IInv == TypeOK /\ FreshInv /\ SizeInv /\ LoopInv /\ PrintInv
-----------------------------------------------------------------------------
(* Sequences. *)

\* Appending leaves what was there in front.
LEMMA PrefixOfAppend ==
    ASSUME NEW S, NEW r \in Seq(S), NEW t \in S
    PROVE  /\ Append(r, t) \in Seq(S)
           /\ Len(Append(r, t)) = Len(r) + 1
           /\ Append(r, t)[Len(r) + 1] = t
           /\ \A i \in 1..Len(r) : Append(r, t)[i] = r[i]
           /\ SubSeq(Append(r, t), 1, Len(r)) = r
<1>1. /\ Append(r, t) \in Seq(S) /\ Len(Append(r, t)) = Len(r) + 1
      /\ Append(r, t)[Len(r) + 1] = t
      /\ \A i \in 1..Len(r) : Append(r, t)[i] = r[i]
      /\ Len(r) \in Nat
  BY LenProperties, AppendProperties
<1> DEFINE u == Append(r, t)
<1> HIDE DEF u
<1>2. \A i \in 1..Len(r) : u[i] \in S /\ u[i] = r[i]
  BY <1>1, ElementOfSeq DEF u
<1>3. /\ SubSeq(u, 1, Len(r)) \in Seq(S)
      /\ Len(SubSeq(u, 1, Len(r))) = Len(r)
      /\ \A i \in 1..Len(r) : SubSeq(u, 1, Len(r))[i] = r[i]
  <2>1. /\ SubSeq(u, 1, Len(r)) \in Seq(S)
        /\ Len(SubSeq(u, 1, Len(r))) = IF 1 <= Len(r) THEN Len(r) - 1 + 1 ELSE 0
        /\ \A i \in 1..(Len(r) - 1 + 1) : SubSeq(u, 1, Len(r))[i] = u[1 + i - 1]
    BY <1>1, <1>2, SubSeqProperties
  <2> QED
    BY <1>1, <1>2, <2>1
<1>4. SubSeq(u, 1, Len(r)) = r
  BY <1>3, SeqEqual
<1> QED
  BY <1>1, <1>4 DEF u

\* All results but the last.
LEMMA ButLast ==
    ASSUME NEW S, NEW r \in Seq(S), Len(r) >= 1
    PROVE  /\ SubSeq(r, 1, Len(r) - 1) \in Seq(S)
           /\ Len(SubSeq(r, 1, Len(r) - 1)) = Len(r) - 1
<1> DEFINE n == Len(r) - 1
<1>1. n \in Nat
  BY LenProperties
<1>2. \A i \in 1..n : r[i] \in S
  BY <1>1, ElementOfSeq
<1> HIDE DEF n
<1>3. /\ SubSeq(r, 1, n) \in Seq(S)
      /\ Len(SubSeq(r, 1, n)) = IF 1 <= n THEN n - 1 + 1 ELSE 0
  BY <1>1, <1>2, SubSeqProperties
<1>4. (IF 1 <= n THEN n - 1 + 1 ELSE 0) = n
  BY <1>1
<1> QED
  BY <1>3, <1>4 DEF n

\* Feeding back the last result makes the context the prompt and all results.
LEMMA FeedBack ==
    ASSUME NEW S, NEW p \in Seq(S), NEW r \in Seq(S), Len(r) >= 1
    PROVE  (p \o SubSeq(r, 1, Len(r) - 1)) \o <<r[Len(r)]>> = p \o r
<1>1. Len(r) \in Nat /\ 1 \in 1..Len(r) /\ Len(r) \in 1..Len(r)
  BY LenProperties
<1>2. SubSeq(r, 1, Len(r)) = SubSeq(r, 1, Len(r) - 1) \o <<r[Len(r)]>>
  BY <1>1, SubSeqRecursiveSecond
<1>3. SubSeq(r, 1, Len(r)) = r
  BY SubSeqFull
<1>4. SubSeq(r, 1, Len(r) - 1) \in Seq(S)
  BY ButLast
<1>5. <<r[Len(r)]>> \in Seq(S)
  <2>1. r[Len(r)] \in S
    BY <1>1, ElementOfSeq
  <2> QED
    BY <2>1
<1> DEFINE u == SubSeq(r, 1, Len(r) - 1)
           v == <<r[Len(r)]>>
<1> HIDE DEF u, v
<1>6. u \in Seq(S) /\ v \in Seq(S)
  BY <1>4, <1>5 DEF u, v
<1>7. (p \o u) \o v = p \o (u \o v)
  BY <1>6, SMTT(60)
<1> QED
  BY <1>2, <1>3, <1>7 DEF u, v

\* The context has one token for each of the prompt and all results but one.
LEMMA ContextLength ==
    ASSUME NEW S, NEW p \in Seq(S), NEW r \in Seq(S), Len(r) >= 1
    PROVE  Len(p \o SubSeq(r, 1, Len(r) - 1)) = Len(p) + Len(r) - 1
<1> DEFINE u == SubSeq(r, 1, Len(r) - 1)
<1>1. Len(r) \in Nat /\ Len(p) \in Nat
  BY LenProperties
<1>2. u \in Seq(S) /\ Len(u) = Len(r) - 1
  BY ButLast
<1> HIDE DEF u
<1>3. Len(p \o u) = Len(p) + Len(u)
  BY <1>2, ConcatProperties
<1> QED
  BY <1>1, <1>2, <1>3 DEF u
-----------------------------------------------------------------------------
(* The owners. *)

\* The chain of owners, written out.
LEMMA ChainIs ==
    ASSUME sampled \in BOOLEAN
    PROVE  /\ Len(Chain) = IF sampled THEN 8 ELSE 7
           /\ Chain[1] = "file" /\ Chain[2] = "gguf" /\ Chain[3] = "model"
           /\ Chain[4] = "tokenizer" /\ Chain[5] = "provider"
           /\ Chain[6] = "config" /\ Chain[7] = "state"
           /\ sampled => Chain[8] = "sampling_config"
BY DEF Chain

\* The eighth owner is opened in a sampled run only.
LEMMA ChainLength ==
    ASSUME sampled \in BOOLEAN, NEW i \in 1..Len(Chain)
    PROVE  i \in 1..8 /\ (i = 8 => sampled)
<1> DEFINE n == Len(Chain)
<1>1. n = IF sampled THEN 8 ELSE 7
  BY ChainIs
<1>2. i \in 1..n
  OBVIOUS
<1> HIDE DEF n
<1> QED
  BY <1>1, <1>2

\* Every owner of the chain is one of those whose borrowings are known.
LEMMA ChainInBorrows ==
    ASSUME sampled \in BOOLEAN, NEW i \in 1..Len(Chain)
    PROVE  Chain[i] \in DOMAIN Borrows
<1>1. DOMAIN Borrows = {"file", "gguf", "model", "tokenizer", "provider", "config",
                        "state", "sampling_config", "prompt", "token_ids",
                        "scratch", "logits", "sampling_scratch"}
  BY DEF Borrows
<1>2. i \in 1..8 /\ (i = 8 => sampled)
  BY ChainLength
<1>3. Chain[i] \in {"file", "gguf", "model", "tokenizer", "provider", "config",
                   "state", "sampling_config"}
  <2>1. CASE i \in 1..4
    BY <2>1, ChainIs
  <2>2. CASE i \in 5..8
    BY <1>2, <2>2, ChainIs
  <2> QED
    BY <1>2, <2>1, <2>2
<1> QED
  BY <1>1, <1>3

\* An owner is opened after those it points into.
LEMMA OpenedAfterOwners ==
    ASSUME sampled \in BOOLEAN, NEW i \in 1..Len(Chain), NEW x \in Borrows[Chain[i]]
    PROVE  \E j \in 1..(i - 1) : Chain[j] = x
<1>1. i \in 1..8 /\ (i = 8 => sampled)
  BY ChainLength
<1>2. CASE i \in 1..4
  BY <1>2, ChainIs DEF Borrows
<1>3. CASE i = 5
  <2>1. x \in {"gguf", "model"}
    BY <1>3, ChainIs DEF Borrows
  <2> QED
    BY <1>3, <2>1, ChainIs
<1>4. CASE i = 6
  <2>1. x \in {"gguf", "model", "tokenizer", "provider"}
    BY <1>4, ChainIs DEF Borrows
  <2> QED
    BY <1>4, <2>1, ChainIs
<1>5. CASE i \in {7, 8}
  BY <1>1, <1>5, ChainIs DEF Borrows
<1> QED
  BY <1>1, <1>2, <1>3, <1>4, <1>5

\* An owner is released after those that point into it.
LEMMA ReleasedAfterUsers ==
    ASSUME NEW i \in 1..Len(CloseOrder), NEW o \in DOMAIN Borrows,
           CloseOrder[i] \in Borrows[o]
    PROVE  \E j \in 1..(i - 1) : CloseOrder[j] = o
<1>1. i \in 1..13
  BY DEF CloseOrder
<1>2. /\ CloseOrder[5] = "state" /\ CloseOrder[7] = "config"
      /\ CloseOrder[8] = "provider" /\ CloseOrder[9] = "tokenizer"
      /\ CloseOrder[10] = "model" /\ CloseOrder[11] = "gguf"
  BY DEF CloseOrder
<1>3. /\ i = 7 => CloseOrder[i] = "config"
      /\ i = 8 => CloseOrder[i] = "provider"
      /\ i = 9 => CloseOrder[i] = "tokenizer"
      /\ i = 10 => CloseOrder[i] = "model"
      /\ i = 11 => CloseOrder[i] = "gguf"
      /\ i = 12 => CloseOrder[i] = "file"
      /\ i \in 1..6 \cup {13} =>
           CloseOrder[i] \in {"sampling_scratch", "logits", "scratch", "token_ids",
                              "state", "sampling_config", "prompt"}
  BY DEF CloseOrder
<1>4. /\ i \in 7..12
      /\ i = 12 => o = "gguf"
      /\ i = 11 => o \in {"model", "tokenizer", "provider", "config"}
      /\ i = 10 => o \in {"provider", "config"}
      /\ i \in {8, 9} => o = "config"
      /\ i = 7 => o = "state"
  BY <1>1, <1>3 DEF Borrows
<1> QED
  BY <1>2, <1>4

-----------------------------------------------------------------------------
(* The invariant. *)

LEMMA InitInv == Init => IInv
<1> SUFFICES ASSUME Init PROVE IInv
  OBVIOUS
<1>1. TypeOK
  BY RunAssumption, EmptySeq DEF Init, TypeOK, Places, Borrows, Session!Init
<1>2. FreshInv /\ SizeInv /\ LoopInv /\ PrintInv
  BY DEF Init, Session!Init, Session!NoOutput, Session!Outputs,
         FreshInv, SizeInv, LoopInv, PrintInv, Before, Sized, Fed, Ending
<1> QED
  BY <1>1, <1>2 DEF IInv

\* A generation stays one as long as what it is made of does not change.
LEMMA WholeKept ==
    ASSUME UNCHANGED <<sampled, wanted, prompt, context, out>>, NEW r, Whole(r)
    PROVE  Whole(r)'
BY DEF Whole, Session!Outputs

\* What a successful call does to the generation.
LEMMA GenerateStep ==
    ASSUME IInv, NEW t \in Token, PrefillCall(t) \/ DecodeCall(t)
    PROVE  LET r == Append(results, t)
           IN  /\ pc \in {"prefill", "decode"}
               /\ r \in Seq(Token) /\ Len(r) \in 1..wanted /\ Last(r) = t
               /\ Len(r) = Len(results) + 1
               /\ \A i \in 1..(Len(r) - 1) : r[i] \notin Eog
               /\ context' \in Seq(Token)
               /\ context' = prompt \o SubSeq(r, 1, Len(r) - 1)
               /\ out' = Session!Outputs(context', t, IF sampled THEN Len(r) ELSE 0)
<1> DEFINE r == Append(results, t)
<1> USE DEF IInv
<1>1. /\ results \in Seq(Token) /\ prompt \in Seq(Token) /\ context \in Seq(Token)
      /\ wanted \in Nat \ {0} /\ sampled \in BOOLEAN
  BY RunAssumption DEF TypeOK
<1>2. /\ r \in Seq(Token) /\ Len(r) = Len(results) + 1
      /\ r[Len(results) + 1] = t
      /\ \A i \in 1..Len(results) : r[i] = results[i]
      /\ SubSeq(r, 1, Len(results)) = results
      /\ Len(results) \in Nat
  BY <1>1, PrefixOfAppend, LenProperties
<1> HIDE DEF r
<1>3. Last(r) = t /\ SubSeq(r, 1, Len(r) - 1) = results
  BY <1>2 DEF Last
<1>4. CASE PrefillCall(t)
  <2>1. /\ pc = "prefill" /\ context = << >> /\ results = << >>
        /\ out = Session!NoOutput
    BY <1>4 DEF PrefillCall, FreshInv, Before
  <2>2. Len(results) = 0
    BY <2>1, EmptySeq
  <2>3. context' = << >> \o prompt
    BY <1>4, <2>1 DEF PrefillCall, Session!Succeed
  <2>4. context' = prompt /\ context' = prompt \o results
    BY <1>1, <2>1, <2>3, ConcatEmptySeq
  <2>5. out' = Session!Outputs(context', t, IF sampled THEN 1 ELSE 0)
    BY <1>1, <1>4, <2>1 DEF PrefillCall, Session!Succeed, Session!Draws,
       Session!NoOutput, Session!Outputs
  <2> QED
    BY <1>1, <1>2, <1>3, <2>1, <2>2, <2>4, <2>5 DEF r
<1>5. CASE DecodeCall(t)
  <2>1. /\ pc = "decode" /\ Whole(results)
        /\ Len(results) < wanted /\ Last(results) \notin Eog
    BY <1>5 DEF DecodeCall, LoopInv, Fed
  <2>2. /\ Len(results) >= 1
        /\ \A i \in 1..(Len(results) - 1) : results[i] \notin Eog
        /\ context = prompt \o SubSeq(results, 1, Len(results) - 1)
        /\ out = Session!Outputs(context, Last(results),
                                 IF sampled THEN Len(results) ELSE 0)
    BY <2>1 DEF Whole
  <2>3. context' = context \o <<Last(results)>>
    BY <1>5 DEF DecodeCall, Session!Succeed
  <2>4. context' = prompt \o results
    BY <1>1, <2>2, <2>3, FeedBack DEF Last
  <2>5. \A i \in 1..(Len(r) - 1) : r[i] \notin Eog
    BY <1>2, <2>1, <2>2 DEF Last
  <2>6. out.draws = IF sampled THEN Len(results) ELSE 0
    BY <2>2 DEF Session!Outputs
  <2>7. out' = Session!Outputs(context', t, IF sampled THEN Len(r) ELSE 0)
    <3>1. out' = Session!Outputs(context', t, IF sampled THEN out.draws + 1
                                                        ELSE out.draws)
      BY <1>5 DEF DecodeCall, Session!Succeed, Session!Draws
    <3> QED
      BY <1>1, <1>2, <2>6, <3>1
  <2>8. context' \in Seq(Token)
    BY <1>1, <2>4, ConcatProperties
  <2> QED
    BY <1>1, <1>2, <1>3, <2>1, <2>2, <2>4, <2>5, <2>7, <2>8 DEF r
<1> QED
  BY <1>4, <1>5

\* A call succeeded and its summary was taken.
LEMMA GenerateInv == ASSUME IInv, Generate PROVE IInv'
<1> USE DEF IInv
<1>1. PICK t \in Token : /\ PrefillCall(t) \/ DecodeCall(t)
                         /\ results' = Append(results, t)
  BY DEF Generate
<1>2. /\ pc' = IF Continues THEN "resize" ELSE "print"
      /\ UNCHANGED <<ok, sampled, wanted, open, prompt, scratch, printed>>
  BY DEF Generate
<1>3. /\ pc \in {"prefill", "decode"}
      /\ results' \in Seq(Token) /\ Len(results') \in 1..wanted
      /\ Last(results') = t
      /\ \A i \in 1..(Len(results') - 1) : results'[i] \notin Eog
      /\ context' \in Seq(Token)
      /\ context' = prompt \o SubSeq(results', 1, Len(results') - 1)
      /\ out' = Session!Outputs(context', t, IF sampled THEN Len(results') ELSE 0)
  BY <1>1, GenerateStep
<1>4. ok /\ printed = << >>
  BY <1>3 DEF PrintInv, Ending
<1>5. TypeOK'
  BY <1>2, <1>3, RunAssumption DEF TypeOK, Places
<1>6. Whole(results)'
  BY <1>2, <1>3 DEF Whole, Session!Outputs
<1>7. FreshInv' /\ SizeInv' /\ PrintInv'
  BY <1>2, <1>3, <1>4 DEF FreshInv, SizeInv, PrintInv, Before, Sized, Ending
<1>8. LoopInv'
  <2>1. Continues => Len(results') < wanted /\ Last(results') \notin Eog
    BY DEF Continues
  <2>2. ~Continues => Len(results') = wanted \/ Last(results') \in Eog
    BY <1>3, RunAssumption DEF Continues, TypeOK
  <2>3. pc' # "decode"
    BY <1>2
  <2>4. Last(results)' = Last(results')
    BY DEF Last
  <2> QED
    BY <1>2, <1>6, <2>1, <2>2, <2>3, <2>4 DEF LoopInv, Fed
<1> QED
  BY <1>5, <1>7, <1>8

\* The way to the prefill, where nothing has been computed yet.
LEMMA PrepareInv ==
    ASSUME IInv, OpenOwner \/ Encode \/ Allocate \/ AllocateSampling
    PROVE  IInv'
<1> USE DEF IInv
<1>1. /\ pc \in {"open", "encode", "encoded", "sampling"}
      /\ pc' \in Before
      /\ UNCHANGED <<ok, sampled, wanted, results, printed, session>>
  BY DEF OpenOwner, Encode, Allocate, AllocateSampling, Before
<1>2. ok /\ printed = << >>
  BY <1>1 DEF PrintInv, Ending
<1>3. FreshInv' /\ LoopInv' /\ PrintInv'
  BY <1>1, <1>2 DEF FreshInv, LoopInv, PrintInv, Before, Fed, Ending, session,
     Session!NoOutput, Session!Outputs
<1>4. SizeInv' /\ prompt' \in Seq(Token)
  <2>1. CASE Encode
    <3>1. PICK n \in 1..MaxPrompt : Fits(n) /\ prompt' \in [1..n -> Token]
      BY <2>1 DEF Encode
    <3>2. prompt' \in Seq(Token) /\ Len(prompt') = n
      BY <3>1, RunAssumption
    <3> QED
      BY <1>1, <3>1, <3>2, RunAssumption DEF Fits, SizeInv
  <2>2. CASE OpenOwner \/ Allocate \/ AllocateSampling
    <3>1. /\ UNCHANGED <<prompt, wanted>> /\ prompt \in Seq(Token)
          /\ pc' \in Sized => pc \in Sized
      BY <2>2 DEF OpenOwner, Allocate, AllocateSampling, Sized, TypeOK
    <3> QED
      BY <3>1 DEF SizeInv
  <2> QED
    BY <2>1, <2>2
<1>5. scratch' \in Nat
  <2>1. CASE Allocate
    <3>1. Len(prompt) \in 1..(Capacity - 1) /\ scratch' = Need(0, Len(prompt))
      BY <2>1 DEF Allocate, SizeInv, Sized
    <3> QED
      BY <3>1, RunAssumption
  <2>2. CASE OpenOwner \/ Encode \/ AllocateSampling
    BY <2>2 DEF OpenOwner, Encode, AllocateSampling, TypeOK
  <2> QED
    BY <2>1, <2>2
<1>6. open' \subseteq DOMAIN Borrows
  <2>1. CASE OpenOwner
    <3>1. PICK i \in 1..Len(Chain) : open' = open \cup {Chain[i]}
      BY <2>1 DEF OpenOwner
    <3>2. Chain[i] \in DOMAIN Borrows
      BY <3>1, ChainInBorrows DEF TypeOK
    <3> QED
      BY <3>1, <3>2 DEF TypeOK
  <2>2. CASE Encode \/ Allocate \/ AllocateSampling
    BY <2>2 DEF Encode, Allocate, AllocateSampling, TypeOK, Borrows
  <2> QED
    BY <2>1, <2>2
<1>7. TypeOK'
  BY <1>1, <1>4, <1>5, <1>6 DEF TypeOK, Before, Places, session
<1> QED
  BY <1>3, <1>4, <1>7

\* The scratch is grown to what this position needs.
LEMMA ResizeInv == ASSUME IInv, Resize PROVE IInv'
<1> USE DEF IInv
<1> DEFINE need == Need(Len(context), 1)
<1>1. /\ pc = "resize" /\ pc' = "decode"
      /\ scratch' = IF need > scratch THEN need ELSE scratch
      /\ UNCHANGED <<ok, sampled, wanted, open, prompt, results, printed,
                     context, out>>
      /\ Len(context) < Capacity
  BY DEF Resize, session
<1>2. need \in Nat /\ scratch \in Nat
  <2>1. Len(context) \in 0..Capacity /\ 1 \in 1..Capacity
    BY <1>1, LenProperties, RunAssumption DEF TypeOK
  <2> QED
    BY <2>1, RunAssumption DEF TypeOK
<1>3. scratch' \in Nat /\ scratch' >= need
  <2> HIDE DEF need
  <2> QED
    BY <1>1, <1>2
<1>4. Need(Len(context), 1)' = need
  BY <1>1
<1>5. Whole(results) /\ Whole(results)'
  BY <1>1, WholeKept DEF LoopInv, Fed, Whole, Session!Outputs
<1>6. LoopInv'
  BY <1>1, <1>3, <1>4, <1>5 DEF LoopInv, Fed, Last
<1>7. TypeOK'
  BY <1>1, <1>3 DEF TypeOK, Places
<1>8. FreshInv' /\ SizeInv' /\ PrintInv'
  BY <1>1 DEF FreshInv, SizeInv, PrintInv, Before, Sized, Ending
<1> QED
  BY <1>6, <1>7, <1>8

\* The whole generation is printed.
LEMMA ReportInv == ASSUME IInv, Report PROVE IInv'
<1> USE DEF IInv
<1>1. /\ pc = "print" /\ pc' = "close" /\ printed' = results
      /\ UNCHANGED <<ok, sampled, wanted, open, prompt, results, scratch,
                     context, out>>
  BY DEF Report, session
<1>2. /\ ok /\ Whole(results)
      /\ Len(results) = wanted \/ Last(results) \in Eog
  BY <1>1 DEF LoopInv, PrintInv, Fed, Ending
<1>3. printed' # << >>
  BY <1>1, <1>2, EmptySeq DEF Whole
<1>4. Whole(printed)'
  BY <1>1, <1>2 DEF Whole, Session!Outputs
<1>5. PrintInv'
  BY <1>1, <1>2, <1>3, <1>4 DEF PrintInv, Ending, Last
<1>6. FreshInv' /\ SizeInv' /\ LoopInv'
  BY <1>1 DEF FreshInv, SizeInv, LoopInv, Before, Sized, Fed
<1>7. TypeOK'
  BY <1>1 DEF TypeOK, Places
<1> QED
  BY <1>5, <1>6, <1>7

\* Whatever fails leads to the cleanup with nothing printed.
LEMMA AbortInv ==
    ASSUME IInv, Fail \/ EncodeFail \/ AllocateFail \/ SummaryFail
    PROVE  IInv'
<1> USE DEF IInv
<1>1. /\ pc \notin Ending /\ pc' = "close" /\ ok' = FALSE
      /\ UNCHANGED <<sampled, wanted, prompt, results, scratch, printed>>
      /\ open' \subseteq DOMAIN Borrows
  <2>1. CASE Fail
    BY <2>1 DEF Fail, Abort, Ending, TypeOK
  <2>2. CASE EncodeFail
    BY <2>2 DEF EncodeFail, Abort, Ending, TypeOK, Borrows
  <2>3. CASE AllocateFail
    BY <2>3 DEF AllocateFail, Abort, Ending, TypeOK, Borrows
  <2>4. CASE SummaryFail
    BY <2>4 DEF SummaryFail, Abort, Ending, TypeOK, PrefillCall, DecodeCall
  <2> QED
    BY <2>1, <2>2, <2>3, <2>4
<1>2. context' \in Seq(Token)
  <2>1. CASE SummaryFail
    BY <2>1, GenerateStep DEF SummaryFail
  <2>2. CASE Fail \/ EncodeFail \/ AllocateFail
    BY <2>2 DEF Fail, EncodeFail, AllocateFail, session, TypeOK
  <2> QED
    BY <2>1, <2>2
<1>3. printed = << >>
  BY <1>1 DEF PrintInv
<1>4. TypeOK'
  BY <1>1, <1>2 DEF TypeOK, Places
<1>5. FreshInv' /\ SizeInv' /\ LoopInv' /\ PrintInv'
  BY <1>1, <1>3 DEF FreshInv, SizeInv, LoopInv, PrintInv, Before, Sized, Fed, Ending
<1> QED
  BY <1>4, <1>5

\* The cleanup changes nothing but the owners, and so does the way out.
LEMMA CleanupInv == ASSUME IInv, Close \/ Exit \/ UNCHANGED vars PROVE IInv'
<1> USE DEF IInv
<1>1. CASE Close \/ Exit
  <2>1. /\ pc \in Ending /\ pc' \in Ending /\ open' \subseteq open
        /\ UNCHANGED <<ok, sampled, wanted, prompt, results, scratch, printed,
                       context, out>>
    BY <1>1 DEF Close, Exit, Ending, session
  <2>2. TypeOK'
    BY <2>1 DEF TypeOK, Places, Ending
  <2>3. printed # << >> => Whole(printed)'
    BY <2>1, WholeKept DEF PrintInv, Whole, Session!Outputs
  <2>4. PrintInv'
    BY <2>1, <2>3 DEF PrintInv, Last
  <2>5. FreshInv' /\ SizeInv' /\ LoopInv'
    BY <2>1 DEF FreshInv, SizeInv, LoopInv, Before, Sized, Fed, Ending
  <2> QED
    BY <2>2, <2>4, <2>5
<1>2. CASE UNCHANGED vars
  BY <1>2 DEF vars, program, session, TypeOK, FreshInv, SizeInv, LoopInv,
     PrintInv, Whole, Last, Session!Outputs, Session!NoOutput
<1> QED
  BY <1>1, <1>2

LEMMA StepInv == IInv /\ [Next]_vars => IInv'
BY GenerateInv, PrepareInv, ResizeInv, ReportInv, AbortInv, CleanupInv DEF Next

-----------------------------------------------------------------------------
(* Lists of buffers, and cutting them. *)

\* Every set of naturals that is not empty has a least member.
LEMMA Least ==
    ASSUME NEW S \in SUBSET Nat, S # {}
    PROVE  \E x \in S : \A y \in S : x <= y
<1>1. IsWellFoundedOn(OpToRel(<, Nat), Nat)
  BY NatLessThanWellFounded
<1>2. PICK x \in S : \A y \in S : ~(<<y, x>> \in OpToRel(<, Nat))
  BY <1>1, WFMin
<1>3. \A y \in S : ~(y < x)
  BY <1>2 DEF OpToRel
<1> QED
  BY <1>3

\* A list of buffers: each has a name of its own and a number of words.
Listed(parts) ==
    /\ Len(parts) \in Nat /\ DOMAIN parts = 1..Len(parts)
    /\ \A k \in 1..Len(parts) : parts[k][2] \in Nat
    /\ \A i, j \in 1..Len(parts) : parts[i][1] = parts[j][1] => i = j

Names(parts) == {parts[k][1] : k \in DOMAIN parts}
Total(parts) == Words(parts, Len(parts))

\* The sums of the first m parts, as the recursion computes them.
Sums(parts, m, words) ==
    words = [n \in 0..m |-> IF n = 0 THEN 0 ELSE words[n - 1] + parts[n][2]]

LEMMA SumsExist ==
    ASSUME NEW parts, NEW m \in Nat
    PROVE  \E words : Sums(parts, m, words)
<1> DEFINE Ends(c) == \E words : Sums(parts, c, words)
           apart == {c \in 0..m : ~Ends(c)}
<1>1. apart = {}
  <2> SUFFICES ASSUME apart # {} PROVE FALSE
    OBVIOUS
  <2>1. apart \in SUBSET Nat
    OBVIOUS
  <2>2. PICK c \in apart : \A j \in apart : c <= j
    BY <2>1, Least
  <2>3. c \in 0..m /\ ~Ends(c)
    BY <2>2
  <2>4. CASE c = 0
    <3> DEFINE words == [n \in 0..0 |-> 0]
    <3>1. Sums(parts, 0, words)
      BY DEF Sums
    <3> QED
      BY <2>3, <2>4, <3>1
  <2>5. CASE c # 0
    <3>1. c - 1 \in 0..m /\ ~(c <= c - 1) /\ c \in Nat
      BY <2>3, <2>5
    <3>2. c - 1 \notin apart
      BY <2>2, <3>1
    <3>3. PICK words : Sums(parts, c - 1, words)
      BY <3>1, <3>2
    <3> DEFINE longer == [n \in 0..c |-> IF n = c THEN words[c - 1] + parts[c][2] ELSE words[n]]
    <3>4. ASSUME NEW n \in 0..c
          PROVE  longer[n] = IF n = 0 THEN 0 ELSE longer[n - 1] + parts[n][2]
      <4>1. CASE n = c
        <5>1. c - 1 \in 0..c /\ c - 1 # c
          BY <3>1
        <5>2. longer[c - 1] = words[c - 1] /\ longer[c] = words[c - 1] + parts[c][2]
          BY <3>4, <4>1, <5>1
        <5> QED
          BY <2>5, <4>1, <5>2
      <4>2. CASE n # c
        <5>1. n \in 0..(c - 1)
          BY <3>1, <3>4, <4>2
        <5>2. words[n] = IF n = 0 THEN 0 ELSE words[n - 1] + parts[n][2]
          BY <3>3, <5>1 DEF Sums
        <5>3. longer[n] = words[n]
          BY <3>4, <4>2
        <5>4. n # 0 => longer[n - 1] = words[n - 1]
          BY <3>1, <5>1
        <5> QED
          BY <5>2, <5>3, <5>4
      <4> QED
        BY <4>1, <4>2
    <3>5. longer = [n \in 0..c |-> longer[n]]
      OBVIOUS
    <3> HIDE DEF longer
    <3>6. Sums(parts, c, longer)
      BY <3>4, <3>5 DEF Sums
    <3> QED
      BY <2>3, <3>6
  <2> QED
    BY <2>4, <2>5
<1>2. m \in 0..m
  OBVIOUS
<1> QED
  BY <1>1, <1>2

\* A sum is the one before it and the next part.
LEMMA WordsStep ==
    ASSUME NEW parts, Listed(parts)
    PROVE  /\ Words(parts, 0) = 0
           /\ \A k \in 1..Len(parts) : Words(parts, k) = Words(parts, k - 1) + parts[k][2]
<1> DEFINE words == CHOOSE w : Sums(parts, Len(parts), w)
<1>1. Len(parts) \in Nat
  BY DEF Listed
<1>2. Sums(parts, Len(parts), words)
  BY <1>1, SumsExist
<1>3. \A k : Words(parts, k) = words[k]
  BY Zenon DEF Words, Sums
<1> HIDE DEF words
<1>4. words = [n \in 0..Len(parts) |-> IF n = 0 THEN 0 ELSE words[n - 1] + parts[n][2]]
  BY <1>2 DEF Sums
<1>5. words[0] = 0
  BY <1>1, <1>4
<1>6. ASSUME NEW k \in 1..Len(parts) PROVE words[k] = words[k - 1] + parts[k][2]
  <2>1. k \in 0..Len(parts) /\ k # 0
    BY <1>1
  <2> QED
    BY <1>4, <2>1
<1> QED
  BY <1>3, <1>5, <1>6

LEMMA WordsGrow ==
    ASSUME NEW parts, Listed(parts)
    PROVE  /\ \A k \in 0..Len(parts) : Words(parts, k) \in Nat
           /\ \A i, j \in 0..Len(parts) : i <= j => Words(parts, i) <= Words(parts, j)
<1>1. /\ Len(parts) \in Nat /\ \A k \in 1..Len(parts) : parts[k][2] \in Nat
      /\ Words(parts, 0) = 0
      /\ \A k \in 1..Len(parts) : Words(parts, k) = Words(parts, k - 1) + parts[k][2]
  BY WordsStep DEF Listed
<1>2. \A k \in 0..Len(parts) : Words(parts, k) \in Nat
  <2> DEFINE apart == {k \in 0..Len(parts) : Words(parts, k) \notin Nat}
  <2> SUFFICES ASSUME apart # {} PROVE FALSE
    OBVIOUS
  <2>1. apart \in SUBSET Nat
    BY <1>1
  <2>2. PICK k \in apart : \A j \in apart : k <= j
    BY <2>1, Least
  <2>3. k \in 0..Len(parts) /\ Words(parts, k) \notin Nat
    BY <2>2
  <2>4. k \in 1..Len(parts) /\ k - 1 \in 0..Len(parts) /\ ~(k <= k - 1)
    BY <1>1, <2>3
  <2>5. k - 1 \notin apart
    BY <2>2, <2>4
  <2>6. Words(parts, k - 1) \in Nat /\ parts[k][2] \in Nat
    BY <1>1, <2>4, <2>5
  <2> QED
    BY <1>1, <2>3, <2>4, <2>6
<1>3. ASSUME NEW i \in 0..Len(parts)
      PROVE  \A j \in 0..Len(parts) : i <= j => Words(parts, i) <= Words(parts, j)
  <2> DEFINE apart == {j \in 0..Len(parts) : i <= j /\ ~(Words(parts, i) <= Words(parts, j))}
  <2> SUFFICES ASSUME apart # {} PROVE FALSE
    OBVIOUS
  <2>1. apart \in SUBSET Nat
    BY <1>1
  <2>2. PICK j \in apart : \A k \in apart : j <= k
    BY <2>1, Least
  <2>3. j \in 0..Len(parts) /\ i <= j /\ ~(Words(parts, i) <= Words(parts, j))
    BY <2>2
  <2>4. Words(parts, i) \in Nat /\ Words(parts, j) \in Nat
    BY <1>2, <2>3
  <2>5. i # j
    BY <2>3, <2>4
  <2>6. j \in 1..Len(parts) /\ j - 1 \in 0..Len(parts) /\ ~(j <= j - 1) /\ i <= j - 1
    BY <1>1, <2>3, <2>5
  <2>7. j - 1 \notin apart
    BY <2>2, <2>6
  <2>8. Words(parts, i) <= Words(parts, j - 1)
    BY <2>6, <2>7
  <2>9. Words(parts, j) = Words(parts, j - 1) + parts[j][2] /\ parts[j][2] \in Nat
        /\ Words(parts, j - 1) \in Nat
    BY <1>1, <1>2, <2>6
  <2> QED
    BY <2>3, <2>4, <2>8, <2>9
<1> QED
  BY <1>2, <1>3

\* Where a buffer lies that was cut from a region.
LEMMA CutIs ==
    ASSUME NEW region, NEW parts, Listed(parts), NEW k \in 1..Len(parts)
    PROVE  /\ parts[k][1] \in Names(parts)
           /\ Cut(region, parts)[parts[k][1]]
                = [at |-> region.at + 4 * Words(parts, k - 1), bytes |-> 4 * parts[k][2]]
<1>1. DOMAIN parts = 1..Len(parts)
  BY DEF Listed
<1> DEFINE m == CHOOSE m \in DOMAIN parts : parts[m][1] = parts[k][1]
<1>2. m \in DOMAIN parts /\ parts[m][1] = parts[k][1]
  BY <1>1
<1>3. m = k
  BY <1>1, <1>2 DEF Listed
<1>4. parts[k][1] \in Names(parts)
  BY <1>1 DEF Names
<1>5. Cut(region, parts)[parts[k][1]]
        = [at |-> region.at + 4 * Words(parts, m - 1), bytes |-> 4 * parts[m][2]]
  BY <1>4 DEF Cut, Names
<1> QED
  BY <1>3, <1>4, <1>5

LEMMA CutNames == ASSUME NEW region, NEW parts PROVE DOMAIN Cut(region, parts) = Names(parts)
  BY DEF Cut, Names

\* Two pieces of memory of which one ends before the other begins.
Apart(a, b) == a.at + a.bytes <= b.at \/ b.at + b.bytes <= a.at

Piece(a) == a.at \in Int /\ a.bytes \in Int

LEMMA PartsOfApart ==
    ASSUME NEW a, NEW b, NEW x, NEW y, Piece(a), Piece(b), Piece(x), Piece(y),
           Apart(a, b), Within(x, a), Within(y, b)
    PROVE  ~Overlap(x, y)
BY DEF Piece, Apart, Within, Overlap

\* The buffers of a list lie one behind the other between the ends of the list.
LEMMA CutInside ==
    ASSUME NEW region, region.at \in Nat, NEW parts, Listed(parts), NEW name \in Names(parts)
    PROVE  LET b == Cut(region, parts)[name]
           IN  /\ Piece(b) /\ b.bytes >= 0 /\ b.at >= region.at
               /\ b.at + b.bytes <= region.at + 4 * Total(parts)
<1>1. PICK k \in 1..Len(parts) : parts[k][1] = name
  BY DEF Names, Listed
<1>2. Cut(region, parts)[name]
        = [at |-> region.at + 4 * Words(parts, k - 1), bytes |-> 4 * parts[k][2]]
  BY <1>1, CutIs
<1>3. Len(parts) \in Nat /\ parts[k][2] \in Nat
  BY DEF Listed
<1>4. k - 1 \in 0..Len(parts) /\ k \in 0..Len(parts) /\ Len(parts) \in 0..Len(parts) /\ k <= Len(parts)
  BY <1>3
<1>5. Words(parts, k - 1) \in Nat /\ Words(parts, k) = Words(parts, k - 1) + parts[k][2]
      /\ Words(parts, k) <= Words(parts, Len(parts)) /\ Words(parts, Len(parts)) \in Nat
  BY <1>4, WordsStep, WordsGrow
<1> QED
  BY <1>2, <1>3, <1>5, SMTT(30) DEF Piece, Total

LEMMA CutApart ==
    ASSUME NEW region, region.at \in Nat, NEW parts, Listed(parts),
           NEW x \in Names(parts), NEW y \in Names(parts), x # y
    PROVE  Apart(Cut(region, parts)[x], Cut(region, parts)[y])
<1>1. PICK i \in 1..Len(parts) : parts[i][1] = x
  BY DEF Names, Listed
<1>2. PICK j \in 1..Len(parts) : parts[j][1] = y
  BY DEF Names, Listed
<1>3. /\ Cut(region, parts)[x]
           = [at |-> region.at + 4 * Words(parts, i - 1), bytes |-> 4 * parts[i][2]]
      /\ Cut(region, parts)[y]
           = [at |-> region.at + 4 * Words(parts, j - 1), bytes |-> 4 * parts[j][2]]
  BY <1>1, <1>2, CutIs
<1> DEFINE a == Cut(region, parts)[x]
           b == Cut(region, parts)[y]
           size(k) == parts[k][2]
           upto(k) == Words(parts, k)
           start == region.at
<1>4. Len(parts) \in Nat /\ size(i) \in Nat /\ size(j) \in Nat
  BY DEF Listed
<1>5. /\ i - 1 \in 0..Len(parts) /\ i \in 0..Len(parts)
      /\ j - 1 \in 0..Len(parts) /\ j \in 0..Len(parts)
      /\ i <= j - 1 \/ j <= i - 1
  BY <1>1, <1>2, <1>4
<1>6. /\ upto(i - 1) \in Nat /\ upto(i) = upto(i - 1) + size(i) /\ upto(i) \in Nat
      /\ upto(j - 1) \in Nat /\ upto(j) = upto(j - 1) + size(j) /\ upto(j) \in Nat
      /\ upto(i) <= upto(j - 1) \/ upto(j) <= upto(i - 1)
  BY <1>5, WordsStep, WordsGrow
<1>7. /\ a.at = start + 4 * upto(i - 1) /\ a.bytes = 4 * size(i)
      /\ b.at = start + 4 * upto(j - 1) /\ b.bytes = 4 * size(j)
  BY <1>3
<1>8. start \in Nat
  OBVIOUS
<1> HIDE DEF a, b, size, upto, start
<1>9. \A p, m, q \in Nat : p + m <= q => (start + 4 * p) + 4 * m <= start + 4 * q
  BY ONLY <1>8
<1>10. CASE upto(i) <= upto(j - 1)
  <2>1. (start + 4 * upto(i - 1)) + 4 * size(i) <= start + 4 * upto(j - 1)
    BY <1>4, <1>6, <1>9, <1>10
  <2> QED
    BY <1>7, <2>1 DEF Apart, a, b
<1>11. CASE upto(j) <= upto(i - 1)
  <2>1. (start + 4 * upto(j - 1)) + 4 * size(j) <= start + 4 * upto(i - 1)
    BY <1>4, <1>6, <1>9, <1>11
  <2> QED
    BY <1>7, <2>1 DEF Apart, a, b
<1> QED
  BY <1>6, <1>10, <1>11
-----------------------------------------------------------------------------
(* The program's sizes, and the list of buffers of each component. *)

LEMMA SizeIs ==
    /\ Hidden = 2560 /\ Branches = 4 /\ Width = 10240 /\ Rank = 320
    /\ Vocabulary = 248320 /\ ProviderWords = 250880 /\ WeightScratch = 1048576
    /\ GdnHeads = 48 /\ GdnKey = 128 /\ GdnValues = 6144 /\ GdnConv = 10240
    /\ QsaHeads = 24 /\ QsaQuery = 6144 /\ QsaKv = 512 /\ QsaIndex = 128
    /\ QsaIndexQuery = 512 /\ BlockSize = 4 /\ BlockTopK = 512 /\ SelectedCapacity = 2051
    /\ Experts = 512 /\ TopK = 10 /\ Intermediate = 640
    /\ PleHeads = 16 /\ PleRow = 160 /\ PleEmbedding = 2560 /\ PleHistory = 9
    /\ IntentWords = 16
BY DEF Hidden, Branches, Width, Rank, Vocabulary, ProviderWords, WeightScratch, GdnHeads,
   GdnKey, GdnValues, GdnConv, QsaHeads, QsaQuery, QsaKv, QsaIndex, QsaIndexQuery,
   BlockSize, BlockTopK, SelectedCapacity, Experts, TopK, Intermediate, PleHeads, PleRow,
   PleEmbedding, PleHistory, IntentWords

\* There is room for the keys of every complete block of the context.
LEMMA BlocksType ==
    /\ ContextCapacity \in Nat /\ QsaBlocks \in Nat
    /\ \A p \in Nat : p <= ContextCapacity => p \div BlockSize <= QsaBlocks
<1>1. ContextCapacity \in Nat /\ BlockSize = 4
  BY ScratchAssumption, SizeIs
<1> QED
  BY <1>1 DEF QsaBlocks

\* The executor's own buffers.
LEMMA ExecListed ==
    ASSUME NEW n \in Nat
    PROVE  Listed(ExecParts(n)) /\ Len(ExecParts(n)) = 13
<1> DEFINE p == ExecParts(n)
<1>1. Len(p) = 13 /\ DOMAIN p = 1..13
  BY DEF ExecParts
<1>2. \A i, j \in 1..13 : p[i][1] = p[j][1] => i = j
  BY DEF ExecParts
<1> DEFINE sizes == {n * Width, Hidden, Width, Rank, Vocabulary, ProviderWords}
<1>3. sizes \subseteq Nat
  BY SizeIs
<1>4. \A i \in 1..13 : p[i][2] \in sizes
  BY DEF ExecParts
<1> HIDE DEF p, sizes
<1>5. \A i \in 1..13 : p[i][2] \in Nat
  BY <1>3, <1>4
<1>6. Listed(p) /\ Len(p) = 13
  BY <1>1, <1>2, <1>5 DEF Listed
<1> QED
  BY <1>6 DEF p

LEMMA ExecNames ==
    ASSUME NEW n \in Nat
    PROVE  Names(ExecParts(n))
           = {"branches_a", "branches_b", "embedding", "norm_delta", "normalized", "low",
              "low_scaled", "gate_logits", "gate", "gated", "hidden", "logits",
              "provider_scratch"}
BY DEF Names, ExecParts

LEMMA ExecTotal ==
    ASSUME NEW n \in Nat
    PROVE  Total(ExecParts(n)) = 2 * (n * Width) + 2 * Hidden + 5 * Width + 2 * Rank + Vocabulary + ProviderWords
<1> DEFINE p == ExecParts(n)
<1>1. Words(p, 0) = 0 /\ \A k \in 1..13 : Words(p, k) = Words(p, k - 1) + p[k][2]
  BY ExecListed, WordsStep
<1>2. p[1][2] = n * Width /\ p[2][2] = n * Width /\ p[3][2] = Hidden /\ p[4][2] = Width /\
      p[5][2] = Width /\ p[6][2] = Rank /\ p[7][2] = Rank /\ p[8][2] = Width /\
      p[9][2] = Width /\ p[10][2] = Width /\ p[11][2] = Hidden /\
      p[12][2] = Vocabulary /\ p[13][2] = ProviderWords
  BY DEF ExecParts
<1>3. Len(p) = 13
  BY ExecListed
<1> HIDE DEF p
<1>4. Words(p, 13) = 2 * (n * Width) + 2 * Hidden + 5 * Width + 2 * Rank + Vocabulary + ProviderWords
  BY <1>1, <1>2, SizeIs
<1> QED
  BY <1>3, <1>4 DEF Total, p

\* The buffers of each operator.
LEMMA GdnListed ==
    Listed(GdnParts) /\ Len(GdnParts) = 18
<1> DEFINE p == GdnParts
<1>1. Len(p) = 18 /\ DOMAIN p = 1..18
  BY DEF GdnParts
<1>2. \A i, j \in 1..18 : p[i][1] = p[j][1] => i = j
  BY DEF GdnParts
<1> DEFINE sizes == {GdnConv * 4, GdnHeads * GdnKey * GdnKey, Hidden, GdnConv, GdnValues, GdnHeads,
                     GdnHeads * GdnKey}
<1>3. sizes \subseteq Nat
  BY SizeIs
<1>4. \A i \in 1..18 : p[i][2] \in sizes
  BY DEF GdnParts
<1> HIDE DEF p, sizes
<1>5. \A i \in 1..18 : p[i][2] \in Nat
  BY <1>3, <1>4
<1>6. Listed(p) /\ Len(p) = 18
  BY <1>1, <1>2, <1>5 DEF Listed
<1> QED
  BY <1>6 DEF p

LEMMA GdnNames ==
    Names(GdnParts)
      = {"conv_state", "recurrent_state", "masked_input", "projected_qkv", "projected_gate",
              "projected_beta", "projected_alpha", "conv_output", "query", "key",
              "value", "beta", "log_decay", "read", "delta", "core_output",
              "gated_output", "operator_output"}
BY DEF Names, GdnParts

LEMMA GdnTotal ==
    GdnBytes = 4 * Total(GdnParts)
<1> DEFINE p == GdnParts
<1>1. Words(p, 0) = 0 /\ \A k \in 1..18 : Words(p, k) = Words(p, k - 1) + p[k][2]
  BY GdnListed, WordsStep
<1>2. p[1][2] = GdnConv * 4 /\ p[2][2] = GdnHeads * GdnKey * GdnKey /\ p[3][2] = Hidden /\
      p[4][2] = GdnConv /\ p[5][2] = GdnValues /\ p[6][2] = GdnHeads /\
      p[7][2] = GdnHeads /\ p[8][2] = GdnConv /\ p[9][2] = GdnHeads * GdnKey /\
      p[10][2] = GdnHeads * GdnKey /\ p[11][2] = GdnValues /\ p[12][2] = GdnHeads /\
      p[13][2] = GdnHeads /\ p[14][2] = GdnValues /\ p[15][2] = GdnValues /\
      p[16][2] = GdnValues /\ p[17][2] = GdnValues /\ p[18][2] = Hidden
  BY DEF GdnParts
<1>3. Len(p) = 18
  BY GdnListed
<1> HIDE DEF p
<1>4. GdnBytes = 4 * Words(p, 18)
  BY <1>1, <1>2, SizeIs DEF GdnBytes
<1> QED
  BY <1>3, <1>4 DEF Total, p

LEMMA QsaListed ==
    ASSUME NEW n \in Nat
    PROVE  Listed(QsaParts(n)) /\ Len(QsaParts(n)) = 20
<1> DEFINE p == QsaParts(n)
<1>1. Len(p) = 20 /\ DOMAIN p = 1..20
  BY DEF QsaParts
<1>2. \A i, j \in 1..20 : p[i][1] = p[j][1] => i = j
  BY DEF QsaParts
<1> DEFINE sizes == {n * QsaKv, n * QsaIndex, n * Hidden, 2 * QsaQuery, QsaQuery, QsaKv, QsaIndexQuery,
                     QsaIndex, QsaBlocks * QsaIndex, QsaBlocks, BlockTopK,
                     SelectedCapacity, QsaHeads * SelectedCapacity, Hidden}
<1>3. sizes \subseteq Nat
  BY SizeIs, BlocksType
<1>4. \A i \in 1..20 : p[i][2] \in sizes
  BY DEF QsaParts
<1> HIDE DEF p, sizes
<1>5. \A i \in 1..20 : p[i][2] \in Nat
  BY <1>3, <1>4
<1>6. Listed(p) /\ Len(p) = 20
  BY <1>1, <1>2, <1>5 DEF Listed
<1> QED
  BY <1>6 DEF p

LEMMA QsaNames ==
    ASSUME NEW n \in Nat
    PROVE  Names(QsaParts(n))
           = {"pending_key", "pending_value", "pending_raw", "staged_output", "projected_query_gate",
              "query", "key", "value", "index_query", "raw_index_key", "block_keys",
              "candidate_scores", "candidate_ids", "selected_block_ids",
              "selected_tokens", "attention_logits", "attention_probabilities",
              "head_context", "gated_context", "operator_output"}
BY DEF Names, QsaParts

LEMMA QsaTotal ==
    ASSUME NEW n \in Nat
    PROVE  QsaBytes(n) = 4 * Total(QsaParts(n))
<1> DEFINE p == QsaParts(n)
<1>1. Words(p, 0) = 0 /\ \A k \in 1..20 : Words(p, k) = Words(p, k - 1) + p[k][2]
  BY QsaListed, WordsStep
<1>2. p[1][2] = n * QsaKv /\ p[2][2] = n * QsaKv /\ p[3][2] = n * QsaIndex /\
      p[4][2] = n * Hidden /\ p[5][2] = 2 * QsaQuery /\ p[6][2] = QsaQuery /\
      p[7][2] = QsaKv /\ p[8][2] = QsaKv /\ p[9][2] = QsaIndexQuery /\
      p[10][2] = QsaIndex /\ p[11][2] = QsaBlocks * QsaIndex /\ p[12][2] = QsaBlocks /\
      p[13][2] = QsaBlocks /\ p[14][2] = BlockTopK /\ p[15][2] = SelectedCapacity /\
      p[16][2] = QsaHeads * SelectedCapacity /\
      p[17][2] = QsaHeads * SelectedCapacity /\ p[18][2] = QsaQuery /\
      p[19][2] = QsaQuery /\ p[20][2] = Hidden
  BY DEF QsaParts
<1>3. Len(p) = 20
  BY QsaListed
<1> HIDE DEF p
<1>4. Words(p, 20) = ((3712 * n) + (130 * QsaBlocks)) + 135955
  <2>1. /\ p[1][2] = n * 512 /\ p[2][2] = n * 512 /\ p[3][2] = n * 128 /\ p[4][2] = n * 2560
        /\ p[5][2] = 12288 /\ p[6][2] = 6144 /\ p[7][2] = 512 /\ p[8][2] = 512
        /\ p[9][2] = 512 /\ p[10][2] = 128 /\ p[11][2] = QsaBlocks * 128
        /\ p[12][2] = QsaBlocks /\ p[13][2] = QsaBlocks /\ p[14][2] = 512
        /\ p[15][2] = 2051 /\ p[16][2] = 49224 /\ p[17][2] = 49224
        /\ p[18][2] = 6144 /\ p[19][2] = 6144 /\ p[20][2] = 2560
    BY <1>2, SizeIs
  <2> QED
    BY ONLY <1>1, <2>1, BlocksType, n \in Nat
<1>5. QsaBytes(n) = 4 * (((3712 * n) + (130 * QsaBlocks)) + 135955)
  <2>1. /\ n * (2 * QsaKv + QsaIndex) = 1152 * n /\ n * Hidden = 2560 * n
        /\ QsaBlocks * QsaIndex = 128 * QsaBlocks /\ (2 * QsaHeads) * SelectedCapacity = 98448
    BY SizeIs, BlocksType
  <2> QED
    BY ONLY <2>1, SizeIs, BlocksType, n \in Nat DEF QsaBytes
<1> QED
  BY <1>3, <1>4, <1>5 DEF Total, p

LEMMA MoeListed ==
    Listed(MoeParts) /\ Len(MoeParts) = 15
<1> DEFINE p == MoeParts
<1>1. Len(p) = 15 /\ DOMAIN p = 1..15
  BY DEF MoeParts
<1>2. \A i, j \in 1..15 : p[i][1] = p[j][1] => i = j
  BY DEF MoeParts
<1> DEFINE sizes == {Experts, TopK, Intermediate, Hidden}
<1>3. sizes \subseteq Nat
  BY SizeIs
<1>4. \A i \in 1..15 : p[i][2] \in sizes
  BY DEF MoeParts
<1> HIDE DEF p, sizes
<1>5. \A i \in 1..15 : p[i][2] \in Nat
  BY <1>3, <1>4
<1>6. Listed(p) /\ Len(p) = 15
  BY <1>1, <1>2, <1>5 DEF Listed
<1> QED
  BY <1>6 DEF p

LEMMA MoeNames ==
    Names(MoeParts)
      = {"router_logits", "router_probabilities", "selected_ids", "selected_weights",
              "expert_gate", "expert_up", "expert_activated", "expert_output",
              "weighted_output", "routed_sum", "shared_gate", "shared_up",
              "shared_activated", "shared_output", "gated_shared"}
BY DEF Names, MoeParts

LEMMA MoeTotal ==
    MoeBytes = 4 * Total(MoeParts)
<1> DEFINE p == MoeParts
<1>1. Words(p, 0) = 0 /\ \A k \in 1..15 : Words(p, k) = Words(p, k - 1) + p[k][2]
  BY MoeListed, WordsStep
<1>2. p[1][2] = Experts /\ p[2][2] = Experts /\ p[3][2] = TopK /\ p[4][2] = TopK /\
      p[5][2] = Intermediate /\ p[6][2] = Intermediate /\ p[7][2] = Intermediate /\
      p[8][2] = Hidden /\ p[9][2] = Hidden /\ p[10][2] = Hidden /\
      p[11][2] = Intermediate /\ p[12][2] = Intermediate /\ p[13][2] = Intermediate /\
      p[14][2] = Hidden /\ p[15][2] = Hidden
  BY DEF MoeParts
<1>3. Len(p) = 15
  BY MoeListed
<1> HIDE DEF p
<1>4. MoeBytes = 4 * Words(p, 15)
  BY <1>1, <1>2, SizeIs DEF MoeBytes
<1> QED
  BY <1>3, <1>4 DEF Total, p

LEMMA PleListed ==
    Listed(PleParts) /\ Len(PleParts) = 11
<1> DEFINE p == PleParts
<1>1. Len(p) = 11 /\ DOMAIN p = 1..11
  BY DEF PleParts
<1>2. \A i, j \in 1..11 : p[i][1] = p[j][1] => i = j
  BY DEF PleParts
<1> DEFINE sizes == {Width * PleHistory, PleEmbedding, PleRow, Hidden, Width}
<1>3. sizes \subseteq Nat
  BY SizeIs
<1>4. \A i \in 1..11 : p[i][2] \in sizes
  BY DEF PleParts
<1> HIDE DEF p, sizes
<1>5. \A i \in 1..11 : p[i][2] \in Nat
  BY <1>3, <1>4
<1>6. Listed(p) /\ Len(p) = 11
  BY <1>1, <1>2, <1>5 DEF Listed
<1> QED
  BY <1>6 DEF p

LEMMA PleNames ==
    Names(PleParts)
      = {"staged", "embedding", "row", "value", "key", "key_norm", "query_norm", "gated",
              "conv_norm", "conv_pre", "conv_out"}
BY DEF Names, PleParts

LEMMA PleTotal ==
    PleBytes = 4 * Total(PleParts)
<1> DEFINE p == PleParts
<1>1. Words(p, 0) = 0 /\ \A k \in 1..11 : Words(p, k) = Words(p, k - 1) + p[k][2]
  BY PleListed, WordsStep
<1>2. p[1][2] = Width * PleHistory /\ p[2][2] = PleEmbedding /\ p[3][2] = PleRow /\
      p[4][2] = Hidden /\ p[5][2] = Width /\ p[6][2] = Width /\ p[7][2] = Width /\
      p[8][2] = Width /\ p[9][2] = Width /\ p[10][2] = Width /\ p[11][2] = Width
  BY DEF PleParts
<1>3. Len(p) = 11
  BY PleListed
<1> HIDE DEF p
<1>4. PleBytes = 4 * Words(p, 11)
  BY <1>1, <1>2, SizeIs DEF PleBytes
<1> QED
  BY <1>3, <1>4 DEF Total, p

\* The layer's own buffers: a PLE layer has one more.
LEMMA LayerPartsAre ==
    ASSUME NEW n \in Nat, NEW kind
    PROVE  LET p == LayerParts(kind, n)
           IN  /\ Len(p) = (IF kind = "ple" THEN 13 ELSE 12) /\ DOMAIN p = 1..Len(p)
               /\ p[1] = <<"ple_output", n * Width>> /\ p[2] = <<"current", n * Width>>
               /\ p[3] = <<"mixed", n * Hidden>> /\ p[4] = <<"block_output", n * Hidden>>
               /\ p[5] = <<"after_mixer", n * Width>> /\ p[6] = <<"moe_input", n * Hidden>>
               /\ p[7] = <<"moe_output", n * Hidden>> /\ p[8] = <<"normalized", Width>>
               /\ p[9] = <<"read_gate", Width>> /\ p[10] = <<"rank", Rank>>
               /\ p[11] = <<"attention_write_gates", n * Branches>>
               /\ p[12] = <<"moe_write_gates", n * Branches>>
               /\ kind = "ple" => p[13] = <<"intents", n * PleHeads * IntentWords>>
BY DEF LayerParts

LayerNames == {"ple_output", "current", "mixed", "block_output", "after_mixer", "moe_input",
               "moe_output", "normalized", "read_gate", "rank", "attention_write_gates",
               "moe_write_gates"}

LEMMA LayerListed ==
    ASSUME NEW n \in Nat, NEW kind
    PROVE  /\ Listed(LayerParts(kind, n))
           /\ Names(LayerParts(kind, n))
                = LayerNames \cup (IF kind = "ple" THEN {"intents"} ELSE {})
<1> DEFINE p == LayerParts(kind, n)
           m == IF kind = "ple" THEN 13 ELSE 12
<1>1. /\ Len(p) = m /\ DOMAIN p = 1..m /\ m \in Nat
      /\ p[1] = <<"ple_output", n * Width>> /\ p[2] = <<"current", n * Width>>
      /\ p[3] = <<"mixed", n * Hidden>> /\ p[4] = <<"block_output", n * Hidden>>
      /\ p[5] = <<"after_mixer", n * Width>> /\ p[6] = <<"moe_input", n * Hidden>>
      /\ p[7] = <<"moe_output", n * Hidden>> /\ p[8] = <<"normalized", Width>>
      /\ p[9] = <<"read_gate", Width>> /\ p[10] = <<"rank", Rank>>
      /\ p[11] = <<"attention_write_gates", n * Branches>>
      /\ p[12] = <<"moe_write_gates", n * Branches>>
      /\ kind = "ple" => p[13] = <<"intents", n * PleHeads * IntentWords>>
  BY LayerPartsAre
<1> HIDE DEF p
<1>2. \A k \in 1..m : k \in 1..12 \/ (k = 13 /\ kind = "ple")
  OBVIOUS
<1>3. /\ n * Width \in Nat /\ n * Hidden \in Nat /\ Width \in Nat /\ Rank \in Nat
      /\ n * Branches \in Nat /\ n * PleHeads * IntentWords \in Nat
  BY SizeIs
<1>4. \A k \in 1..12 : p[k][2] \in Nat
  <2> DEFINE sizes == {n * Width, n * Hidden, Width, Rank, n * Branches}
  <2>1. \A k \in 1..12 : p[k][2] \in sizes
    BY <1>1
  <2> QED
    BY <1>3, <2>1
<1>5. \A k \in 1..m : p[k][2] \in Nat
  <2>1. kind = "ple" => p[13][2] \in Nat
    BY <1>1, <1>3
  <2> HIDE DEF m
  <2> QED
    BY ONLY <1>2, <1>4, <2>1
<1>6. \A i, j \in 1..12 : p[i][1] = p[j][1] => i = j
  BY <1>1
<1>7. \A i \in 1..12 : p[i][1] \in LayerNames
  BY <1>1 DEF LayerNames
<1>8. kind = "ple" => p[13][1] = "intents" /\ "intents" \notin LayerNames
  BY <1>1 DEF LayerNames
<1>9. \A i, j \in 1..m : p[i][1] = p[j][1] => i = j
  BY <1>2, <1>6, <1>7, <1>8
<1>10. Listed(p)
  BY <1>1, <1>5, <1>9 DEF Listed
<1>11. {p[k][1] : k \in 1..12} = LayerNames
  BY <1>1 DEF LayerNames
<1>12. 1..m = 1..12 \cup (IF kind = "ple" THEN {13} ELSE {})
  OBVIOUS
<1>13. Names(p) = {p[k][1] : k \in 1..12} \cup {p[k][1] : k \in (IF kind = "ple" THEN {13} ELSE {})}
  <2>1. DOMAIN p = 1..12 \cup (IF kind = "ple" THEN {13} ELSE {})
    BY <1>1, <1>12
  <2> HIDE DEF m
  <2> QED
    BY <2>1 DEF Names
<1> QED
  BY <1>8, <1>10, <1>11, <1>13 DEF p

LEMMA LayerTotal ==
    ASSUME NEW n \in Nat, NEW kind
    PROVE  4 * Total(LayerParts(kind, n))
             = 4 * (n * (3 * Width + 4 * Hidden + 2 * Branches) + 2 * Width + Rank)
                 + (IF kind = "ple" THEN n * PleHeads * (4 * IntentWords) ELSE 0)
<1> DEFINE p == LayerParts(kind, n)
           m == IF kind = "ple" THEN 13 ELSE 12
<1>1. Words(p, 0) = 0 /\ \A k \in 1..m : Words(p, k) = Words(p, k - 1) + p[k][2]
  BY LayerPartsAre, LayerListed, WordsStep
<1>2. /\ Len(p) = m
      /\ p[1][2] = n * 10240 /\ p[2][2] = n * 10240 /\ p[3][2] = n * 2560
      /\ p[4][2] = n * 2560 /\ p[5][2] = n * 10240 /\ p[6][2] = n * 2560
      /\ p[7][2] = n * 2560 /\ p[8][2] = 10240 /\ p[9][2] = 10240 /\ p[10][2] = 320
      /\ p[11][2] = n * 4 /\ p[12][2] = n * 4
      /\ kind = "ple" => p[13][2] = n * 256
  <2>1. /\ Len(p) = m
        /\ p[1][2] = n * Width /\ p[2][2] = n * Width /\ p[3][2] = n * Hidden
        /\ p[4][2] = n * Hidden /\ p[5][2] = n * Width /\ p[6][2] = n * Hidden
        /\ p[7][2] = n * Hidden /\ p[8][2] = Width /\ p[9][2] = Width /\ p[10][2] = Rank
        /\ p[11][2] = n * Branches /\ p[12][2] = n * Branches
        /\ kind = "ple" => p[13][2] = n * PleHeads * IntentWords
    BY DEF LayerParts
  <2>2. n * PleHeads * IntentWords = n * 256
    BY SizeIs
  <2> HIDE DEF p, m
  <2> QED
    BY <2>1, <2>2, SizeIs
<1>3. 4 * (n * (3 * Width + 4 * Hidden + 2 * Branches) + 2 * Width + Rank)
        = (163872 * n) + 83200
  BY SizeIs
<1>4. n * PleHeads * (4 * IntentWords) = 1024 * n
  BY SizeIs
<1> HIDE DEF p
<1>5. Words(p, 12) = (40968 * n) + 20800
  BY <1>1, <1>2
<1>6. kind = "ple" => Words(p, 13) = (41224 * n) + 20800
  <2> SUFFICES ASSUME kind = "ple" PROVE Words(p, 13) = (41224 * n) + 20800
    OBVIOUS
  <2>1. Words(p, 13) = Words(p, 12) + p[13][2]
    BY <1>1
  <2> QED
    BY <1>2, <1>5, <2>1
<1>7. Words(p, m) = (IF kind = "ple" THEN 41224 ELSE 40968) * n + 20800
  BY <1>5, <1>6
<1>8. 4 * Words(p, m) = ((163872 * n) + 83200) + (IF kind = "ple" THEN 1024 * n ELSE 0)
  BY <1>7
<1> QED
  BY <1>2, <1>3, <1>4, <1>8 DEF Total, p
-----------------------------------------------------------------------------
(* What each operator needs, and what a layer and the executor ask for. *)

\* The operator's sum is that of its buffers, and its vectors, the floats to
\* load them and what it insists on for the rest are in what a layer keeps.
Sound(op) ==
    /\ Listed(op.parts) /\ op.bytes \in Nat /\ op.bytes = 4 * Total(op.parts)
    /\ Listed(op.vectors)
    /\ op.temporary \in Nat /\ op.temporary <= 65536 /\ op.spare = 65536
    /\ \A k \in 1..Len(op.vectors) : op.vectors[k][2] <= op.temporary
    /\ 4 * Total(op.vectors) + 4 * op.temporary + op.spare <= WeightScratch

\* A list of four vectors, as three of the operators have.
LEMMA FourVectors ==
    ASSUME NEW a, NEW b, NEW c, NEW d,
           NEW i \in Nat, NEW j \in Nat, NEW k \in Nat, NEW l \in Nat,
           a # b, a # c, a # d, b # c, b # d, c # d
    PROVE  LET v == << <<a, i>>, <<b, j>>, <<c, k>>, <<d, l>> >>
           IN  Listed(v) /\ Total(v) = ((i + j) + k) + l
<1> DEFINE v == << <<a, i>>, <<b, j>>, <<c, k>>, <<d, l>> >>
<1>1. /\ Len(v) = 4 /\ DOMAIN v = 1..4
      /\ v[1] = <<a, i>> /\ v[2] = <<b, j>> /\ v[3] = <<c, k>> /\ v[4] = <<d, l>>
  OBVIOUS
<1> HIDE DEF v
<1>2. 1..4 = {1, 2, 3, 4}
  OBVIOUS
<1>3. \A m \in 1..4 : v[m][2] \in Nat
  BY <1>1, <1>2
<1>4. \A m, o \in 1..4 : v[m][1] = v[o][1] => m = o
  BY <1>1, <1>2
<1>5. Listed(v)
  BY <1>1, <1>3, <1>4 DEF Listed
<1>6. Words(v, 0) = 0 /\ \A m \in 1..4 : Words(v, m) = Words(v, m - 1) + v[m][2]
  BY <1>1, <1>5, WordsStep
<1>7. Words(v, 4) = ((i + j) + k) + l
  BY <1>1, <1>6
<1> QED
  BY <1>1, <1>5, <1>7 DEF Total, v

\* No buffers and no vectors.
LEMMA NoneListed == Listed(<< >>) /\ Total(<< >>) = 0
<1>1. Len(<< >>) = 0 /\ DOMAIN << >> = 1..0 /\ 1..0 = {}
  OBVIOUS
<1>2. Listed(<< >>)
  BY <1>1 DEF Listed
<1>3. Words(<< >>, 0) = 0
  BY <1>2, WordsStep
<1> QED
  BY <1>1, <1>2, <1>3 DEF Total

LEMMA TotalType == ASSUME NEW parts, Listed(parts) PROVE Total(parts) \in Nat
<1>1. Len(parts) \in 0..Len(parts)
  BY DEF Listed
<1> QED
  BY <1>1, WordsGrow DEF Total

LEMMA SoundWhen ==
    ASSUME NEW op,
           Listed(op.parts), op.bytes = 4 * Total(op.parts), Listed(op.vectors),
           op.temporary \in Nat, op.temporary <= 65536, op.spare = 65536,
           \A k \in 1..Len(op.vectors) : op.vectors[k][2] <= op.temporary,
           4 * Total(op.vectors) + 4 * op.temporary + 65536 <= 1048576
    PROVE  Sound(op)
<1>1. op.bytes \in Nat
  BY TotalType
<1> QED
  BY <1>1, SizeIs DEF Sound

LEMMA OperatorsSound ==
    ASSUME NEW n \in Nat
    PROVE  /\ Sound(Gdn(n)) /\ Sound(Qsa(n)) /\ Sound(Moe(n)) /\ Sound(Ple(n))
           /\ Sound(GrRead(n))
<1>1. Sound(Gdn(n))
  <2> DEFINE v == << <<"a_log", 48>>, <<"conv", 40960>>, <<"dt_bias", 48>>, <<"norm", 128>> >>
  <2>1. Listed(v) /\ Total(v) = 41184
    BY FourVectors
  <2>2. Len(v) = 4 /\ \A k \in 1..4 : v[k][2] <= 40960
    OBVIOUS
  <2> HIDE DEF v
  <2>4. /\ Gdn(n).vectors = v /\ Gdn(n).temporary = 40960 /\ Gdn(n).spare = 65536
        /\ Gdn(n).parts = GdnParts /\ Gdn(n).bytes = GdnBytes
    BY DEF Gdn, Operator, v
  <2> DEFINE op == Gdn(n)
  <2> HIDE DEF op
  <2>5. Listed(op.parts) /\ op.bytes = 4 * Total(op.parts)
    BY <2>4, GdnListed, GdnTotal DEF op
  <2>6. op.vectors = v /\ op.temporary = 40960 /\ op.spare = 65536
    BY ONLY <2>4 DEF op
  <2>7. /\ 40960 \in Nat /\ 41184 \in Nat /\ 40960 <= 65536
        /\ 4 * 41184 + 4 * 40960 + 65536 <= 1048576
        /\ \A k \in 1..Len(v) : v[k][2] <= 40960
    BY <2>2
  <2>8. /\ Listed(op.vectors) /\ op.temporary \in Nat /\ op.temporary <= 65536
        /\ \A k \in 1..Len(op.vectors) : op.vectors[k][2] <= op.temporary
        /\ 4 * Total(op.vectors) + 4 * op.temporary + 65536 <= 1048576
    BY ONLY <2>1, <2>6, <2>7
  <2>9. Sound(op)
    BY ONLY <2>5, <2>6, <2>8, SoundWhen
  <2> QED
    BY <2>9 DEF op
<1>2. Sound(Qsa(n))
  <2> DEFINE v == << <<"key_norm", 256>>, <<"query_norm", 256>>, <<"index_key_norm", 128>>,
                     <<"index_query_norm", 128>> >>
  <2>1. Listed(v) /\ Total(v) = 768
    BY FourVectors
  <2>2. Len(v) = 4 /\ \A k \in 1..4 : v[k][2] <= 256
    OBVIOUS
  <2> HIDE DEF v
  <2>4. /\ Qsa(n).vectors = v /\ Qsa(n).temporary = 256 /\ Qsa(n).spare = 65536
        /\ Qsa(n).parts = QsaParts(n) /\ Qsa(n).bytes = QsaBytes(n)
    BY DEF Qsa, Operator, v
  <2> DEFINE op == Qsa(n)
  <2> HIDE DEF op
  <2>5. Listed(op.parts) /\ op.bytes = 4 * Total(op.parts)
    BY <2>4, QsaListed, QsaTotal DEF op
  <2>6. op.vectors = v /\ op.temporary = 256 /\ op.spare = 65536
    BY ONLY <2>4 DEF op
  <2>7. /\ 256 \in Nat /\ 768 \in Nat /\ 256 <= 65536
        /\ 4 * 768 + 4 * 256 + 65536 <= 1048576
        /\ \A k \in 1..Len(v) : v[k][2] <= 256
    BY <2>2
  <2>8. /\ Listed(op.vectors) /\ op.temporary \in Nat /\ op.temporary <= 65536
        /\ \A k \in 1..Len(op.vectors) : op.vectors[k][2] <= op.temporary
        /\ 4 * Total(op.vectors) + 4 * op.temporary + 65536 <= 1048576
    BY ONLY <2>1, <2>6, <2>7
  <2>9. Sound(op)
    BY ONLY <2>5, <2>6, <2>8, SoundWhen
  <2> QED
    BY <2>9 DEF op
<1>3. Sound(Moe(n))
  <2>2. /\ Moe(n).vectors = << >> /\ Moe(n).temporary = 0 /\ Moe(n).spare = 65536
        /\ Moe(n).parts = MoeParts /\ Moe(n).bytes = MoeBytes
    BY DEF Moe, Operator
  <2>3. Len(<< >>) = 0
    OBVIOUS
  <2> DEFINE op == Moe(n)
  <2> HIDE DEF op
  <2>5. Listed(op.parts) /\ op.bytes = 4 * Total(op.parts)
    BY <2>2, MoeListed, MoeTotal DEF op
  <2>6. /\ Listed(op.vectors) /\ Total(op.vectors) = 0 /\ op.temporary = 0
        /\ op.spare = 65536 /\ \A k \in 1..Len(op.vectors) : op.vectors[k][2] <= 0
    BY <2>2, <2>3, NoneListed DEF op
  <2>7. /\ op.temporary \in Nat /\ op.temporary <= 65536
        /\ \A k \in 1..Len(op.vectors) : op.vectors[k][2] <= op.temporary
        /\ 4 * Total(op.vectors) + 4 * op.temporary + 65536 <= 1048576
    BY ONLY <2>6
  <2>8. Sound(op)
    BY ONLY <2>5, <2>6, <2>7, SoundWhen
  <2> QED
    BY <2>8 DEF op
<1>4. Sound(Ple(n))
  <2> DEFINE v == << <<"norm_key", 10240>>, <<"norm_query", 10240>>, <<"norm_conv", 10240>>,
                     <<"convolution", 40960>> >>
  <2>1. Listed(v) /\ Total(v) = 71680
    BY FourVectors
  <2>2. Len(v) = 4 /\ \A k \in 1..4 : v[k][2] <= 40960
    OBVIOUS
  <2> HIDE DEF v
  <2>4. /\ Ple(n).vectors = v /\ Ple(n).temporary = 40960 /\ Ple(n).spare = 65536
        /\ Ple(n).parts = PleParts /\ Ple(n).bytes = PleBytes
    BY DEF Ple, Operator, v
  <2> DEFINE op == Ple(n)
  <2> HIDE DEF op
  <2>5. Listed(op.parts) /\ op.bytes = 4 * Total(op.parts)
    BY <2>4, PleListed, PleTotal DEF op
  <2>6. op.vectors = v /\ op.temporary = 40960 /\ op.spare = 65536
    BY ONLY <2>4 DEF op
  <2>7. /\ 40960 \in Nat /\ 71680 \in Nat /\ 40960 <= 65536
        /\ 4 * 71680 + 4 * 40960 + 65536 <= 1048576
        /\ \A k \in 1..Len(v) : v[k][2] <= 40960
    BY <2>2
  <2>8. /\ Listed(op.vectors) /\ op.temporary \in Nat /\ op.temporary <= 65536
        /\ \A k \in 1..Len(op.vectors) : op.vectors[k][2] <= op.temporary
        /\ 4 * Total(op.vectors) + 4 * op.temporary + 65536 <= 1048576
    BY ONLY <2>1, <2>6, <2>7
  <2>9. Sound(op)
    BY ONLY <2>5, <2>6, <2>8, SoundWhen
  <2> QED
    BY <2>9 DEF op
<1>5. Sound(GrRead(n))
  <2> DEFINE v == << <<"norm_storage", Width>> >>
  <2>1. Len(v) = 1 /\ DOMAIN v = 1..1 /\ v[1] = <<"norm_storage", Width>> /\ Width \in Nat
    BY SizeIs
  <2> HIDE DEF v
  <2>2. Listed(v)
    BY <2>1 DEF Listed
  <2>3. Words(v, 0) = 0 /\ \A k \in 1..1 : Words(v, k) = Words(v, k - 1) + v[k][2]
    BY <2>1, <2>2, WordsStep
  <2>4. Total(v) = Width
    <3>1. Words(v, 1) = Words(v, 0) + Width
      BY <2>1, <2>3
    <3> QED
      BY <2>1, <2>3, <3>1 DEF Total
  <2>5. /\ GrRead(n).vectors = v /\ GrRead(n).temporary = Width
        /\ GrRead(n).spare = 65536 /\ GrRead(n).parts = << >> /\ GrRead(n).bytes = 0
    BY DEF GrRead, Operator, v
  <2> DEFINE op == GrRead(n)
  <2> HIDE DEF op
  <2>6. Listed(op.parts) /\ op.bytes = 4 * Total(op.parts)
    BY <2>5, NoneListed DEF op
  <2>7. /\ Listed(op.vectors) /\ Total(op.vectors) = 10240 /\ op.temporary = 10240
        /\ op.spare = 65536 /\ \A k \in 1..Len(op.vectors) : op.vectors[k][2] <= 10240
    <3>1. op.vectors = v /\ op.temporary = Width /\ op.spare = 65536
      BY ONLY <2>5 DEF op
    <3>2. Len(v) = 1 /\ v[1][2] = 10240 /\ Width = 10240
      BY <2>1, SizeIs
    <3> QED
      BY ONLY <2>2, <2>4, <3>1, <3>2
  <2>8. /\ op.temporary \in Nat /\ op.temporary <= 65536
        /\ \A k \in 1..Len(op.vectors) : op.vectors[k][2] <= op.temporary
        /\ 4 * Total(op.vectors) + 4 * op.temporary + 65536 <= 1048576
    BY ONLY <2>7
  <2>9. Sound(op)
    BY ONLY <2>6, <2>7, <2>8, SoundWhen
  <2> QED
    BY <2>9 DEF op
<1> QED
  BY <1>1, <1>2, <1>3, <1>4, <1>5

\* A maximum is there, and nothing is above it.
LEMMA MaxIs ==
    ASSUME NEW a \in Int, NEW b \in Int, NEW c \in Int, NEW S \in SUBSET {a, b, c}, S # {}
    PROVE  Sets!Max(S) \in S /\ \A x \in S : x <= Sets!Max(S)
<1>1. \E x \in S : \A y \in S : x >= y
  <2>1. CASE a \in S /\ (b \in S => a >= b) /\ (c \in S => a >= c)
    BY <2>1
  <2>2. CASE b \in S /\ (a \in S => b >= a) /\ (c \in S => b >= c)
    BY <2>2
  <2>3. CASE c \in S /\ (a \in S => c >= a) /\ (b \in S => c >= b)
    BY <2>3
  <2>4. a \in S \/ b \in S \/ c \in S
    OBVIOUS
  <2> QED
    BY <2>1, <2>2, <2>3, <2>4
<1>2. Sets!Max(S) \in S /\ \A y \in S : Sets!Max(S) >= y
  BY <1>1 DEF Sets!Max
<1>3. S \subseteq Int
  OBVIOUS
<1> QED
  BY <1>2, <1>3

LEMMA OneListed ==
    ASSUME NEW name, NEW t \in Nat
    PROVE  Listed(<< <<name, t>> >>) /\ Total(<< <<name, t>> >>) = t
<1> DEFINE v == << <<name, t>> >>
<1>1. Len(v) = 1 /\ DOMAIN v = 1..1 /\ v[1] = <<name, t>>
  OBVIOUS
<1> HIDE DEF v
<1>2. Listed(v)
  BY <1>1 DEF Listed
<1>3. Words(v, 0) = 0 /\ \A k \in 1..1 : Words(v, k) = Words(v, k - 1) + v[k][2]
  BY <1>1, <1>2, WordsStep
<1>4. Words(v, 1) = Words(v, 0) + t
  BY <1>1, <1>3
<1> QED
  BY <1>1, <1>2, <1>3, <1>4 DEF Total, v

Kinds == {"gdn", "ple", "qsa"}

\* A layer asks for its own buffers and for the largest of its operators.
LEMMA BaseIs ==
    ASSUME NEW n \in Nat, NEW kind \in Kinds
    PROVE  \E peak \in Nat :
             /\ BaseRequired(kind, n) = 4 * Total(LayerParts(kind, n)) + peak
             /\ MoeBytes <= peak
             /\ kind = "ple" => PleBytes <= peak
             /\ kind = "qsa" => QsaBytes(n) <= peak
             /\ kind # "qsa" => GdnBytes <= peak
<1> DEFINE operators == CASE kind = "gdn" -> {GdnBytes, MoeBytes}
                          [] kind = "ple" -> {PleBytes, GdnBytes, MoeBytes}
                          [] kind = "qsa" -> {QsaBytes(n), MoeBytes}
           peak == Sets!Max(operators)
<1>1. /\ GdnBytes \in Nat /\ MoeBytes \in Nat /\ PleBytes \in Nat /\ QsaBytes(n) \in Nat
  <2>1. /\ Total(GdnParts) \in Nat /\ Total(MoeParts) \in Nat /\ Total(PleParts) \in Nat
        /\ Total(QsaParts(n)) \in Nat
    BY TotalType, GdnListed, MoeListed, PleListed, QsaListed
  <2> QED
    BY <2>1, GdnTotal, MoeTotal, PleTotal, QsaTotal
<1>2. \A S \in {{GdnBytes, MoeBytes}, {PleBytes, GdnBytes, MoeBytes}, {QsaBytes(n), MoeBytes}} :
        Sets!Max(S) \in S /\ \A x \in S : x <= Sets!Max(S)
  <2> DEFINE a == GdnBytes
             b == MoeBytes
             c == PleBytes
             d == QsaBytes(n)
             most(S) == Sets!Max(S) \in S /\ \A x \in S : x <= Sets!Max(S)
  <2>1. a \in Int /\ b \in Int /\ c \in Int /\ d \in Int
    BY <1>1
  <2> HIDE DEF a, b, c, d
  <2>2. /\ {a, b} \in SUBSET {a, b, b} /\ {c, a, b} \in SUBSET {c, a, b}
        /\ {d, b} \in SUBSET {d, b, b}
        /\ {a, b} # {} /\ {c, a, b} # {} /\ {d, b} # {}
    OBVIOUS
  <2>3. most({a, b}) /\ most({c, a, b}) /\ most({d, b})
    BY <2>1, <2>2, MaxIs
  <2> HIDE DEF most
  <2>4. \A S \in {{a, b}, {c, a, b}, {d, b}} : most(S)
    BY <2>3
  <2> QED
    BY <2>4 DEF most, a, b, c, d
<1>3. operators \in {{GdnBytes, MoeBytes}, {PleBytes, GdnBytes, MoeBytes}, {QsaBytes(n), MoeBytes}}
  BY DEF Kinds
<1>4. /\ MoeBytes \in operators
      /\ kind = "ple" => PleBytes \in operators
      /\ kind = "qsa" => QsaBytes(n) \in operators
      /\ kind # "qsa" => GdnBytes \in operators
  BY DEF Kinds
<1>5. BaseRequired(kind, n)
        = 4 * (n * (3 * Width + 4 * Hidden + 2 * Branches) + 2 * Width + Rank)
            + (IF kind = "ple" THEN n * PleHeads * (4 * IntentWords) ELSE 0) + peak
  BY DEF BaseRequired
<1> HIDE DEF operators
<1>6. peak \in operators /\ \A x \in operators : x <= peak
  BY <1>2, <1>3
<1>7. operators \subseteq Nat
  BY <1>1, <1>3
<1>8. BaseRequired(kind, n) = 4 * Total(LayerParts(kind, n)) + peak
  BY <1>5, LayerTotal
<1> QED
  BY <1>4, <1>6, <1>7, <1>8

\* The executor keeps enough for the layer that asks for most.
LEMMA LayerMaxIs ==
    ASSUME NEW n \in Nat
    PROVE  /\ LayerMax(n) \in Nat
           /\ \A k \in 1..Len(LayerKinds) : /\ LayerKinds[k] \in Kinds
                                           /\ LayerRequired(LayerKinds[k], n) <= LayerMax(n)
<1>1. LayerKinds \in Seq(Kinds) /\ LayerKinds # << >>
  BY ScratchAssumption DEF Kinds
<1>2. /\ Len(LayerKinds) \in Nat \ {0} /\ DOMAIN LayerKinds = 1..Len(LayerKinds)
      /\ \A k \in 1..Len(LayerKinds) : LayerKinds[k] \in Kinds
  BY <1>1
<1> DEFINE asked == {LayerRequired(LayerKinds[k], n) : k \in DOMAIN LayerKinds}
           a == LayerRequired("gdn", n)
           b == LayerRequired("ple", n)
           c == LayerRequired("qsa", n)
<1>3. \A kind \in Kinds : LayerRequired(kind, n) \in Nat
  <2> SUFFICES ASSUME NEW kind \in Kinds PROVE LayerRequired(kind, n) \in Nat
    OBVIOUS
  <2>1. PICK peak \in Nat : BaseRequired(kind, n) = 4 * Total(LayerParts(kind, n)) + peak
    BY BaseIs
  <2>2. Total(LayerParts(kind, n)) \in Nat
    BY LayerListed, TotalType
  <2> QED
    BY <2>1, <2>2, SizeIs DEF LayerRequired
<1>4. a \in Nat /\ b \in Nat /\ c \in Nat
  BY <1>3 DEF Kinds
<1>5. \A kind \in Kinds : LayerRequired(kind, n) \in {a, b, c}
  BY DEF Kinds
<1>6. asked \in SUBSET {a, b, c} /\ asked # {}
  <2>1. 1 \in DOMAIN LayerKinds
    BY <1>2
  <2>2. LayerRequired(LayerKinds[1], n) \in asked
    BY <2>1
  <2>3. asked \subseteq {a, b, c}
    BY <1>2, <1>5
  <2> QED
    BY <2>2, <2>3
<1>7. LayerMax(n) = Sets!Max(asked) /\ \A k \in 1..Len(LayerKinds) :
                                        LayerRequired(LayerKinds[k], n) \in asked
  BY <1>2 DEF LayerMax
<1> HIDE DEF a, b, c, asked
<1>8. Sets!Max(asked) \in asked /\ \A x \in asked : x <= Sets!Max(asked)
  <2>1. a \in Int /\ b \in Int /\ c \in Int
    BY <1>4
  <2> QED
    BY ONLY <1>6, <2>1, MaxIs
<1> QED
  BY <1>2, <1>4, <1>6, <1>7, <1>8
-----------------------------------------------------------------------------
(* Where the memory of a call lies. *)

\* A call that was given what the executor asked for, and fits the context.
Calling(w) ==
    /\ w.tokens \in Nat \ {0} /\ w.position \in Nat /\ w.bytes \in Nat
    /\ w.position + w.tokens <= ContextCapacity /\ w.bytes >= Required(w.tokens)

\* It is in a layer, and runs the PLE only where there is one.
Layered(w) ==
    /\ InLayer(w) /\ w.layer \in 1..Len(LayerKinds)
    /\ w.stage = "ple" => Kind(w) = "ple"

LEMMA BehindIs ==
    ASSUME NEW region, NEW parts
    PROVE  /\ Behind(region, parts).at = region.at + 4 * Total(parts)
           /\ Behind(region, parts).bytes = region.bytes - 4 * Total(parts)
BY DEF Behind, Total

\* The executor's buffers, and behind them room for the layer that asks for most.
LEMMA CallRoom ==
    ASSUME NEW w, Calling(w)
    PROVE  /\ Base \in Nat /\ Total(ExecParts(w.tokens)) \in Nat
           /\ LayerScratch(w).at = Base + 4 * Total(ExecParts(w.tokens))
           /\ LayerScratch(w).bytes = LayerMax(w.tokens) /\ LayerScratch(w).bytes \in Nat
           /\ Within(LayerScratch(w), Block(w))
<1> DEFINE n == w.tokens
           own == Total(ExecParts(n))
<1>1. n \in Nat /\ Base \in Nat /\ w.bytes \in Nat /\ w.bytes >= Required(n)
  BY ScratchAssumption DEF Calling
<1>2. Listed(ExecParts(n)) /\ own \in Nat
  BY <1>1, ExecListed, TotalType
<1>3. LayerMax(n) \in Nat
  BY <1>1, LayerMaxIs
<1>4. Required(n) = 4 * own + LayerMax(n)
  <2>1. own = 2 * (n * Width) + 2 * Hidden + 5 * Width + 2 * Rank + Vocabulary + ProviderWords
    BY <1>1, ExecTotal
  <2>2. own = (20480 * n) + 556160
    BY <1>1, <2>1, SizeIs
  <2>3. 4 * (2 * n * Width + Hidden + 5 * Width + 2 * Rank + Hidden + Vocabulary)
          + 4 * ProviderWords = 4 * ((20480 * n) + 556160)
    BY <1>1, SizeIs
  <2> HIDE DEF n, own
  <2>4. Required(n) = 4 * (2 * n * Width + Hidden + 5 * Width + 2 * Rank + Hidden + Vocabulary)
                        + 4 * ProviderWords + LayerMax(n)
    BY DEF Required
  <2> QED
    BY <2>2, <2>3, <2>4
<1>5. /\ LayerScratch(w).at = Base + 4 * own /\ LayerScratch(w).bytes = LayerMax(n)
      /\ Block(w).at = Base /\ Block(w).bytes = w.bytes
  BY BehindIs DEF LayerScratch, Block
<1> HIDE DEF n, own
<1>6. Within(LayerScratch(w), Block(w))
  BY <1>1, <1>2, <1>3, <1>4, <1>5 DEF Within
<1> QED
  BY <1>1, <1>2, <1>3, <1>5, <1>6 DEF n, own

\* The operator that runs in a layer is one the layer has asked room for.
LEMMA OperatorIs ==
    ASSUME NEW w, Calling(w), Layered(w)
    PROVE  /\ Kind(w) \in Kinds /\ Sound(OperatorOf(w))
           /\ OperatorOf(w) \in {Gdn(w.tokens), Qsa(w.tokens), Moe(w.tokens), Ple(w.tokens),
                                 GrRead(w.tokens)}
           /\ \E peak \in Nat :
                /\ BaseRequired(Kind(w), w.tokens)
                     = 4 * Total(LayerParts(Kind(w), w.tokens)) + peak
                /\ OperatorOf(w).bytes <= peak
<1> DEFINE n == w.tokens
           op == OperatorOf(w)
<1>1. n \in Nat /\ Kind(w) \in Kinds
  BY LayerMaxIs DEF Calling, Layered, Kind
<1>2. PICK peak \in Nat :
             /\ BaseRequired(Kind(w), n) = 4 * Total(LayerParts(Kind(w), n)) + peak
             /\ MoeBytes <= peak
             /\ Kind(w) = "ple" => PleBytes <= peak
             /\ Kind(w) = "qsa" => QsaBytes(n) <= peak
             /\ Kind(w) # "qsa" => GdnBytes <= peak
  BY <1>1, BaseIs
<1>3. \/ w.stage = "ple" /\ Kind(w) = "ple" /\ op = Ple(n)
      \/ w.stage \in {"attention_read", "moe_read"} /\ op = GrRead(n)
      \/ w.stage = "mixer" /\ Kind(w) = "qsa" /\ op = Qsa(n)
      \/ w.stage = "mixer" /\ Kind(w) # "qsa" /\ op = Gdn(n)
      \/ w.stage = "moe" /\ op = Moe(n)
  BY DEF Layered, InLayer, OperatorOf
<1>4. /\ Gdn(n).bytes = GdnBytes /\ Qsa(n).bytes = QsaBytes(n) /\ Moe(n).bytes = MoeBytes
      /\ Ple(n).bytes = PleBytes /\ GrRead(n).bytes = 0
  BY DEF Gdn, Qsa, Moe, Ple, GrRead, Operator
<1> HIDE DEF op
<1>5. op.bytes <= peak
  BY <1>2, <1>3, <1>4
<1>6. Sound(op) /\ op \in {Gdn(n), Qsa(n), Moe(n), Ple(n), GrRead(n)}
  BY <1>1, <1>3, OperatorsSound
<1> QED
  BY <1>1, <1>2, <1>5, <1>6 DEF op

\* What the layer leaves to the operators holds the largest of them, and what it
\* keeps at the end the vectors of each, the floats to load them and the rest it
\* insists on.
LEMMA LayerRoom ==
    ASSUME NEW w, Calling(w), Layered(w)
    PROVE  LET op   == OperatorOf(w)
               sub  == SubScratch(w)
               room == LinearScratch(w)
           IN  /\ LayerScratch(w).at \in Nat
               /\ sub.at = LayerScratch(w).at + 4 * Total(LayerParts(Kind(w), w.tokens))
               /\ sub.at \in Nat /\ sub.bytes \in Nat /\ op.bytes <= sub.bytes
               /\ Weights(w).at = sub.at + sub.bytes
               /\ Weights(w).bytes \in Nat /\ Weights(w).bytes >= WeightScratch
               /\ Loading(w).at = Weights(w).at + 4 * Total(op.vectors)
               /\ room.at = Loading(w).at + 4 * op.temporary
               /\ room.bytes \in Nat /\ room.bytes >= op.spare
               /\ room.at + room.bytes = Weights(w).at + Weights(w).bytes
               /\ LayerScratch(w).bytes >= LayerRequired(Kind(w), w.tokens)
<1> DEFINE n == w.tokens
           op == OperatorOf(w)
           kind == Kind(w)
           base == BaseRequired(kind, n)
           own == Total(LayerParts(kind, n))
           most == LayerMax(n)
           start == LayerScratch(w).at
           vectors == Total(op.vectors)
           t == op.temporary
<1>1. n \in Nat /\ w.layer \in 1..Len(LayerKinds) /\ kind = LayerKinds[w.layer]
  BY DEF Calling, Layered, Kind
<1>2. /\ start \in Nat /\ LayerScratch(w).bytes = most /\ most \in Nat
  BY CallRoom, SizeIs
<1>3. /\ kind \in Kinds /\ Sound(op)
      /\ \E peak \in Nat : base = 4 * own + peak /\ op.bytes <= peak
  BY OperatorIs
<1>4. PICK peak \in Nat : base = 4 * own + peak /\ op.bytes <= peak
  BY <1>3
<1>5. own \in Nat
  BY <1>1, LayerListed, TotalType
<1>6. LayerRequired(kind, n) <= most /\ LayerRequired(kind, n) = base + WeightScratch
  BY <1>1, LayerMaxIs DEF LayerRequired
<1>7. /\ SubScratch(w).at = start + 4 * own /\ SubScratch(w).bytes = base - 4 * own
  BY BehindIs DEF SubScratch
<1>8. /\ Weights(w).at = start + base /\ Weights(w).bytes = LayerScratch(w).bytes - base
  BY DEF Weights
<1>9. vectors \in Nat /\ t \in Nat /\ op.spare = 65536
      /\ 4 * vectors + 4 * t + op.spare <= WeightScratch
  BY <1>3, TotalType DEF Sound
<1>10. /\ Loading(w).at = Weights(w).at + 4 * vectors
       /\ Loading(w).bytes = Weights(w).bytes - 4 * vectors
  BY BehindIs DEF Loading
<1>11. /\ LinearScratch(w).at = Loading(w).at + 4 * t
       /\ LinearScratch(w).bytes = Loading(w).bytes - 4 * t
  <2> HIDE DEF t, vectors, op
  <2>1. Total(<< <<"temporary", t>> >>) = t
    BY ONLY <1>9, OneListed
  <2> QED
    BY <2>1, BehindIs DEF LinearScratch, t, op
<1>12. WeightScratch = 1048576
  BY SizeIs
<1> HIDE DEF n, op, kind, base, own, most, start, vectors, t
<1>13. base \in Nat /\ base + 1048576 <= most
  BY <1>2, <1>4, <1>5, <1>6, <1>12
<1>14. /\ SubScratch(w).at \in Nat /\ SubScratch(w).bytes = peak
       /\ Weights(w).at = SubScratch(w).at + SubScratch(w).bytes
  BY <1>2, <1>4, <1>5, <1>7, <1>8
<1>15. /\ Weights(w).at \in Nat /\ Weights(w).bytes \in Nat
       /\ Weights(w).bytes >= WeightScratch
  BY <1>2, <1>8, <1>12, <1>13
<1>16. /\ LinearScratch(w).bytes \in Nat /\ LinearScratch(w).bytes >= op.spare
       /\ LinearScratch(w).at + LinearScratch(w).bytes = Weights(w).at + Weights(w).bytes
  BY <1>9, <1>10, <1>11, <1>12, <1>15
<1> QED
  BY <1>2, <1>4, <1>6, <1>7, <1>10, <1>11, <1>14, <1>15, <1>16
     DEF n, op, kind, own, start, vectors, t
-----------------------------------------------------------------------------
(* The buffers by name, and a request that is made at them. *)

\* A buffer holds so many words, apart from what a request stages.
Held(w, name, words, room) ==
    LET b == Buffers(w)[name]
    IN  Piece(b) /\ b.bytes = 4 * words /\ words \in Nat /\ Apart(b, room)

Parted(w, x, y) == Apart(Buffers(w)[x], Buffers(w)[y])

\* A request is admitted, and reads and writes within its buffers.
RequestFits(w, request, room) ==
    /\ RequestAdmitted(w, request, room)
    /\ Within(Place(w, request.to, request.rows), Buffers(w)[request.to[1]])
    /\ Within(Place(w, request.from, request.columns), Buffers(w)[request.from[1]])

LEMMA PlaceIn ==
    ASSUME NEW w, NEW name, NEW words, NEW room, Held(w, name, words, room),
           NEW i \in Nat, NEW count \in Nat, i + count <= words
    PROVE  LET place == Place(w, <<name, i>>, count)
           IN  /\ Piece(place) /\ place.bytes = 4 * count
               /\ Within(place, Buffers(w)[name])
<1> DEFINE b == Buffers(w)[name]
           place == Place(w, <<name, i>>, count)
<1>1. b.at \in Int /\ b.bytes = 4 * words /\ words \in Nat
  BY DEF Held, Piece
<1>2. place.at = b.at + 4 * i /\ place.bytes = 4 * count
  BY DEF Place
<1> HIDE DEF b, place
<1> QED
  BY <1>1, <1>2 DEF Piece, Within, b, place

\* A request from one buffer to another.
LEMMA LinearFits ==
    ASSUME NEW w, NEW room, Piece(room), NEW x, NEW xs, NEW y, NEW ys,
           Held(w, x, xs, room), Held(w, y, ys, room), Parted(w, x, y)
    PROVE  \A i, columns, j, rows \in Nat :
             i + columns <= xs /\ j + rows <= ys /\ 4 * (rows + columns) <= room.bytes
               => RequestFits(w, Linear(<<x, i>>, <<y, j>>, rows, columns), room)
<1> SUFFICES ASSUME NEW i \in Nat, NEW columns \in Nat, NEW j \in Nat, NEW rows \in Nat,
                    i + columns <= xs, j + rows <= ys, 4 * (rows + columns) <= room.bytes
             PROVE  RequestFits(w, Linear(<<x, i>>, <<y, j>>, rows, columns), room)
  OBVIOUS
<1> DEFINE request == Linear(<<x, i>>, <<y, j>>, rows, columns)
           input == Place(w, <<x, i>>, columns)
           output == Place(w, <<y, j>>, rows)
           staged == [at |-> room.at, bytes |-> 4 * (rows + columns)]
           a == Buffers(w)[x]
           b == Buffers(w)[y]
<1>1. /\ request.from = <<x, i>> /\ request.to = <<y, j>>
      /\ request.rows = rows /\ request.columns = columns
      /\ request.from[1] = x /\ request.to[1] = y
  BY DEF Linear
<1>2. Piece(input) /\ Within(input, a)
  BY PlaceIn
<1>3. Piece(output) /\ Within(output, b)
  BY PlaceIn
<1>4. Piece(staged) /\ Within(staged, room)
  BY DEF Piece, Within
<1>5. Piece(a) /\ Piece(b) /\ Apart(a, room) /\ Apart(b, room) /\ Apart(a, b)
  BY DEF Held, Parted
<1>6. room.bytes >= staged.bytes
  BY DEF Piece
<1> HIDE DEF input, output, staged, a, b, request
<1>7. ~Overlap(input, output) /\ ~Overlap(input, staged) /\ ~Overlap(output, staged)
  BY <1>2, <1>3, <1>4, <1>5, PartsOfApart
<1>8. RequestAdmitted(w, request, room)
  BY <1>1, <1>6, <1>7 DEF RequestAdmitted, input, output, staged
<1> QED
  BY <1>1, <1>2, <1>3, <1>8 DEF RequestFits, request, input, output, a, b

\* A vector or a row, which has no input.
LEMMA FetchFits ==
    ASSUME NEW w, NEW room, Piece(room), NEW x, NEW xs, Held(w, x, xs, room),
           NEW count \in Nat, count <= xs, 4 * count <= room.bytes
    PROVE  RequestFits(w, Fetch(Start(x), count), room)
<1> DEFINE request == Fetch(Start(x), count)
           input == Place(w, <<x, 0>>, 0)
           output == Place(w, <<x, 0>>, count)
           staged == [at |-> room.at, bytes |-> 4 * (count + 0)]
           a == Buffers(w)[x]
<1>1. /\ request.from = <<x, 0>> /\ request.to = <<x, 0>>
      /\ request.rows = count /\ request.columns = 0
      /\ request.from[1] = x /\ request.to[1] = x
  BY DEF Fetch, Start
<1>2. xs \in Nat
  BY DEF Held
<1>3. Piece(input) /\ Within(input, a) /\ input.bytes = 0
  BY <1>2, PlaceIn
<1>4. Piece(output) /\ Within(output, a)
  BY <1>2, PlaceIn
<1>5. Piece(staged) /\ Within(staged, room)
  BY DEF Piece, Within
<1>6. Piece(a) /\ Apart(a, room)
  BY DEF Held
<1>7. room.bytes >= staged.bytes
  BY DEF Piece
<1> HIDE DEF input, output, staged, a, request
<1>8. ~Overlap(output, staged)
  BY <1>4, <1>5, <1>6, PartsOfApart
<1>9. ~Overlap(input, output) /\ ~Overlap(input, staged)
  BY <1>3 DEF Overlap
<1>10. RequestAdmitted(w, request, room)
  BY <1>1, <1>7, <1>8, <1>9 DEF RequestAdmitted, input, output, staged
<1> QED
  BY <1>1, <1>3, <1>4, <1>10 DEF RequestFits, request, input, output, a

\* A buffer of a list has the size that the list gives it.
LEMMA CutAt ==
    ASSUME NEW region, NEW parts, Listed(parts), NEW k \in 1..Len(parts)
    PROVE  /\ parts[k][1] \in Names(parts) /\ parts[k][2] \in Nat
           /\ Cut(region, parts)[parts[k][1]].bytes = 4 * parts[k][2]
<1>1. parts[k][2] \in Nat
  BY DEF Listed
<1>2. /\ parts[k][1] \in Names(parts)
      /\ Cut(region, parts)[parts[k][1]]
           = [at |-> region.at + 4 * Words(parts, k - 1), bytes |-> 4 * parts[k][2]]
  BY CutIs, ZenonT(60)
<1> QED
  BY <1>1, <1>2

\* In a layer an operator's names hide the layer's, and these all others.
LEMMA BuffersAre ==
    ASSUME NEW w, InLayer(w), NEW name
    PROVE  /\ name \in Names(OperatorOf(w).parts) =>
                Buffers(w)[name] = Cut(SubScratch(w), OperatorOf(w).parts)[name]
           /\ name \in Names(LayerParts(Kind(w), w.tokens)) \ Names(OperatorOf(w).parts) =>
                Buffers(w)[name]
                  = Cut(LayerScratch(w), LayerParts(Kind(w), w.tokens))[name]
           /\ name \in DOMAIN Lent(w) \ (Names(LayerParts(Kind(w), w.tokens))
                                          \cup Names(OperatorOf(w).parts)) =>
                Buffers(w)[name] = Lent(w)[name]
<1> DEFINE p == OperatorBuffers(w)
           q == LayerBuffers(w)
           r == Lent(w)
           s == ExecBuffers(w)
<1>1. Buffers(w) = Over(p, Over(q, Over(r, s)))
  BY DEF Buffers
<1>2. DOMAIN p = Names(OperatorOf(w).parts) /\ DOMAIN q = Names(LayerParts(Kind(w), w.tokens))
  BY CutNames DEF OperatorBuffers, LayerBuffers
<1> HIDE DEF p, q, r, s
<1>3. \A f, g : /\ DOMAIN Over(f, g) = DOMAIN f \cup DOMAIN g
                /\ \A x \in DOMAIN f : Over(f, g)[x] = f[x]
                /\ \A x \in DOMAIN g \ DOMAIN f : Over(f, g)[x] = g[x]
  BY DEF Over
<1> DEFINE v == Over(r, s)
           u == Over(q, v)
<1>4. Buffers(w) = Over(p, u)
  BY <1>1
<1>5. /\ DOMAIN u = DOMAIN q \cup DOMAIN v
      /\ \A x \in DOMAIN q : u[x] = q[x]
      /\ \A x \in DOMAIN v \ DOMAIN q : u[x] = v[x]
  <2> HIDE DEF v
  <2>1. DOMAIN u = DOMAIN q \cup DOMAIN v
    BY <1>3
  <2>2. \A x \in DOMAIN q : u[x] = q[x]
    BY <1>3
  <2>3. \A x \in DOMAIN v \ DOMAIN q : u[x] = v[x]
    BY <1>3
  <2> QED
    BY <2>1, <2>2, <2>3
<1>6. /\ DOMAIN v = DOMAIN r \cup DOMAIN s
       /\ \A x \in DOMAIN r : v[x] = r[x]
  BY <1>3
<1> HIDE DEF u, v
<1>7. \A x \in DOMAIN u \ DOMAIN p : Buffers(w)[x] = u[x]
  BY <1>3, <1>4
<1>8. name \in DOMAIN p => Buffers(w)[name] = p[name]
  BY <1>1, <1>3
<1>9. name \in DOMAIN q \ DOMAIN p => Buffers(w)[name] = q[name]
  BY <1>7, <1>5
<1>10. name \in DOMAIN r \ (DOMAIN q \cup DOMAIN p) => Buffers(w)[name] = r[name]
  BY <1>7, <1>5, <1>6
<1> QED
  BY <1>2, <1>8, <1>9, <1>10 DEF p, q, r, OperatorBuffers, LayerBuffers
-----------------------------------------------------------------------------
(* Who lies where in a layer: the executor's buffers, the layer's, those of  *)
(* the operator, its vectors, and the room that requests are staged in.      *)

OperatorNames(w) == Names(OperatorOf(w).parts)
OwnNames(w) == Names(LayerParts(Kind(w), w.tokens))

LEMMA Zones ==
    ASSUME NEW w, Calling(w), Layered(w)
    PROVE  /\ Base \in Nat /\ Base >= 104857600
           /\ LayerScratch(w).at \in Nat /\ Base <= LayerScratch(w).at
           /\ SubScratch(w).at \in Nat /\ LayerScratch(w).at <= SubScratch(w).at
           /\ SubScratch(w).bytes \in Nat
           /\ Weights(w).at = SubScratch(w).at + SubScratch(w).bytes
           /\ Weights(w).at \in Nat
           /\ Loading(w).at \in Nat /\ Weights(w).at <= Loading(w).at
           /\ LinearScratch(w).at \in Nat /\ Loading(w).at <= LinearScratch(w).at
           /\ LinearScratch(w).bytes \in Nat /\ LinearScratch(w).bytes >= 65536
           /\ Piece(LinearScratch(w))
<1> DEFINE op == OperatorOf(w)
           own == Total(LayerParts(Kind(w), w.tokens))
           vectors == Total(op.vectors)
           mine == Total(ExecParts(w.tokens))
           t == op.temporary
<1>1. Base \in Nat /\ Base >= 104857600
  BY ScratchAssumption, SizeIs
<1>2. mine \in Nat /\ LayerScratch(w).at = Base + 4 * mine
  BY CallRoom
<1>3. own \in Nat
  <2>1. w.tokens \in Nat
    BY DEF Calling
  <2> QED
    BY <2>1, LayerListed, TotalType
<1>4. Sound(op)
  BY OperatorIs
<1>5. vectors \in Nat /\ t \in Nat /\ op.spare = 65536
  BY <1>4, TotalType DEF Sound
<1>6. /\ SubScratch(w).at = LayerScratch(w).at + 4 * own
      /\ SubScratch(w).bytes \in Nat
      /\ Weights(w).at = SubScratch(w).at + SubScratch(w).bytes
      /\ Loading(w).at = Weights(w).at + 4 * vectors
      /\ LinearScratch(w).at = Loading(w).at + 4 * t
      /\ LinearScratch(w).bytes \in Nat /\ LinearScratch(w).bytes >= op.spare
  BY LayerRoom
<1> HIDE DEF op, own, vectors, mine, t
<1>7. LayerScratch(w).at \in Nat /\ Base <= LayerScratch(w).at
  BY <1>1, <1>2
<1>8. SubScratch(w).at \in Nat /\ LayerScratch(w).at <= SubScratch(w).at
  BY <1>3, <1>6, <1>7
<1>9. Weights(w).at \in Nat
  BY <1>6, <1>8
<1>10. Loading(w).at \in Nat /\ Weights(w).at <= Loading(w).at
  BY <1>5, <1>6, <1>9
<1>11. LinearScratch(w).at \in Nat /\ Loading(w).at <= LinearScratch(w).at
  BY <1>5, <1>6, <1>10
<1>12. LinearScratch(w).bytes >= 65536
  BY <1>5, <1>6
<1>13. Piece(LinearScratch(w))
  BY <1>6, <1>11 DEF Piece
<1> QED
  BY <1>1, <1>6, <1>7, <1>8, <1>9, <1>10, <1>11, <1>12, <1>13

\* An operator's buffers are in what the layer has left to it.
LEMMA OperatorWithin ==
    ASSUME NEW w, Calling(w), Layered(w), NEW name \in OperatorNames(w)
    PROVE  LET b == Buffers(w)[name]
           IN  /\ b = Cut(SubScratch(w), OperatorOf(w).parts)[name]
               /\ Piece(b) /\ b.bytes >= 0
               /\ b.at >= SubScratch(w).at /\ b.at + b.bytes <= Weights(w).at
               /\ Within(b, SubScratch(w))
<1> DEFINE op == OperatorOf(w)
           c == Cut(SubScratch(w), op.parts)[name]
           sub == SubScratch(w)
           total == Total(op.parts)
<1>1. InLayer(w)
  BY DEF Layered
<1>2. Buffers(w)[name] = c
  BY <1>1, BuffersAre DEF OperatorNames
<1>3. Sound(op)
  BY OperatorIs
<1>4. Listed(op.parts) /\ op.bytes = 4 * total /\ total \in Nat
  BY <1>3, TotalType DEF Sound
<1>5. sub.at \in Nat /\ sub.bytes \in Nat /\ Weights(w).at = sub.at + sub.bytes
  BY Zones
<1>6. op.bytes <= sub.bytes
  BY LayerRoom
<1>7. /\ Piece(c) /\ c.bytes >= 0 /\ c.at >= sub.at
      /\ c.at + c.bytes <= sub.at + 4 * total
  BY <1>4, <1>5, CutInside DEF OperatorNames
<1> HIDE DEF op, c, sub, total
<1>8. c.at + c.bytes <= Weights(w).at /\ Within(c, sub)
  BY <1>4, <1>5, <1>6, <1>7 DEF Piece, Within
<1> QED
  BY <1>2, <1>7, <1>8 DEF c, sub, op

\* A layer's own buffers are before that.
LEMMA LayerWithin ==
    ASSUME NEW w, Calling(w), Layered(w), NEW name \in OwnNames(w) \ OperatorNames(w)
    PROVE  LET b == Buffers(w)[name]
           IN  /\ b = Cut(LayerScratch(w), LayerParts(Kind(w), w.tokens))[name]
               /\ Piece(b) /\ b.bytes >= 0
               /\ b.at >= LayerScratch(w).at /\ b.at + b.bytes <= SubScratch(w).at
<1> DEFINE parts == LayerParts(Kind(w), w.tokens)
           c == Cut(LayerScratch(w), parts)[name]
<1>1. InLayer(w) /\ w.tokens \in Nat
  BY DEF Layered, Calling
<1>2. Buffers(w)[name] = c
  BY <1>1, BuffersAre DEF OperatorNames, OwnNames
<1>3. Listed(parts)
  BY <1>1, LayerListed
<1>4. LayerScratch(w).at \in Nat
  BY Zones
<1>5. SubScratch(w).at = LayerScratch(w).at + 4 * Total(parts)
  BY LayerRoom
<1>6. /\ Piece(c) /\ c.bytes >= 0 /\ c.at >= LayerScratch(w).at
      /\ c.at + c.bytes <= LayerScratch(w).at + 4 * Total(parts)
  BY <1>3, <1>4, CutInside DEF OwnNames
<1> HIDE DEF c, parts
<1> QED
  BY <1>2, <1>5, <1>6 DEF c, parts

\* What the executor lends is before the layer, and outside of its buffers the
\* variable of a function.
LEMMA LentWithin ==
    ASSUME NEW w, Calling(w), Layered(w),
           NEW name \in {"input", "output"}, name \notin OperatorNames(w) \cup OwnNames(w)
    PROVE  LET b == Buffers(w)[name]
           IN  /\ Piece(b) /\ b.bytes = 4 * (w.tokens * Width)
               /\ b.at >= Base /\ b.at + b.bytes <= LayerScratch(w).at
<1> DEFINE n == w.tokens
           parts == ExecParts(n)
           c(x) == Cut(Block(w), parts)[x]
           b == Buffers(w)[name]
<1>1. InLayer(w) /\ n \in Nat
  BY DEF Layered, Calling
<1>2. b = Lent(w)[name]
  <2>1. name \in DOMAIN Lent(w)
    BY DEF Lent
  <2> QED
    BY <1>1, <2>1, BuffersAre DEF OperatorNames, OwnNames
<1>3. Lent(w)[name] \in {ExecBuffers(w)["branches_a"], ExecBuffers(w)["branches_b"]}
  BY DEF Lent
<1>4. b \in {c("branches_a"), c("branches_b")}
  BY <1>2, <1>3 DEF ExecBuffers
<1>5. Listed(parts)
  BY <1>1, ExecListed
<1>6. /\ parts[1][1] = "branches_a" /\ parts[1][2] = n * Width
      /\ parts[2][1] = "branches_b" /\ parts[2][2] = n * Width
  BY DEF ExecParts
<1>7. 1 \in 1..Len(parts) /\ 2 \in 1..Len(parts)
  <2>1. Len(parts) = 13
    BY <1>1, ExecListed
  <2> HIDE DEF parts
  <2> QED
    BY <2>1
<1>8. Block(w).at = Base /\ Base \in Nat
  BY Zones DEF Block
<1>9. LayerScratch(w).at = Base + 4 * Total(parts)
  BY CallRoom
<1> HIDE DEF parts
<1>10. c("branches_a").bytes = 4 * (n * Width) /\ "branches_a" \in Names(parts)
  <2>0. \A k \in 1..Len(parts) :
          parts[k][1] \in Names(parts) /\ c(parts[k][1]).bytes = 4 * parts[k][2]
    BY <1>5, CutAt
  <2>1. parts[1][1] \in Names(parts) /\ c(parts[1][1]).bytes = 4 * parts[1][2]
    BY <1>7, <2>0
  <2> HIDE DEF c
  <2> QED
    BY <1>6, <2>1
<1>11. c("branches_b").bytes = 4 * (n * Width) /\ "branches_b" \in Names(parts)
  <2>0. \A k \in 1..Len(parts) :
          parts[k][1] \in Names(parts) /\ c(parts[k][1]).bytes = 4 * parts[k][2]
    BY <1>5, CutAt
  <2>1. parts[2][1] \in Names(parts) /\ c(parts[2][1]).bytes = 4 * parts[2][2]
    BY <1>7, <2>0
  <2> HIDE DEF c
  <2> QED
    BY <1>6, <2>1
<1>12. \A x \in Names(parts) :
         /\ Piece(c(x)) /\ c(x).bytes >= 0 /\ c(x).at >= Base
         /\ c(x).at + c(x).bytes <= Base + 4 * Total(parts)
  BY <1>5, <1>8, CutInside
<1>13. \A x \in {"branches_a", "branches_b"} :
         /\ Piece(c(x)) /\ c(x).bytes = 4 * (n * Width) /\ c(x).at >= Base
         /\ c(x).at + c(x).bytes <= LayerScratch(w).at
  BY <1>9, <1>10, <1>11, <1>12
<1>14. PICK x \in {"branches_a", "branches_b"} : b = c(x)
  BY <1>4
<1> HIDE DEF c, b, n
<1>15. Piece(b) /\ b.bytes = 4 * (n * Width) /\ b.at >= Base /\ b.at + b.bytes <= LayerScratch(w).at
  BY <1>13, <1>14
<1> QED
  BY <1>15 DEF b, n
-----------------------------------------------------------------------------
(* The buffers of a layer hold what their lists say, apart from each other and *)
(* from what is staged. *)

\* A buffer of the operator or of the layer.
Holds(w, name, words) ==
    name \in OperatorNames(w) \cup OwnNames(w) /\ Held(w, name, words, LinearScratch(w))

LEMMA OperatorHolds ==
    ASSUME NEW w, Calling(w), Layered(w), NEW k \in 1..Len(OperatorOf(w).parts)
    PROVE  Holds(w, OperatorOf(w).parts[k][1], OperatorOf(w).parts[k][2])
<1> DEFINE parts == OperatorOf(w).parts
           name == parts[k][1]
           words == parts[k][2]
           b == Buffers(w)[name]
<1>1. Sound(OperatorOf(w))
  BY OperatorIs
<1>2. Listed(parts)
  BY <1>1 DEF Sound
<1>3. /\ name \in Names(parts) /\ words \in Nat
      /\ Cut(SubScratch(w), parts)[name].bytes = 4 * words
  <2> HIDE DEF parts
  <2>2. /\ parts[k][1] \in Names(parts) /\ parts[k][2] \in Nat
        /\ Cut(SubScratch(w), parts)[parts[k][1]].bytes = 4 * parts[k][2]
    BY <1>2, CutAt, ZenonT(90) DEF parts
  <2> QED
    BY <2>2
<1>4. name \in OperatorNames(w)
  BY <1>3 DEF OperatorNames
<1>5. b = Cut(SubScratch(w), parts)[name] /\ Piece(b) /\ b.at + b.bytes <= Weights(w).at
  BY <1>4, OperatorWithin
<1>6. /\ Weights(w).at \in Nat /\ Weights(w).at <= Loading(w).at
      /\ Loading(w).at \in Nat /\ Loading(w).at <= LinearScratch(w).at
      /\ LinearScratch(w).at \in Nat
  BY Zones
<1>7. b.bytes = 4 * words
  BY <1>3, <1>5
<1> DEFINE room == LinearScratch(w)
<1> HIDE DEF b, parts, room
<1>8. Apart(b, room)
  <2>1. b.at + b.bytes <= Weights(w).at /\ b.at \in Int /\ b.bytes \in Int
    BY <1>5, <1>6 DEF Piece
  <2>2. Weights(w).at <= room.at /\ Weights(w).at \in Nat /\ room.at \in Nat
    BY <1>6 DEF room
  <2>3. b.at + b.bytes <= room.at
    BY <2>1, <2>2
  <2> QED
    BY <2>3 DEF Apart
<1>9. name \in OperatorNames(w) /\ Held(w, name, words, LinearScratch(w))
  BY <1>3, <1>4, <1>5, <1>7, <1>8 DEF Held, b, room
<1> QED
  BY <1>9 DEF Holds, parts

LEMMA LayerHolds ==
    ASSUME NEW w, Calling(w), Layered(w), NEW k \in 1..Len(LayerParts(Kind(w), w.tokens)),
           LayerParts(Kind(w), w.tokens)[k][1] \notin OperatorNames(w)
    PROVE  Holds(w, LayerParts(Kind(w), w.tokens)[k][1], LayerParts(Kind(w), w.tokens)[k][2])
<1> DEFINE parts == LayerParts(Kind(w), w.tokens)
           name == parts[k][1]
           words == parts[k][2]
           b == Buffers(w)[name]
<1>1. w.tokens \in Nat
  BY DEF Calling
<1>2. Listed(parts)
  BY <1>1, LayerListed
<1>3. /\ name \in Names(parts) /\ words \in Nat
      /\ Cut(LayerScratch(w), parts)[name].bytes = 4 * words
  <2> HIDE DEF parts
  <2>2. /\ parts[k][1] \in Names(parts) /\ parts[k][2] \in Nat
        /\ Cut(LayerScratch(w), parts)[parts[k][1]].bytes = 4 * parts[k][2]
    BY <1>2, CutAt DEF parts
  <2> QED
    BY <2>2
<1>4. name \in OwnNames(w) \ OperatorNames(w)
  BY <1>3 DEF OwnNames
<1>5. b = Cut(LayerScratch(w), parts)[name] /\ Piece(b) /\ b.at + b.bytes <= SubScratch(w).at
  BY <1>4, LayerWithin
<1>6. /\ SubScratch(w).at \in Nat /\ SubScratch(w).bytes \in Nat
      /\ Weights(w).at = SubScratch(w).at + SubScratch(w).bytes
      /\ Weights(w).at \in Nat /\ Weights(w).at <= Loading(w).at
      /\ Loading(w).at \in Nat /\ Loading(w).at <= LinearScratch(w).at
      /\ LinearScratch(w).at \in Nat
  BY Zones
<1>7. b.bytes = 4 * words
  BY <1>3, <1>5
<1> DEFINE room == LinearScratch(w)
<1> HIDE DEF b, parts, room
<1>8. Apart(b, room)
  <2>1. b.at + b.bytes <= Weights(w).at /\ b.at \in Int /\ b.bytes \in Int
    BY <1>5, <1>6, SMTT(30) DEF Piece
  <2>2. Weights(w).at <= room.at /\ Weights(w).at \in Nat /\ room.at \in Nat
    BY <1>6 DEF room
  <2>3. b.at + b.bytes <= room.at
    BY <2>1, <2>2
  <2> QED
    BY <2>3 DEF Apart
<1>9. name \in OwnNames(w) /\ Held(w, name, words, LinearScratch(w))
  BY <1>3, <1>4, <1>5, <1>7, <1>8 DEF Held, b, room
<1> QED
  BY <1>9 DEF Holds, parts

LEMMA AllParted ==
    ASSUME NEW w, Calling(w), Layered(w),
           NEW x \in OperatorNames(w) \cup OwnNames(w),
           NEW y \in OperatorNames(w) \cup OwnNames(w), x # y
    PROVE  Parted(w, x, y)
<1> DEFINE b(name) == Buffers(w)[name]
<1>1. w.tokens \in Nat /\ Sound(OperatorOf(w))
  BY OperatorIs DEF Calling
<1>2. Listed(LayerParts(Kind(w), w.tokens)) /\ Listed(OperatorOf(w).parts)
  BY <1>1, LayerListed DEF Sound
<1>3. LayerScratch(w).at \in Nat /\ SubScratch(w).at \in Nat
  BY Zones
<1>4. ASSUME NEW i \in OperatorNames(w) PROVE b(i).at >= SubScratch(w).at /\ Piece(b(i))
  BY OperatorWithin
<1>5. ASSUME NEW i \in OwnNames(w) \ OperatorNames(w)
      PROVE  b(i).at + b(i).bytes <= SubScratch(w).at /\ Piece(b(i))
  BY LayerWithin
<1>6. CASE x \in OperatorNames(w) /\ y \in OperatorNames(w)
  <2>1. b(x) = Cut(SubScratch(w), OperatorOf(w).parts)[x]
        /\ b(y) = Cut(SubScratch(w), OperatorOf(w).parts)[y]
    BY <1>6, OperatorWithin
  <2>2. Apart(Cut(SubScratch(w), OperatorOf(w).parts)[x],
              Cut(SubScratch(w), OperatorOf(w).parts)[y])
    BY <1>2, <1>3, <1>6, CutApart DEF OperatorNames
  <2> QED
    BY <2>1, <2>2 DEF Parted
<1>7. CASE x \notin OperatorNames(w) /\ y \notin OperatorNames(w)
  <2>1. b(x) = Cut(LayerScratch(w), LayerParts(Kind(w), w.tokens))[x]
        /\ b(y) = Cut(LayerScratch(w), LayerParts(Kind(w), w.tokens))[y]
    BY <1>7, LayerWithin
  <2>2. Apart(Cut(LayerScratch(w), LayerParts(Kind(w), w.tokens))[x],
              Cut(LayerScratch(w), LayerParts(Kind(w), w.tokens))[y])
    BY <1>2, <1>3, <1>7, CutApart DEF OwnNames
  <2> QED
    BY <2>1, <2>2 DEF Parted
<1>8. CASE x \in OperatorNames(w) /\ y \notin OperatorNames(w)
  <2>1. b(x).at >= SubScratch(w).at /\ Piece(b(x))
    BY <1>4, <1>8
  <2>2. b(y).at + b(y).bytes <= SubScratch(w).at /\ Piece(b(y))
    BY <1>5, <1>8
  <2> HIDE DEF b
  <2>3. Apart(b(x), b(y))
    BY <1>3, <2>1, <2>2 DEF Apart, Piece
  <2> QED
    BY <2>3 DEF Parted, b
<1>9. CASE x \notin OperatorNames(w) /\ y \in OperatorNames(w)
  <2>1. b(y).at >= SubScratch(w).at /\ Piece(b(y))
    BY <1>4, <1>9
  <2>2. b(x).at + b(x).bytes <= SubScratch(w).at /\ Piece(b(x))
    BY <1>5, <1>9
  <2> HIDE DEF b
  <2>3. Apart(b(x), b(y))
    BY <1>3, <2>1, <2>2 DEF Apart, Piece
  <2> QED
    BY <2>3 DEF Parted, b
<1> QED
  BY <1>6, <1>7, <1>8, <1>9

\* The variable of a function.
LEMMA ScaleHeld ==
    ASSUME NEW w, Calling(w), Layered(w),
           "shared_scale_logit" \notin OperatorNames(w) \cup OwnNames(w)
    PROVE  /\ Held(w, "shared_scale_logit", 1, LinearScratch(w))
           /\ \A x \in OperatorNames(w) \cup OwnNames(w) : Parted(w, x, "shared_scale_logit")
<1> DEFINE name == "shared_scale_logit"
           b(x) == Buffers(w)[x]
<1>1. InLayer(w) /\ name \in DOMAIN Lent(w)
  BY DEF Layered, Lent
<1>2. b(name) = Lent(w)[name]
  BY <1>1, BuffersAre DEF OperatorNames, OwnNames
<1>3. Lent(w)[name] = [at |-> 0, bytes |-> 4]
  BY DEF Lent
<1>4. b(name).at = 0 /\ b(name).bytes = 4 /\ Piece(b(name))
  BY <1>2, <1>3 DEF Piece
<1>5. /\ Base \in Nat /\ Base >= 104857600
      /\ LayerScratch(w).at \in Nat /\ Base <= LayerScratch(w).at
      /\ SubScratch(w).at \in Nat /\ LayerScratch(w).at <= SubScratch(w).at
      /\ SubScratch(w).bytes \in Nat /\ Weights(w).at = SubScratch(w).at + SubScratch(w).bytes
      /\ Weights(w).at <= Loading(w).at /\ Loading(w).at \in Nat
      /\ Loading(w).at <= LinearScratch(w).at /\ LinearScratch(w).at \in Nat
  BY Zones
<1>6. Apart(b(name), LinearScratch(w))
  <2> HIDE DEF b
  <2> QED
    BY <1>4, <1>5 DEF Apart
<1>7. Held(w, name, 1, LinearScratch(w))
  BY <1>4, <1>6 DEF Held
<1>8. ASSUME NEW x \in OperatorNames(w) \cup OwnNames(w) PROVE Parted(w, x, name)
  <2>1. x \in OperatorNames(w) => b(x).at >= SubScratch(w).at /\ Piece(b(x))
    BY OperatorWithin
  <2>2. x \notin OperatorNames(w) => b(x).at >= LayerScratch(w).at /\ Piece(b(x))
    BY <1>8, LayerWithin
  <2> HIDE DEF b
  <2>3. b(x).at >= 4
    BY <1>5, <2>1, <2>2 DEF Piece
  <2>4. Apart(b(x), b(name))
    BY <1>4, <2>1, <2>2, <2>3 DEF Apart, Piece
  <2> QED
    BY <2>4 DEF Parted, b
<1> QED
  BY <1>7, <1>8
-----------------------------------------------------------------------------
(* The buffers of each stage, and what it asks of the provider. *)

LEMMA StageParts ==
    ASSUME NEW w, Layered(w)
    PROVE  /\ w.stage = "ple" => OperatorOf(w) = Ple(w.tokens) /\ Ple(w.tokens).parts = PleParts
           /\ w.stage \in {"attention_read", "moe_read"} =>
                OperatorOf(w) = GrRead(w.tokens) /\ GrRead(w.tokens).parts = << >>
           /\ w.stage = "mixer" /\ Kind(w) = "qsa" =>
                OperatorOf(w) = Qsa(w.tokens) /\ Qsa(w.tokens).parts = QsaParts(w.tokens)
           /\ w.stage = "mixer" /\ Kind(w) # "qsa" =>
                OperatorOf(w) = Gdn(w.tokens) /\ Gdn(w.tokens).parts = GdnParts
           /\ w.stage = "moe" => OperatorOf(w) = Moe(w.tokens) /\ Moe(w.tokens).parts = MoeParts
           /\ w.stage \in {"ple", "attention_read", "mixer", "moe_read", "moe"}
<1>1. w.stage \in {"ple", "attention_read", "mixer", "moe_read", "moe"}
  BY DEF Layered, InLayer
<1>2. /\ Ple(w.tokens).parts = PleParts /\ GrRead(w.tokens).parts = << >>
      /\ Qsa(w.tokens).parts = QsaParts(w.tokens) /\ Gdn(w.tokens).parts = GdnParts
      /\ Moe(w.tokens).parts = MoeParts
  BY DEF Ple, GrRead, Qsa, Gdn, Moe, Operator
<1>3. /\ w.stage = "ple" => OperatorOf(w) = Ple(w.tokens)
      /\ w.stage \in {"attention_read", "moe_read"} => OperatorOf(w) = GrRead(w.tokens)
      /\ w.stage = "mixer" /\ Kind(w) = "qsa" => OperatorOf(w) = Qsa(w.tokens)
      /\ w.stage = "mixer" /\ Kind(w) # "qsa" => OperatorOf(w) = Gdn(w.tokens)
      /\ w.stage = "moe" => OperatorOf(w) = Moe(w.tokens)
  BY <1>1 DEF OperatorOf
<1> QED
  BY <1>1, <1>2, <1>3

\* No operator calls a buffer of its own as the layer or the executor does.
Foreign == LayerNames \cup {"intents", "input", "output", "shared_scale_logit"}

LEMMA NamesDiffer ==
    ASSUME NEW w, Calling(w), Layered(w)
    PROVE  /\ \A name \in Foreign : name \notin OperatorNames(w)
           /\ LayerNames \subseteq OwnNames(w)
           /\ Kind(w) = "ple" => "intents" \in OwnNames(w)
           /\ "input" \notin OwnNames(w) /\ "output" \notin OwnNames(w)
           /\ "shared_scale_logit" \notin OwnNames(w)
<1>1. w.tokens \in Nat
  BY DEF Calling
<1>2. OwnNames(w) = LayerNames \cup (IF Kind(w) = "ple" THEN {"intents"} ELSE {})
  BY <1>1, LayerListed DEF OwnNames
<1>3. /\ \A name \in Foreign : name \notin Names(GdnParts)
      /\ \A name \in Foreign : name \notin Names(QsaParts(w.tokens))
      /\ \A name \in Foreign : name \notin Names(MoeParts)
      /\ \A name \in Foreign : name \notin Names(PleParts)
      /\ \A name \in Foreign : name \notin Names(<< >>)
  <2>1. \A name \in Foreign : name \notin Names(GdnParts)
    BY GdnNames DEF Foreign, LayerNames
  <2>2. \A name \in Foreign : name \notin Names(QsaParts(w.tokens))
    BY <1>1, QsaNames DEF Foreign, LayerNames
  <2>3. \A name \in Foreign : name \notin Names(MoeParts)
    BY MoeNames DEF Foreign, LayerNames
  <2>4. \A name \in Foreign : name \notin Names(PleParts)
    BY PleNames DEF Foreign, LayerNames
  <2>5. \A name \in Foreign : name \notin Names(<< >>)
    BY DEF Names
  <2> QED
    BY <2>1, <2>2, <2>3, <2>4, <2>5
<1>4. OperatorOf(w).parts \in {GdnParts, QsaParts(w.tokens), MoeParts, PleParts, << >>}
  BY StageParts
<1>5. \A name \in Foreign : name \notin OperatorNames(w)
  BY <1>3, <1>4 DEF OperatorNames
<1> QED
  BY <1>2, <1>5 DEF LayerNames

\* The layer's buffers, whatever runs in it.
LEMMA LayerHeld ==
    ASSUME NEW w, Calling(w), Layered(w)
    PROVE  /\ Holds(w, "ple_output", w.tokens * Width)
           /\ Holds(w, "mixed", w.tokens * Hidden)
           /\ Holds(w, "block_output", w.tokens * Hidden)
           /\ Holds(w, "moe_input", w.tokens * Hidden)
           /\ Holds(w, "moe_output", w.tokens * Hidden)
           /\ Holds(w, "normalized", Width) /\ Holds(w, "read_gate", Width)
           /\ Holds(w, "rank", Rank)
           /\ Holds(w, "attention_write_gates", w.tokens * Branches)
           /\ Holds(w, "moe_write_gates", w.tokens * Branches)
           /\ Kind(w) = "ple" => Holds(w, "intents", w.tokens * PleHeads * IntentWords)
<1> DEFINE n == w.tokens
           p == LayerParts(Kind(w), n)
<1>1. n \in Nat
  BY DEF Calling
<1>2. \A k \in 1..Len(p) : p[k][1] \notin OperatorNames(w) => Holds(w, p[k][1], p[k][2])
  BY LayerHolds
<1>3. \A name \in Foreign : name \notin OperatorNames(w)
  BY NamesDiffer
<1>4. /\ Len(p) = (IF Kind(w) = "ple" THEN 13 ELSE 12)
      /\ p[1] = <<"ple_output", n * Width>>
      /\ p[3] = <<"mixed", n * Hidden>> /\ p[4] = <<"block_output", n * Hidden>>
      /\ p[6] = <<"moe_input", n * Hidden>>
      /\ p[7] = <<"moe_output", n * Hidden>> /\ p[8] = <<"normalized", Width>>
      /\ p[9] = <<"read_gate", Width>> /\ p[10] = <<"rank", Rank>>
      /\ p[11] = <<"attention_write_gates", n * Branches>>
      /\ p[12] = <<"moe_write_gates", n * Branches>>
      /\ Kind(w) = "ple" => p[13] = <<"intents", n * PleHeads * IntentWords>>
  BY <1>1, LayerPartsAre, ZenonT(90)
<1>5. {"ple_output", "mixed", "block_output", "moe_input", "moe_output", "normalized",
       "read_gate", "rank", "attention_write_gates", "moe_write_gates", "intents"}
        \subseteq Foreign
  BY DEF Foreign, LayerNames
<1> HIDE DEF p, n
<1>6. \A k \in 1..12 : p[k][1] \in Foreign => Holds(w, p[k][1], p[k][2])
  BY <1>2, <1>3, <1>4
<1>7. Kind(w) = "ple" /\ p[13][1] \in Foreign => Holds(w, p[13][1], p[13][2])
  BY <1>2, <1>3, <1>4
<1>8. Kind(w) = "ple" => Holds(w, "intents", n * PleHeads * IntentWords)
  BY <1>4, <1>5, <1>7
<1>9. Holds(w, "ple_output", n * Width) /\ Holds(w, "mixed", n * Hidden)
  BY <1>4, <1>5, <1>6
<1>10. Holds(w, "block_output", n * Hidden) /\ Holds(w, "moe_input", n * Hidden)
  BY <1>4, <1>5, <1>6
<1>11. Holds(w, "moe_output", n * Hidden) /\ Holds(w, "normalized", Width)
  BY <1>4, <1>5, <1>6
<1>12. Holds(w, "read_gate", Width) /\ Holds(w, "rank", Rank)
  BY <1>4, <1>5, <1>6
<1>13. Holds(w, "attention_write_gates", n * Branches) /\ Holds(w, "moe_write_gates", n * Branches)
  BY <1>4, <1>5, <1>6
<1> QED
  BY <1>8, <1>9, <1>10, <1>11, <1>12, <1>13 DEF n
-----------------------------------------------------------------------------
(* The requests of a stage of a layer. *)

LEMMA HoldsType ==
    ASSUME NEW w, NEW x, NEW words, Holds(w, x, words)
    PROVE  /\ words \in Nat /\ x \in OperatorNames(w) \cup OwnNames(w)
           /\ Held(w, x, words, LinearScratch(w))
BY DEF Holds, Held

\* From the start of one buffer to the start of another, both filled.
LEMMA StartFits ==
    ASSUME NEW w, Calling(w), Layered(w), NEW x, NEW columns, NEW y, NEW rows,
           Holds(w, x, columns), Holds(w, y, rows), x # y, rows + columns <= 16384
    PROVE  RequestFits(w, Linear(Start(x), Start(y), rows, columns), LinearScratch(w))
<1> DEFINE room == LinearScratch(w)
<1>1. /\ columns \in Nat /\ rows \in Nat
      /\ Held(w, x, columns, room) /\ Held(w, y, rows, room)
      /\ x \in OperatorNames(w) \cup OwnNames(w) /\ y \in OperatorNames(w) \cup OwnNames(w)
  BY HoldsType
<1>2. Parted(w, x, y)
  BY <1>1, AllParted
<1>3. Piece(room) /\ room.bytes \in Nat /\ room.bytes >= 65536
  BY Zones
<1> HIDE DEF room
<1>4. 4 * (rows + columns) <= room.bytes
  BY <1>1, <1>3
<1>5. 0 + columns <= columns /\ 0 + rows <= rows /\ 0 \in Nat
  BY <1>1
<1>6. RequestFits(w, Linear(<<x, 0>>, <<y, 0>>, rows, columns), room)
  <2>1. Held(w, x, columns, room) /\ Held(w, y, rows, room) /\ Parted(w, x, y) /\ Piece(room)
    BY <1>1, <1>2, <1>3
  <2>2. \A a, c, b, r \in Nat :
          a + c <= columns /\ b + r <= rows /\ 4 * (r + c) <= room.bytes
            => RequestFits(w, Linear(<<x, a>>, <<y, b>>, r, c), room)
    BY ONLY <2>1, LinearFits
  <2> QED
    BY <1>1, <1>4, <1>5, <2>2
<1> QED
  BY <1>6 DEF Start, room

LEMMA NthRow ==
    ASSUME NEW n \in Nat, NEW t \in 0..(n - 1), NEW width \in Nat
    PROVE  t * width \in Nat /\ (t + 1) * width <= n * width
           /\ (t * width) + width = (t + 1) * width
<1>1. t \in Nat /\ n - (t + 1) \in Nat
  OBVIOUS
<1> DEFINE d == n - (t + 1)
<1>2. n = (t + 1) + d /\ d \in Nat
  BY <1>1
<1> HIDE DEF d
<1>3. d * width \in Nat /\ t * width \in Nat
  BY <1>1, <1>2
<1>4. n * width = ((t + 1) * width) + (d * width)
  BY <1>1, <1>2
<1>5. (t + 1) * width = (t * width) + width
  BY <1>1
<1> QED
  BY <1>3, <1>4, <1>5

\* From the entry of a token.
LEMMA NthFits ==
    ASSUME NEW w, Calling(w), Layered(w), NEW x, NEW columns \in Nat, NEW y, NEW rows,
           NEW t \in Tokens(w),
           Holds(w, x, w.tokens * columns), Holds(w, y, rows), x # y,
           rows + columns <= 16384
    PROVE  RequestFits(w, Linear(Nth(x, t, columns), Start(y), rows, columns), LinearScratch(w))
<1> DEFINE room == LinearScratch(w)
           all == w.tokens * columns
           i == t * columns
<1>1. /\ all \in Nat /\ rows \in Nat
      /\ Held(w, x, all, room) /\ Held(w, y, rows, room)
      /\ x \in OperatorNames(w) \cup OwnNames(w) /\ y \in OperatorNames(w) \cup OwnNames(w)
  BY HoldsType
<1>2. Parted(w, x, y)
  BY <1>1, AllParted
<1>3. Piece(room) /\ room.bytes \in Nat /\ room.bytes >= 65536
  BY Zones
<1>4. i \in Nat /\ i + columns <= all
  <2>1. w.tokens \in Nat /\ t \in 0..(w.tokens - 1)
    BY DEF Calling, Tokens
  <2> QED
    BY <2>1, NthRow
<1> HIDE DEF room, all, i
<1>5. 4 * (rows + columns) <= room.bytes
  BY <1>1, <1>3
<1>6. 0 + rows <= rows /\ 0 \in Nat
  BY <1>1
<1>7. RequestFits(w, Linear(<<x, i>>, <<y, 0>>, rows, columns), room)
  <2>1. Held(w, x, all, room) /\ Held(w, y, rows, room) /\ Parted(w, x, y) /\ Piece(room)
    BY <1>1, <1>2, <1>3
  <2>2. \A a, c, b, r \in Nat :
          a + c <= all /\ b + r <= rows /\ 4 * (r + c) <= room.bytes
            => RequestFits(w, Linear(<<x, a>>, <<y, b>>, r, c), room)
    BY ONLY <2>1, LinearFits
  <2> QED
    BY <1>1, <1>4, <1>5, <1>6, <2>2
<1> QED
  BY <1>7 DEF Start, Nth, room, i

\* To the entry of a token.
LEMMA ToNthFits ==
    ASSUME NEW w, Calling(w), Layered(w), NEW x, NEW columns, NEW y, NEW rows \in Nat,
           NEW t \in Tokens(w),
           Holds(w, x, columns), Holds(w, y, w.tokens * rows), x # y,
           rows + columns <= 16384
    PROVE  RequestFits(w, Linear(Start(x), Nth(y, t, rows), rows, columns), LinearScratch(w))
<1> DEFINE room == LinearScratch(w)
           all == w.tokens * rows
           i == t * rows
<1>1. /\ all \in Nat /\ columns \in Nat
      /\ Held(w, x, columns, room) /\ Held(w, y, all, room)
      /\ x \in OperatorNames(w) \cup OwnNames(w) /\ y \in OperatorNames(w) \cup OwnNames(w)
  BY HoldsType
<1>2. Parted(w, x, y)
  BY <1>1, AllParted
<1>3. Piece(room) /\ room.bytes \in Nat /\ room.bytes >= 65536
  BY Zones
<1>4. i \in Nat /\ i + rows <= all
  <2>1. w.tokens \in Nat /\ t \in 0..(w.tokens - 1)
    BY DEF Calling, Tokens
  <2> QED
    BY <2>1, NthRow
<1> HIDE DEF room, all, i
<1>5. 4 * (rows + columns) <= room.bytes
  BY <1>1, <1>3
<1>6. 0 + columns <= columns /\ 0 \in Nat
  BY <1>1
<1>7. RequestFits(w, Linear(<<x, 0>>, <<y, i>>, rows, columns), room)
  <2>1. Held(w, x, columns, room) /\ Held(w, y, all, room) /\ Parted(w, x, y) /\ Piece(room)
    BY <1>1, <1>2, <1>3
  <2>2. \A a, c, b, r \in Nat :
          a + c <= columns /\ b + r <= all /\ 4 * (r + c) <= room.bytes
            => RequestFits(w, Linear(<<x, a>>, <<y, b>>, r, c), room)
    BY ONLY <2>1, LinearFits
  <2> QED
    BY <1>1, <1>4, <1>5, <1>6, <2>2
<1> QED
  BY <1>7 DEF Start, Nth, room, i

\* To the variable of a function.
LEMMA ScaleFits ==
    ASSUME NEW w, Calling(w), Layered(w), NEW x, NEW columns \in Nat, NEW t \in Tokens(w),
           Holds(w, x, w.tokens * columns), 1 + columns <= 16384
    PROVE  RequestFits(w, Linear(Nth(x, t, columns), Start("shared_scale_logit"), 1, columns),
                       LinearScratch(w))
<1> DEFINE room == LinearScratch(w)
           y == "shared_scale_logit"
           all == w.tokens * columns
           i == t * columns
<1>1. /\ all \in Nat /\ Held(w, x, all, room)
      /\ x \in OperatorNames(w) \cup OwnNames(w)
  BY HoldsType
<1>2. y \notin OperatorNames(w) \cup OwnNames(w)
  BY NamesDiffer DEF Foreign
<1>3. Parted(w, x, y) /\ Held(w, y, 1, room)
  BY <1>1, <1>2, ScaleHeld
<1>4. Piece(room) /\ room.bytes \in Nat /\ room.bytes >= 65536
  BY Zones
<1>5. i \in Nat /\ i + columns <= all
  <2>1. w.tokens \in Nat /\ t \in 0..(w.tokens - 1)
    BY DEF Calling, Tokens
  <2> QED
    BY <2>1, NthRow
<1> HIDE DEF room, all, i, y
<1>6. 4 * (1 + columns) <= room.bytes
  BY <1>4
<1>7. 0 + 1 <= 1 /\ 0 \in Nat /\ 1 \in Nat
  OBVIOUS
<1>8. RequestFits(w, Linear(<<x, i>>, <<y, 0>>, 1, columns), room)
  <2>1. Held(w, x, all, room) /\ Held(w, y, 1, room) /\ Parted(w, x, y) /\ Piece(room)
    BY <1>1, <1>3, <1>4
  <2>2. \A a, c, b, r \in Nat :
          a + c <= all /\ b + r <= 1 /\ 4 * (r + c) <= room.bytes
            => RequestFits(w, Linear(<<x, a>>, <<y, b>>, r, c), room)
    BY ONLY <2>1, LinearFits
  <2> QED
    BY <1>5, <1>6, <1>7, <2>2
<1> QED
  BY <1>8 DEF Start, Nth, room, i, y
-----------------------------------------------------------------------------
(* What each operator holds, and what it asks the provider for. *)

LEMMA GdnHeld ==
    ASSUME NEW w, Calling(w), Layered(w), w.stage = "mixer", Kind(w) # "qsa"
    PROVE  /\ Holds(w, "masked_input", Hidden)
           /\ Holds(w, "projected_qkv", GdnConv)
           /\ Holds(w, "projected_gate", GdnValues)
           /\ Holds(w, "projected_beta", GdnHeads)
           /\ Holds(w, "projected_alpha", GdnHeads)
           /\ Holds(w, "core_output", GdnValues)
           /\ Holds(w, "operator_output", Hidden)
<1> DEFINE p == GdnParts
<1>1. OperatorOf(w).parts = p
  BY StageParts
<1>2. \A k \in 1..Len(p) : Holds(w, p[k][1], p[k][2])
  BY <1>1, OperatorHolds
<1>3. w.tokens \in Nat
  BY DEF Calling
<1>4. Len(p) = 18
  BY <1>3, GdnListed
<1>5. /\ p[3] = <<"masked_input", Hidden>>
      /\ p[4] = <<"projected_qkv", GdnConv>>
      /\ p[5] = <<"projected_gate", GdnValues>>
      /\ p[6] = <<"projected_beta", GdnHeads>>
      /\ p[7] = <<"projected_alpha", GdnHeads>>
      /\ p[16] = <<"core_output", GdnValues>>
      /\ p[18] = <<"operator_output", Hidden>>
  BY DEF GdnParts
<1> HIDE DEF p
<1>6. \A k \in 1..18 : Holds(w, p[k][1], p[k][2])
  BY <1>2, <1>4
<1>7. Holds(w, "masked_input", Hidden)
  <2>1. Holds(w, p[3][1], p[3][2])
    BY <1>6
  <2> QED
    BY ONLY <1>5, <2>1
<1>8. Holds(w, "projected_qkv", GdnConv)
  <2>1. Holds(w, p[4][1], p[4][2])
    BY <1>6
  <2> QED
    BY ONLY <1>5, <2>1
<1>9. Holds(w, "projected_gate", GdnValues)
  <2>1. Holds(w, p[5][1], p[5][2])
    BY <1>6
  <2> QED
    BY ONLY <1>5, <2>1
<1>10. Holds(w, "projected_beta", GdnHeads)
  <2>1. Holds(w, p[6][1], p[6][2])
    BY <1>6
  <2> QED
    BY ONLY <1>5, <2>1
<1>11. Holds(w, "projected_alpha", GdnHeads)
  <2>1. Holds(w, p[7][1], p[7][2])
    BY <1>6
  <2> QED
    BY ONLY <1>5, <2>1
<1>12. Holds(w, "core_output", GdnValues)
  <2>1. Holds(w, p[16][1], p[16][2])
    BY <1>6
  <2> QED
    BY ONLY <1>5, <2>1
<1>13. Holds(w, "operator_output", Hidden)
  <2>1. Holds(w, p[18][1], p[18][2])
    BY <1>6
  <2> QED
    BY ONLY <1>5, <2>1
<1> QED
  BY <1>7, <1>8, <1>9, <1>10, <1>11, <1>12, <1>13

LEMMA QsaHeld ==
    ASSUME NEW w, Calling(w), Layered(w), w.stage = "mixer", Kind(w) = "qsa"
    PROVE  /\ Holds(w, "pending_key", w.tokens * QsaKv)
           /\ Holds(w, "pending_value", w.tokens * QsaKv)
           /\ Holds(w, "pending_raw", w.tokens * QsaIndex)
           /\ Holds(w, "staged_output", w.tokens * Hidden)
           /\ Holds(w, "projected_query_gate", 2 * QsaQuery)
           /\ Holds(w, "key", QsaKv)
           /\ Holds(w, "value", QsaKv)
           /\ Holds(w, "index_query", QsaIndexQuery)
           /\ Holds(w, "raw_index_key", QsaIndex)
           /\ Holds(w, "block_keys", QsaBlocks * QsaIndex)
           /\ Holds(w, "candidate_scores", QsaBlocks)
           /\ Holds(w, "candidate_ids", QsaBlocks)
           /\ Holds(w, "selected_tokens", SelectedCapacity)
           /\ Holds(w, "attention_logits", QsaHeads * SelectedCapacity)
           /\ Holds(w, "attention_probabilities", QsaHeads * SelectedCapacity)
           /\ Holds(w, "gated_context", QsaQuery)
           /\ Holds(w, "operator_output", Hidden)
<1> DEFINE p == QsaParts(w.tokens)
<1>1. OperatorOf(w).parts = p
  BY StageParts
<1>2. \A k \in 1..Len(p) : Holds(w, p[k][1], p[k][2])
  BY <1>1, OperatorHolds
<1>3. w.tokens \in Nat
  BY DEF Calling
<1>4. Len(p) = 20
  BY <1>3, QsaListed
<1>5. /\ p[1] = <<"pending_key", w.tokens * QsaKv>>
      /\ p[2] = <<"pending_value", w.tokens * QsaKv>>
      /\ p[3] = <<"pending_raw", w.tokens * QsaIndex>>
      /\ p[4] = <<"staged_output", w.tokens * Hidden>>
      /\ p[5] = <<"projected_query_gate", 2 * QsaQuery>>
      /\ p[7] = <<"key", QsaKv>>
      /\ p[8] = <<"value", QsaKv>>
      /\ p[9] = <<"index_query", QsaIndexQuery>>
      /\ p[10] = <<"raw_index_key", QsaIndex>>
      /\ p[11] = <<"block_keys", QsaBlocks * QsaIndex>>
      /\ p[12] = <<"candidate_scores", QsaBlocks>>
      /\ p[13] = <<"candidate_ids", QsaBlocks>>
      /\ p[15] = <<"selected_tokens", SelectedCapacity>>
      /\ p[16] = <<"attention_logits", QsaHeads * SelectedCapacity>>
      /\ p[17] = <<"attention_probabilities", QsaHeads * SelectedCapacity>>
      /\ p[19] = <<"gated_context", QsaQuery>>
      /\ p[20] = <<"operator_output", Hidden>>
  BY DEF QsaParts
<1> HIDE DEF p
<1>6. \A k \in 1..20 : Holds(w, p[k][1], p[k][2])
  BY <1>2, <1>4
<1>7. Holds(w, "pending_key", w.tokens * QsaKv)
  <2>1. Holds(w, p[1][1], p[1][2])
    BY <1>6
  <2> QED
    BY ONLY <1>5, <2>1
<1>8. Holds(w, "pending_value", w.tokens * QsaKv)
  <2>1. Holds(w, p[2][1], p[2][2])
    BY <1>6
  <2> QED
    BY ONLY <1>5, <2>1
<1>9. Holds(w, "pending_raw", w.tokens * QsaIndex)
  <2>1. Holds(w, p[3][1], p[3][2])
    BY <1>6
  <2> QED
    BY ONLY <1>5, <2>1
<1>10. Holds(w, "staged_output", w.tokens * Hidden)
  <2>1. Holds(w, p[4][1], p[4][2])
    BY <1>6
  <2> QED
    BY ONLY <1>5, <2>1
<1>11. Holds(w, "projected_query_gate", 2 * QsaQuery)
  <2>1. Holds(w, p[5][1], p[5][2])
    BY <1>6
  <2> QED
    BY ONLY <1>5, <2>1
<1>12. Holds(w, "key", QsaKv)
  <2>1. Holds(w, p[7][1], p[7][2])
    BY <1>6
  <2> QED
    BY ONLY <1>5, <2>1
<1>13. Holds(w, "value", QsaKv)
  <2>1. Holds(w, p[8][1], p[8][2])
    BY <1>6
  <2> QED
    BY ONLY <1>5, <2>1
<1>14. Holds(w, "index_query", QsaIndexQuery)
  <2>1. Holds(w, p[9][1], p[9][2])
    BY <1>6
  <2> QED
    BY ONLY <1>5, <2>1
<1>15. Holds(w, "raw_index_key", QsaIndex)
  <2>1. Holds(w, p[10][1], p[10][2])
    BY <1>6
  <2> QED
    BY ONLY <1>5, <2>1
<1>16. Holds(w, "block_keys", QsaBlocks * QsaIndex)
  <2>1. Holds(w, p[11][1], p[11][2])
    BY <1>6
  <2> QED
    BY ONLY <1>5, <2>1
<1>17. Holds(w, "candidate_scores", QsaBlocks)
  <2>1. Holds(w, p[12][1], p[12][2])
    BY <1>6
  <2> QED
    BY ONLY <1>5, <2>1
<1>18. Holds(w, "candidate_ids", QsaBlocks)
  <2>1. Holds(w, p[13][1], p[13][2])
    BY <1>6
  <2> QED
    BY ONLY <1>5, <2>1
<1>19. Holds(w, "selected_tokens", SelectedCapacity)
  <2>1. Holds(w, p[15][1], p[15][2])
    BY <1>6
  <2> QED
    BY ONLY <1>5, <2>1
<1>20. Holds(w, "attention_logits", QsaHeads * SelectedCapacity)
  <2>1. Holds(w, p[16][1], p[16][2])
    BY <1>6
  <2> QED
    BY ONLY <1>5, <2>1
<1>21. Holds(w, "attention_probabilities", QsaHeads * SelectedCapacity)
  <2>1. Holds(w, p[17][1], p[17][2])
    BY <1>6
  <2> QED
    BY ONLY <1>5, <2>1
<1>22. Holds(w, "gated_context", QsaQuery)
  <2>1. Holds(w, p[19][1], p[19][2])
    BY <1>6
  <2> QED
    BY ONLY <1>5, <2>1
<1>23. Holds(w, "operator_output", Hidden)
  <2>1. Holds(w, p[20][1], p[20][2])
    BY <1>6
  <2> QED
    BY ONLY <1>5, <2>1
<1> QED
  BY <1>7, <1>8, <1>9, <1>10, <1>11, <1>12, <1>13, <1>14, <1>15,
     <1>16, <1>17, <1>18, <1>19, <1>20, <1>21, <1>22, <1>23

LEMMA MoeHeld ==
    ASSUME NEW w, Calling(w), Layered(w), w.stage = "moe"
    PROVE  /\ Holds(w, "router_logits", Experts)
           /\ Holds(w, "expert_gate", Intermediate)
           /\ Holds(w, "expert_up", Intermediate)
           /\ Holds(w, "expert_activated", Intermediate)
           /\ Holds(w, "expert_output", Hidden)
           /\ Holds(w, "shared_gate", Intermediate)
           /\ Holds(w, "shared_up", Intermediate)
           /\ Holds(w, "shared_activated", Intermediate)
           /\ Holds(w, "shared_output", Hidden)
<1> DEFINE p == MoeParts
<1>1. OperatorOf(w).parts = p
  BY StageParts
<1>2. \A k \in 1..Len(p) : Holds(w, p[k][1], p[k][2])
  BY <1>1, OperatorHolds
<1>3. w.tokens \in Nat
  BY DEF Calling
<1>4. Len(p) = 15
  BY <1>3, MoeListed
<1>5. /\ p[1] = <<"router_logits", Experts>>
      /\ p[5] = <<"expert_gate", Intermediate>>
      /\ p[6] = <<"expert_up", Intermediate>>
      /\ p[7] = <<"expert_activated", Intermediate>>
      /\ p[8] = <<"expert_output", Hidden>>
      /\ p[11] = <<"shared_gate", Intermediate>>
      /\ p[12] = <<"shared_up", Intermediate>>
      /\ p[13] = <<"shared_activated", Intermediate>>
      /\ p[14] = <<"shared_output", Hidden>>
  BY DEF MoeParts
<1> HIDE DEF p
<1>6. \A k \in 1..15 : Holds(w, p[k][1], p[k][2])
  BY <1>2, <1>4
<1>7. Holds(w, "router_logits", Experts)
  <2>1. Holds(w, p[1][1], p[1][2])
    BY <1>6
  <2> QED
    BY ONLY <1>5, <2>1
<1>8. Holds(w, "expert_gate", Intermediate)
  <2>1. Holds(w, p[5][1], p[5][2])
    BY <1>6
  <2> QED
    BY ONLY <1>5, <2>1
<1>9. Holds(w, "expert_up", Intermediate)
  <2>1. Holds(w, p[6][1], p[6][2])
    BY <1>6
  <2> QED
    BY ONLY <1>5, <2>1
<1>10. Holds(w, "expert_activated", Intermediate)
  <2>1. Holds(w, p[7][1], p[7][2])
    BY <1>6
  <2> QED
    BY ONLY <1>5, <2>1
<1>11. Holds(w, "expert_output", Hidden)
  <2>1. Holds(w, p[8][1], p[8][2])
    BY <1>6
  <2> QED
    BY ONLY <1>5, <2>1
<1>12. Holds(w, "shared_gate", Intermediate)
  <2>1. Holds(w, p[11][1], p[11][2])
    BY <1>6
  <2> QED
    BY ONLY <1>5, <2>1
<1>13. Holds(w, "shared_up", Intermediate)
  <2>1. Holds(w, p[12][1], p[12][2])
    BY <1>6
  <2> QED
    BY ONLY <1>5, <2>1
<1>14. Holds(w, "shared_activated", Intermediate)
  <2>1. Holds(w, p[13][1], p[13][2])
    BY <1>6
  <2> QED
    BY ONLY <1>5, <2>1
<1>15. Holds(w, "shared_output", Hidden)
  <2>1. Holds(w, p[14][1], p[14][2])
    BY <1>6
  <2> QED
    BY ONLY <1>5, <2>1
<1> QED
  BY <1>7, <1>8, <1>9, <1>10, <1>11, <1>12, <1>13, <1>14, <1>15

LEMMA PleHeld ==
    ASSUME NEW w, Calling(w), Layered(w), w.stage = "ple"
    PROVE  /\ Holds(w, "embedding", PleEmbedding)
           /\ Holds(w, "row", PleRow)
           /\ Holds(w, "value", Hidden)
           /\ Holds(w, "key", Width)
<1> DEFINE p == PleParts
<1>1. OperatorOf(w).parts = p
  BY StageParts
<1>2. \A k \in 1..Len(p) : Holds(w, p[k][1], p[k][2])
  BY <1>1, OperatorHolds
<1>3. w.tokens \in Nat
  BY DEF Calling
<1>4. Len(p) = 11
  BY <1>3, PleListed
<1>5. /\ p[2] = <<"embedding", PleEmbedding>>
      /\ p[3] = <<"row", PleRow>>
      /\ p[4] = <<"value", Hidden>>
      /\ p[5] = <<"key", Width>>
  BY DEF PleParts
<1> HIDE DEF p
<1>6. \A k \in 1..11 : Holds(w, p[k][1], p[k][2])
  BY <1>2, <1>4
<1>7. Holds(w, "embedding", PleEmbedding)
  <2>1. Holds(w, p[2][1], p[2][2])
    BY <1>6
  <2> QED
    BY ONLY <1>5, <2>1
<1>8. Holds(w, "row", PleRow)
  <2>1. Holds(w, p[3][1], p[3][2])
    BY <1>6
  <2> QED
    BY ONLY <1>5, <2>1
<1>9. Holds(w, "value", Hidden)
  <2>1. Holds(w, p[4][1], p[4][2])
    BY <1>6
  <2> QED
    BY ONLY <1>5, <2>1
<1>10. Holds(w, "key", Width)
  <2>1. Holds(w, p[5][1], p[5][2])
    BY <1>6
  <2> QED
    BY ONLY <1>5, <2>1
<1> QED
  BY <1>7, <1>8, <1>9, <1>10
-----------------------------------------------------------------------------
(* Every request of a layer is admitted and stays within its buffers. *)

RequestsFit(w, requests) == \A r \in requests : RequestFits(w, r, LinearScratch(w))

LEMMA GdnFits ==
    ASSUME NEW w, Calling(w), Layered(w), w.stage = "mixer", Kind(w) # "qsa",
           NEW t \in Tokens(w)
    PROVE  RequestsFit(w, GdnRequests(t))
<1> DEFINE Suits(r) == RequestFits(w, r, LinearScratch(w))
<1>1. /\ Holds(w, "masked_input", Hidden) /\ Holds(w, "projected_qkv", GdnConv)
      /\ Holds(w, "projected_gate", GdnValues) /\ Holds(w, "projected_beta", GdnHeads)
      /\ Holds(w, "projected_alpha", GdnHeads) /\ Holds(w, "core_output", GdnValues)
      /\ Holds(w, "operator_output", Hidden)
  BY GdnHeld
<1>2. /\ GdnConv + Hidden <= 16384 /\ GdnValues + Hidden <= 16384
      /\ GdnHeads + Hidden <= 16384 /\ Hidden + GdnValues <= 16384
  BY SizeIs
<1>3. Suits(Linear(Start("masked_input"), Start("projected_qkv"), GdnConv, Hidden))
  BY <1>1, <1>2, StartFits
<1>4. Suits(Linear(Start("masked_input"), Start("projected_gate"), GdnValues, Hidden))
  BY <1>1, <1>2, StartFits
<1>5. Suits(Linear(Start("masked_input"), Start("projected_beta"), GdnHeads, Hidden))
  BY <1>1, <1>2, StartFits
<1>6. Suits(Linear(Start("masked_input"), Start("projected_alpha"), GdnHeads, Hidden))
  BY <1>1, <1>2, StartFits
<1>7. Suits(Linear(Start("core_output"), Start("operator_output"), Hidden, GdnValues))
  BY <1>1, <1>2, StartFits
<1> HIDE DEF Suits
<1>8. \A r \in GdnRequests(t) : Suits(r)
  BY <1>3, <1>4, <1>5, <1>6, <1>7 DEF GdnRequests
<1> QED
  BY <1>8 DEF Suits, RequestsFit

LEMMA QsaFits ==
    ASSUME NEW w, Calling(w), Layered(w), w.stage = "mixer", Kind(w) = "qsa",
           NEW t \in Tokens(w)
    PROVE  RequestsFit(w, QsaRequests(t))
<1> DEFINE Suits(r) == RequestFits(w, r, LinearScratch(w))
           input == Nth("mixed", t, Hidden)
<1>1. /\ Holds(w, "projected_query_gate", 2 * QsaQuery) /\ Holds(w, "key", QsaKv)
      /\ Holds(w, "value", QsaKv) /\ Holds(w, "index_query", QsaIndexQuery)
      /\ Holds(w, "raw_index_key", QsaIndex) /\ Holds(w, "gated_context", QsaQuery)
      /\ Holds(w, "operator_output", Hidden)
  BY QsaHeld
<1>2. Holds(w, "mixed", w.tokens * Hidden) /\ Hidden \in Nat
  BY LayerHeld, SizeIs
<1>3. /\ (2 * QsaQuery) + Hidden <= 16384 /\ QsaKv + Hidden <= 16384
      /\ QsaIndexQuery + Hidden <= 16384 /\ QsaIndex + Hidden <= 16384
      /\ Hidden + QsaQuery <= 16384
  BY SizeIs
<1>4. Suits(Linear(input, Start("projected_query_gate"), 2 * QsaQuery, Hidden))
  BY <1>1, <1>2, <1>3, NthFits
<1>5. Suits(Linear(input, Start("key"), QsaKv, Hidden))
  BY <1>1, <1>2, <1>3, NthFits
<1>6. Suits(Linear(input, Start("value"), QsaKv, Hidden))
  BY <1>1, <1>2, <1>3, NthFits
<1>7. Suits(Linear(input, Start("index_query"), QsaIndexQuery, Hidden))
  BY <1>1, <1>2, <1>3, NthFits
<1>8. Suits(Linear(input, Start("raw_index_key"), QsaIndex, Hidden))
  BY <1>1, <1>2, <1>3, NthFits
<1>9. Suits(Linear(Start("gated_context"), Start("operator_output"), Hidden, QsaQuery))
  BY <1>1, <1>3, StartFits
<1> HIDE DEF Suits
<1>10. \A r \in QsaRequests(t) : Suits(r)
  BY <1>4, <1>5, <1>6, <1>7, <1>8, <1>9 DEF QsaRequests
<1> QED
  BY <1>10 DEF Suits, RequestsFit

LEMMA MoeFits ==
    ASSUME NEW w, Calling(w), Layered(w), w.stage = "moe", NEW t \in Tokens(w)
    PROVE  RequestsFit(w, MoeRequests(t))
<1> DEFINE Suits(r) == RequestFits(w, r, LinearScratch(w))
           input == Nth("moe_input", t, Hidden)
<1>1. /\ Holds(w, "router_logits", Experts)
      /\ Holds(w, "expert_gate", Intermediate) /\ Holds(w, "expert_up", Intermediate)
      /\ Holds(w, "expert_activated", Intermediate) /\ Holds(w, "expert_output", Hidden)
      /\ Holds(w, "shared_gate", Intermediate) /\ Holds(w, "shared_up", Intermediate)
      /\ Holds(w, "shared_activated", Intermediate) /\ Holds(w, "shared_output", Hidden)
  BY MoeHeld
<1>2. Holds(w, "moe_input", w.tokens * Hidden) /\ Hidden \in Nat
  BY LayerHeld, SizeIs
<1>3. /\ Experts + Hidden <= 16384 /\ Intermediate + Hidden <= 16384
      /\ Hidden + Intermediate <= 16384 /\ 1 + Hidden <= 16384
  BY SizeIs
<1>4. Suits(Linear(input, Start("router_logits"), Experts, Hidden))
  BY <1>1, <1>2, <1>3, NthFits
<1>5. Suits(Linear(input, Start("expert_gate"), Intermediate, Hidden))
  BY <1>1, <1>2, <1>3, NthFits
<1>6. Suits(Linear(input, Start("expert_up"), Intermediate, Hidden))
  BY <1>1, <1>2, <1>3, NthFits
<1>7. Suits(Linear(Start("expert_activated"), Start("expert_output"), Hidden, Intermediate))
  BY <1>1, <1>3, StartFits
<1>8. Suits(Linear(input, Start("shared_gate"), Intermediate, Hidden))
  BY <1>1, <1>2, <1>3, NthFits
<1>9. Suits(Linear(input, Start("shared_up"), Intermediate, Hidden))
  BY <1>1, <1>2, <1>3, NthFits
<1>10. Suits(Linear(Start("shared_activated"), Start("shared_output"), Hidden, Intermediate))
  BY <1>1, <1>3, StartFits
<1>11. Suits(Linear(input, Start("shared_scale_logit"), 1, Hidden))
  BY <1>2, <1>3, ScaleFits
<1> HIDE DEF Suits
<1>12. \A r \in MoeRequests(t) : Suits(r)
  BY <1>4, <1>5, <1>6, <1>7, <1>8, <1>9, <1>10, <1>11 DEF MoeRequests
<1> QED
  BY <1>12 DEF Suits, RequestsFit

LEMMA PleFits ==
    ASSUME NEW w, Calling(w), Layered(w), w.stage = "ple", NEW t \in Tokens(w)
    PROVE  RequestsFit(w, PleRequests(t))
<1> DEFINE Suits(r) == RequestFits(w, r, LinearScratch(w))
<1>1. /\ Holds(w, "embedding", PleEmbedding) /\ Holds(w, "key", Width)
      /\ Holds(w, "value", Hidden)
  BY PleHeld
<1>2. Width + PleEmbedding <= 16384 /\ Hidden + PleEmbedding <= 16384
  BY SizeIs
<1>3. Suits(Linear(Start("embedding"), Start("key"), Width, PleEmbedding))
  BY <1>1, <1>2, StartFits
<1>4. Suits(Linear(Start("embedding"), Start("value"), Hidden, PleEmbedding))
  BY <1>1, <1>2, StartFits
<1> HIDE DEF Suits
<1>5. \A r \in PleRequests(t) : Suits(r)
  BY <1>3, <1>4 DEF PleRequests
<1> QED
  BY <1>5 DEF Suits, RequestsFit

LEMMA GrFits ==
    ASSUME NEW w, Calling(w), Layered(w), NEW t \in Tokens(w),
           NEW gates \in {"attention_write_gates", "moe_write_gates"}
    PROVE  RequestsFit(w, GrRequests(t, gates))
<1> DEFINE Suits(r) == RequestFits(w, r, LinearScratch(w))
<1>1. /\ Holds(w, "normalized", Width) /\ Holds(w, "read_gate", Width)
      /\ Holds(w, "rank", Rank)
      /\ Holds(w, gates, w.tokens * Branches) /\ Branches \in Nat
      /\ gates # "normalized"
  BY LayerHeld, SizeIs
<1>2. Rank + Width <= 16384 /\ Width + Rank <= 16384 /\ Branches + Width <= 16384
  BY SizeIs
<1>3. Suits(Linear(Start("normalized"), Start("rank"), Rank, Width))
  BY <1>1, <1>2, StartFits
<1>4. Suits(Linear(Start("rank"), Start("read_gate"), Width, Rank))
  BY <1>1, <1>2, StartFits
<1>5. Suits(Linear(Start("normalized"), Nth(gates, t, Branches), Branches, Width))
  BY <1>1, <1>2, ToNthFits
<1> HIDE DEF Suits
<1>6. \A r \in GrRequests(t, gates) : Suits(r)
  BY <1>3, <1>4, <1>5 DEF GrRequests
<1> QED
  BY <1>6 DEF Suits, RequestsFit

LEMMA LayerFits ==
    ASSUME NEW w, Calling(w), Layered(w)
    PROVE  RequestsFit(w, RequestsOf(w))
<1>1. w.stage \in {"ple", "attention_read", "mixer", "moe_read", "moe"}
  BY StageParts
<1>2. ASSUME NEW S, \A s \in S : RequestsFit(w, s) PROVE RequestsFit(w, UNION S)
  BY <1>2 DEF RequestsFit
<1>3. CASE w.stage = "ple"
  <2>1. RequestsOf(w) = UNION {PleRequests(t) : t \in Tokens(w)}
    BY <1>3 DEF RequestsOf
  <2>2. \A s \in {PleRequests(t) : t \in Tokens(w)} : RequestsFit(w, s)
    BY <1>3, PleFits
  <2> QED
    BY <1>2, <2>1, <2>2
<1>4. CASE w.stage = "attention_read"
  <2>1. RequestsOf(w) = UNION {GrRequests(t, "attention_write_gates") : t \in Tokens(w)}
    BY <1>4 DEF RequestsOf
  <2>2. \A s \in {GrRequests(t, "attention_write_gates") : t \in Tokens(w)} : RequestsFit(w, s)
    BY <1>4, GrFits
  <2> QED
    BY <1>2, <2>1, <2>2
<1>5. CASE w.stage = "moe_read"
  <2>1. RequestsOf(w) = UNION {GrRequests(t, "moe_write_gates") : t \in Tokens(w)}
    BY <1>5 DEF RequestsOf
  <2>2. \A s \in {GrRequests(t, "moe_write_gates") : t \in Tokens(w)} : RequestsFit(w, s)
    BY <1>5, GrFits
  <2> QED
    BY <1>2, <2>1, <2>2
<1>6. CASE w.stage = "moe"
  <2>1. RequestsOf(w) = UNION {MoeRequests(t) : t \in Tokens(w)}
    BY <1>6 DEF RequestsOf
  <2>2. \A s \in {MoeRequests(t) : t \in Tokens(w)} : RequestsFit(w, s)
    BY <1>6, MoeFits
  <2> QED
    BY <1>2, <2>1, <2>2
<1>7. CASE w.stage = "mixer"
  <2> DEFINE asked == {IF Kind(w) = "qsa" THEN QsaRequests(t) ELSE GdnRequests(t) :
                         t \in Tokens(w)}
  <2>1. RequestsOf(w) = UNION asked
    BY <1>7 DEF RequestsOf
  <2>2. \A s \in asked : RequestsFit(w, s)
    BY <1>7, QsaFits, GdnFits
  <2> QED
    BY <1>2, <2>1, <2>2
<1> QED
  BY <1>1, <1>3, <1>4, <1>5, <1>6, <1>7
-----------------------------------------------------------------------------
(* What an operator insists on before it runs. *)

LEMMA VectorsLie ==
    ASSUME NEW w, Calling(w), Layered(w), NEW v \in Vectors(w)
    PROVE  /\ Piece(v) /\ v.bytes >= 0 /\ v.at >= Weights(w).at
           /\ v.at + v.bytes <= Loading(w).at
           /\ v.bytes <= 4 * OperatorOf(w).temporary
<1> DEFINE parts == OperatorOf(w).vectors
           t == OperatorOf(w).temporary
<1>1. Sound(OperatorOf(w))
  BY OperatorIs
<1>2. Listed(parts) /\ t \in Nat /\ \A k \in 1..Len(parts) : parts[k][2] <= t
  BY <1>1 DEF Sound
<1>3. PICK name \in Names(parts) : v = Cut(Weights(w), parts)[name]
  <2>1. Vectors(w) = {Cut(Weights(w), parts)[name] : name \in DOMAIN Cut(Weights(w), parts)}
    BY DEF Vectors
  <2>2. DOMAIN Cut(Weights(w), parts) = Names(parts)
    BY CutNames
  <2> HIDE DEF parts
  <2> QED
    BY <2>1, <2>2
<1>4. Weights(w).at \in Nat
  BY Zones
<1>5. Loading(w).at = Weights(w).at + 4 * Total(parts)
  BY LayerRoom
<1>6. PICK k \in 1..Len(parts) : parts[k][1] = name
  BY <1>2 DEF Names, Listed
<1> HIDE DEF parts, t
<1>7. /\ Piece(v) /\ v.bytes >= 0 /\ v.at >= Weights(w).at
      /\ v.at + v.bytes <= Weights(w).at + 4 * Total(parts)
  BY <1>2, <1>3, <1>4, CutInside
<1>8. parts[k][2] \in Nat /\ Cut(Weights(w), parts)[parts[k][1]].bytes = 4 * parts[k][2]
  BY <1>2, CutAt
<1>9. v.bytes = 4 * parts[k][2] /\ parts[k][2] <= t
  BY <1>2, <1>3, <1>6, <1>8
<1>10. v.bytes <= 4 * t
  BY <1>2, <1>8, <1>9
<1> QED
  BY <1>5, <1>7, <1>10 DEF t

LEMMA LoadsHold ==
    ASSUME NEW w, Calling(w), Layered(w)
    PROVE  Loads(w)
<1> DEFINE op == OperatorOf(w)
           total == Total(op.vectors)
           all == Weights(w).bytes
           t == op.temporary
<1>1. Sound(op)
  BY OperatorIs
<1>2. /\ total \in Nat /\ t \in Nat /\ t <= 65536 /\ op.spare = 65536
      /\ 4 * total + 4 * t + op.spare <= WeightScratch
  BY <1>1, TotalType DEF Sound
<1>3. all \in Nat /\ all >= WeightScratch /\ WeightScratch = 1048576
  BY LayerRoom, SizeIs
<1>4. all >= 4 * Words(op.vectors, Len(op.vectors)) + 4 * t + op.spare
  <2> HIDE DEF op, all, t
  <2>1. all >= 4 * total + 4 * t + op.spare
    <3> HIDE DEF total
    <3> QED
      BY <1>2, <1>3
  <2> QED
    BY <2>1 DEF Total
<1>5. ASSUME NEW v \in Vectors(w) PROVE VectorLoads(w, v)
  <2>1. /\ Piece(v) /\ v.bytes >= 0 /\ v.at >= Weights(w).at
        /\ v.at + v.bytes <= Loading(w).at /\ v.bytes <= 4 * t
    BY VectorsLie
  <2>2. Loading(w).at \in Nat
    BY Zones
  <2>3. ~Overlap(v, [at |-> Loading(w).at, bytes |-> v.bytes])
    BY <2>1, <2>2 DEF Overlap, Piece
  <2>4. v.bytes <= 4 * 65536
    <3> HIDE DEF t
    <3> QED
      BY <1>2, <2>1 DEF Piece
  <2> QED
    BY <2>1, <2>3, <2>4 DEF VectorLoads
<1> QED
  BY <1>4, <1>5, Zenon DEF Loads

\* A buffer of the layer is before those of the operator.
LEMMA OwnPlace ==
    ASSUME NEW w, Calling(w), Layered(w), NEW name \in LayerNames, NEW words,
           Holds(w, name, words)
    PROVE  LET place == Place(w, Start(name), words)
           IN  /\ Piece(place) /\ Piece(Buffers(w)[name]) /\ Within(place, Buffers(w)[name])
               /\ place.at >= LayerScratch(w).at
               /\ place.at + place.bytes <= SubScratch(w).at
<1> DEFINE b == Buffers(w)[name]
           place == Place(w, <<name, 0>>, words)
           room == LinearScratch(w)
<1>1. Held(w, name, words, room) /\ words \in Nat
  BY HoldsType
<1>2. 0 + words <= words /\ 0 \in Nat
  BY <1>1
<1>3. Piece(place) /\ Within(place, b)
  BY <1>1, <1>2, PlaceIn
<1>4. name \in OwnNames(w) \ OperatorNames(w)
  BY NamesDiffer DEF Foreign
<1>5. Piece(b) /\ b.at >= LayerScratch(w).at /\ b.at + b.bytes <= SubScratch(w).at
  BY <1>4, LayerWithin
<1>6. LayerScratch(w).at \in Nat /\ SubScratch(w).at \in Nat
  BY Zones
<1> HIDE DEF b, place
<1>7. place.at >= LayerScratch(w).at /\ place.at + place.bytes <= SubScratch(w).at
  BY <1>3, <1>5, <1>6 DEF Piece, Within
<1> QED
  BY <1>3, <1>5, <1>7 DEF Start, b, place

\* The input that the executor lends is before all of them.
LEMMA LentPlace ==
    ASSUME NEW w, Calling(w), Layered(w)
    PROVE  LET place == Place(w, Start("input"), w.tokens * Width)
           IN  Piece(place) /\ place.at + place.bytes <= LayerScratch(w).at
<1> DEFINE b == Buffers(w)["input"]
           place == Place(w, Start("input"), w.tokens * Width)
           words == w.tokens * Width
<1>1. "input" \notin OperatorNames(w) \cup OwnNames(w)
  BY NamesDiffer DEF Foreign
<1>2. Piece(b) /\ b.bytes = 4 * words /\ b.at + b.bytes <= LayerScratch(w).at
  BY <1>1, LentWithin
<1>3. place.at = b.at + 4 * 0 /\ place.bytes = 4 * words
  BY DEF Place, Start
<1>4. words \in Nat /\ LayerScratch(w).at \in Nat
  BY Zones, SizeIs DEF Calling
<1> HIDE DEF b, place, words
<1>5. Piece(place) /\ place.at + place.bytes <= LayerScratch(w).at
  BY <1>2, <1>3, <1>4 DEF Piece
<1> QED
  BY <1>5 DEF place

LEMMA BeforeIsApart ==
    ASSUME NEW a, NEW b, Piece(a), Piece(b), a.at + a.bytes <= b.at
    PROVE  ~Overlap(a, b) /\ ~Overlap(b, a)
BY DEF Piece, Overlap

\* Input, output and buffers of an operator of its own are apart.
LEMMA OwnApart ==
    ASSUME NEW w, Calling(w), Layered(w), NEW x \in LayerNames, NEW xs, NEW y \in LayerNames,
           NEW ys, Holds(w, x, xs), Holds(w, y, ys), x # y
    PROVE  LET input == Place(w, Start(x), xs)
               output == Place(w, Start(y), ys)
           IN  /\ ~Overlap(input, output) /\ ~Overlap(input, SubScratch(w))
               /\ ~Overlap(output, SubScratch(w))
<1> DEFINE input == Place(w, Start(x), xs)
           output == Place(w, Start(y), ys)
           a == Buffers(w)[x]
           b == Buffers(w)[y]
           sub == SubScratch(w)
<1>1. /\ Piece(input) /\ Piece(a) /\ Within(input, a)
      /\ input.at + input.bytes <= sub.at
  BY OwnPlace
<1>2. /\ Piece(output) /\ Piece(b) /\ Within(output, b)
      /\ output.at + output.bytes <= sub.at
  BY OwnPlace
<1>3. Apart(a, b)
  <2>1. x \in OperatorNames(w) \cup OwnNames(w) /\ y \in OperatorNames(w) \cup OwnNames(w)
    BY HoldsType
  <2> QED
    BY <2>1, AllParted DEF Parted
<1>4. Piece(sub)
  BY Zones DEF Piece
<1> HIDE DEF input, output, a, b, sub
<1>5. ~Overlap(input, output)
  BY <1>1, <1>2, <1>3, PartsOfApart
<1>6. ~Overlap(input, sub) /\ ~Overlap(output, sub)
  BY <1>1, <1>2, <1>4, BeforeIsApart
<1> QED
  BY <1>5, <1>6 DEF input, output, sub
-----------------------------------------------------------------------------
(* An operator is admitted. *)

LEMMA OperatorAdmits ==
    ASSUME NEW w, Calling(w), Layered(w)
    PROVE  OperatorAdmitted(w)
<1> DEFINE op == OperatorOf(w)
           n == w.tokens
           input == Place(w, Start(op.input[1]), op.input[2])
           output == Place(w, Start(op.output[1]), op.output[2])
           lent == [SubScratch(w) EXCEPT !.bytes = IF w.stage = "ple" THEN PleBytes ELSE @]
<1>1. Loads(w)
  BY LoadsHold
<1>2. SubScratch(w).bytes >= op.bytes
  <2>1. op.bytes <= SubScratch(w).bytes /\ SubScratch(w).bytes \in Nat
    BY LayerRoom
  <2>2. Sound(op)
    BY OperatorIs
  <2>3. op.bytes \in Nat
    BY <2>2 DEF Sound
  <2> HIDE DEF op
  <2> QED
    BY <2>1, <2>3
<1>3. /\ lent.at = SubScratch(w).at
      /\ lent.bytes = IF w.stage = "ple" THEN PleBytes ELSE SubScratch(w).bytes
      /\ w.stage # "ple" => lent = SubScratch(w)
  BY DEF SubScratch, Behind
<1>4. w.stage \in {"ple", "attention_read", "mixer", "moe_read", "moe"}
  BY StageParts
<1>5. CASE w.stage \in {"attention_read", "moe_read"}
  <2>1. op = GrRead(n) /\ GrRead(n).parts = << >>
    BY <1>5, StageParts
  <2>2. op.parts = << >>
    BY ONLY <2>1
  <2> HIDE DEF op, input, output, lent
  <2> QED
    BY <1>1, <1>2, <1>5, <2>2 DEF OperatorAdmitted, op
<1>6. CASE w.stage \in {"mixer", "moe"}
  <2>1. /\ w.stage = "mixer" => op = Gdn(n) \/ op = Qsa(n)
        /\ w.stage = "moe" => op = Moe(n)
    BY StageParts
  <2>2. /\ Gdn(n).input = <<"mixed", n * Hidden>> /\ Gdn(n).output = <<"block_output", n * Hidden>>
        /\ Qsa(n).input = <<"mixed", n * Hidden>> /\ Qsa(n).output = <<"block_output", n * Hidden>>
        /\ Moe(n).input = <<"moe_input", n * Hidden>>
        /\ Moe(n).output = <<"moe_output", n * Hidden>>
    BY DEF Gdn, Qsa, Moe, Operator
  <2>3. PICK x \in LayerNames, y \in LayerNames :
               /\ op.input = <<x, n * Hidden>> /\ op.output = <<y, n * Hidden>> /\ x # y
               /\ Holds(w, x, n * Hidden) /\ Holds(w, y, n * Hidden)
    <3>1. /\ Holds(w, "mixed", n * Hidden) /\ Holds(w, "block_output", n * Hidden)
          /\ Holds(w, "moe_input", n * Hidden) /\ Holds(w, "moe_output", n * Hidden)
      BY LayerHeld
    <3>2. /\ "mixed" \in LayerNames /\ "block_output" \in LayerNames
          /\ "moe_input" \in LayerNames /\ "moe_output" \in LayerNames
      BY DEF LayerNames
    <3> HIDE DEF op
    <3>3. CASE w.stage = "mixer"
      <4>1. op.input = <<"mixed", n * Hidden>> /\ op.output = <<"block_output", n * Hidden>>
        BY <2>1, <2>2, <3>3
      <4> QED
        BY <3>1, <3>2, <4>1
    <3>4. CASE w.stage = "moe"
      <4>1. op.input = <<"moe_input", n * Hidden>> /\ op.output = <<"moe_output", n * Hidden>>
        BY <2>1, <2>2, <3>4
      <4> QED
        BY <3>1, <3>2, <4>1
    <3> QED
      BY <1>6, <3>3, <3>4
  <2>4. /\ input = Place(w, Start(x), n * Hidden) /\ output = Place(w, Start(y), n * Hidden)
    BY <2>3
  <2>5. /\ ~Overlap(input, output) /\ ~Overlap(input, lent) /\ ~Overlap(output, lent)
    BY <1>3, <1>6, <2>3, <2>4, OwnApart
  <2>6. w.stage # "ple"
    BY <1>6
  <2> QED
    BY <1>1, <1>2, <2>5, <2>6, Zenon DEF OperatorAdmitted
<1>7. CASE w.stage = "ple"
  <2>1. op = Ple(n)
    BY <1>7, StageParts
  <2>2. /\ op.input = <<"input", n * Width>> /\ op.output = <<"ple_output", n * Width>>
        /\ op.bytes = PleBytes
    BY <2>1 DEF Ple, Operator
  <2>3. /\ input = Place(w, Start("input"), n * Width)
        /\ output = Place(w, Start("ple_output"), n * Width)
    BY <2>2
  <2>4. Piece(input) /\ input.at + input.bytes <= LayerScratch(w).at
    BY <2>3, LentPlace
  <2>5. /\ Piece(output) /\ output.at >= LayerScratch(w).at
        /\ output.at + output.bytes <= SubScratch(w).at
    BY <2>3, LayerHeld, OwnPlace DEF LayerNames
  <2>6. Sound(op)
    BY OperatorIs
  <2>7. PleBytes \in Nat /\ PleBytes <= SubScratch(w).bytes
    BY <1>2, <2>2, <2>6, Zones DEF Sound
  <2>8. /\ Base \in Nat /\ Base >= 104857600
        /\ LayerScratch(w).at \in Nat /\ Base <= LayerScratch(w).at
        /\ SubScratch(w).at \in Nat /\ LayerScratch(w).at <= SubScratch(w).at
        /\ SubScratch(w).bytes \in Nat
        /\ Weights(w).at = SubScratch(w).at + SubScratch(w).bytes /\ Weights(w).at \in Nat
    BY Zones
  <2>9. /\ Piece(lent) /\ lent.at = SubScratch(w).at
        /\ lent.at + lent.bytes <= Weights(w).at
    <3>1. lent.at = SubScratch(w).at /\ lent.bytes = PleBytes
      BY <1>3, <1>7
    <3> HIDE DEF lent
    <3> QED
      BY <2>7, <2>8, <3>1 DEF Piece
  <2> HIDE DEF input, output, lent, op
  <2>10. ~Overlap(input, output) /\ ~Overlap(input, lent) /\ ~Overlap(output, lent)
    <3>1. input.at + input.bytes <= output.at /\ input.at + input.bytes <= lent.at
          /\ output.at + output.bytes <= lent.at
      BY <2>4, <2>5, <2>8, <2>9 DEF Piece
    <3> QED
      BY <2>4, <2>5, <2>9, <3>1, BeforeIsApart
  <2>11. ASSUME NEW array \in NullArrays \cup Vectors(w)
         PROVE  ~Overlap(output, array) /\ ~Overlap(lent, array)
    <3>1. CASE array \in NullArrays
      <4>1. /\ array.at = 0 /\ Piece(array)
            /\ array.bytes \in {4 * Width * PleEmbedding, 4 * Hidden * PleEmbedding}
        BY <3>1, SizeIs DEF NullArrays, Piece
      <4>2. 4 * Width * PleEmbedding = 104857600 /\ 4 * Hidden * PleEmbedding <= 104857600
        BY SizeIs
      <4>3. array.at + array.bytes <= 104857600
        BY <4>1, <4>2 DEF Piece
      <4>4. array.at + array.bytes <= output.at /\ array.at + array.bytes <= lent.at
        BY <2>5, <2>8, <2>9, <4>1, <4>3 DEF Piece
      <4> QED
        BY <2>5, <2>9, <4>1, <4>4, BeforeIsApart
    <3>2. CASE array \in Vectors(w)
      <4>1. Piece(array) /\ array.at >= Weights(w).at
        BY <3>2, VectorsLie
      <4>2. output.at + output.bytes <= array.at /\ lent.at + lent.bytes <= array.at
        BY <2>5, <2>8, <2>9, <4>1 DEF Piece
      <4> QED
        BY <2>5, <2>9, <4>1, <4>2, BeforeIsApart
    <3> QED
      BY <2>11, <3>1, <3>2
  <2> QED
    BY <1>1, <1>2, <2>10, <2>11, Zenon DEF OperatorAdmitted, input, output, lent, op
<1> QED
  BY <1>4, <1>5, <1>6, <1>7
-----------------------------------------------------------------------------
(* What a stage writes of its own. *)

LEMMA HoldsWrite ==
    ASSUME NEW w, NEW name, NEW words, Holds(w, name, words), NEW count \in Nat, count <= words
    PROVE  4 * count <= Buffers(w)[name].bytes
<1> DEFINE bytes == Buffers(w)[name].bytes
<1>1. words \in Nat /\ bytes = 4 * words
  BY DEF Holds, Held
<1> HIDE DEF bytes
<1> QED
  BY <1>1 DEF bytes

\* A position of the context has room in the buffers of the past.
LEMMA PastHasRoom ==
    ASSUME NEW p \in Nat, p < ContextCapacity
    PROVE  LET complete == (p + 1) \div BlockSize
               selected == BlockSize * (IF complete < BlockTopK THEN complete ELSE BlockTopK)
                             + ((p + 1) % BlockSize)
           IN  /\ complete \in Nat /\ complete <= QsaBlocks
               /\ selected \in Nat /\ selected <= SelectedCapacity
<1> DEFINE complete == (p + 1) \div BlockSize
           some == IF complete < BlockTopK THEN complete ELSE BlockTopK
           rest == (p + 1) % BlockSize
<1>1. ContextCapacity \in Nat /\ QsaBlocks \in Nat
  BY BlocksType
<1>2. p + 1 \in Nat /\ p + 1 <= ContextCapacity
  BY <1>1
<1>3. complete <= QsaBlocks
  BY <1>2, BlocksType
<1>4. complete \in Nat /\ rest \in 0..3
  BY <1>2, SizeIs
<1>5. BlockSize = 4 /\ BlockTopK = 512 /\ SelectedCapacity = 2051
  BY SizeIs
<1> HIDE DEF complete, rest
<1>6. some \in 0..512
  BY <1>4, <1>5
<1> HIDE DEF some
<1>7. (BlockSize * some) + rest \in Nat /\ (BlockSize * some) + rest <= SelectedCapacity
  BY <1>4, <1>5, <1>6
<1> QED
  BY <1>3, <1>4, <1>7 DEF complete, some, rest

\* What a stage writes of its own stays in its buffers.
WritesFit(w, writes) == \A write \in writes : 4 * write[2] <= Buffers(w)[write[1]].bytes

LEMMA QsaWritesFit ==
    ASSUME NEW w, Calling(w), Layered(w), w.stage = "mixer", Kind(w) = "qsa",
           NEW t \in Tokens(w)
    PROVE  WritesFit(w, QsaWrites(t, w.position + t))
<1> DEFINE p == w.position + t
           n == w.tokens
           complete == (p + 1) \div BlockSize
           selected == BlockSize * (IF complete < BlockTopK THEN complete ELSE BlockTopK)
                         + ((p + 1) % BlockSize)
           Suits(name, count) == 4 * count <= Buffers(w)[name].bytes
<1>1. n \in Nat /\ t \in 0..(n - 1) /\ p \in Nat /\ p < ContextCapacity
  BY BlocksType DEF Calling, Tokens
<1>2. /\ complete \in Nat /\ complete <= QsaBlocks
      /\ selected \in Nat /\ selected <= SelectedCapacity
  BY <1>1, PastHasRoom
<1>3. /\ QsaBlocks \in Nat /\ QsaIndex = 128 /\ QsaHeads = 24 /\ SelectedCapacity = 2051
      /\ QsaKv = 512 /\ Hidden = 2560
  BY BlocksType, SizeIs
<1> HIDE DEF complete, selected, n
<1>4. complete * QsaIndex \in Nat /\ complete * QsaIndex <= QsaBlocks * QsaIndex
  BY <1>2, <1>3
<1>5. QsaHeads * selected \in Nat /\ QsaHeads * selected <= QsaHeads * SelectedCapacity
  BY <1>2, <1>3
<1>6. \A width \in Nat : (t + 1) * width \in Nat /\ (t + 1) * width <= n * width
  <2> SUFFICES ASSUME NEW width \in Nat
               PROVE  (t + 1) * width \in Nat /\ (t + 1) * width <= n * width
    OBVIOUS
  <2>1. (t + 1) * width <= n * width
    BY <1>1, NthRow
  <2>2. (t + 1) * width \in Nat
    BY <1>1
  <2> QED
    BY <2>1, <2>2
<1>7. /\ (t + 1) * QsaKv \in Nat /\ (t + 1) * QsaKv <= n * QsaKv
      /\ (t + 1) * QsaIndex \in Nat /\ (t + 1) * QsaIndex <= n * QsaIndex
      /\ (t + 1) * Hidden \in Nat /\ (t + 1) * Hidden <= n * Hidden
  <2>1. QsaKv \in Nat /\ QsaIndex \in Nat /\ Hidden \in Nat
    BY <1>3
  <2> QED
    BY <1>6, <2>1
<1>8. /\ Holds(w, "pending_key", n * QsaKv) /\ Holds(w, "pending_value", n * QsaKv)
      /\ Holds(w, "pending_raw", n * QsaIndex) /\ Holds(w, "staged_output", n * Hidden)
      /\ Holds(w, "block_keys", QsaBlocks * QsaIndex)
      /\ Holds(w, "candidate_scores", QsaBlocks) /\ Holds(w, "candidate_ids", QsaBlocks)
      /\ Holds(w, "selected_tokens", SelectedCapacity)
      /\ Holds(w, "attention_logits", QsaHeads * SelectedCapacity)
      /\ Holds(w, "attention_probabilities", QsaHeads * SelectedCapacity)
      /\ Holds(w, "block_output", n * Hidden)
  BY QsaHeld, LayerHeld DEF n
<1>9. Suits("block_keys", complete * QsaIndex)
  BY <1>4, <1>8, HoldsWrite
<1>10. Suits("candidate_scores", complete) /\ Suits("candidate_ids", complete)
  BY <1>2, <1>8, HoldsWrite
<1>11. Suits("selected_tokens", selected)
  BY <1>2, <1>8, HoldsWrite
<1>12. Suits("attention_logits", QsaHeads * selected)
       /\ Suits("attention_probabilities", QsaHeads * selected)
  BY <1>5, <1>8, HoldsWrite
<1>13. Suits("pending_key", (t + 1) * QsaKv) /\ Suits("pending_value", (t + 1) * QsaKv)
  BY <1>7, <1>8, HoldsWrite
<1>14. Suits("pending_raw", (t + 1) * QsaIndex)
  BY <1>7, <1>8, HoldsWrite
<1>15. Suits("staged_output", (t + 1) * Hidden) /\ Suits("block_output", (t + 1) * Hidden)
  BY <1>7, <1>8, HoldsWrite
<1> DEFINE writes == { <<"block_keys", complete * QsaIndex>>, <<"candidate_scores", complete>>,
          <<"candidate_ids", complete>>, <<"selected_tokens", selected>>,
          <<"attention_logits", QsaHeads * selected>>,
          <<"attention_probabilities", QsaHeads * selected>>,
          <<"pending_key", (t + 1) * QsaKv>>, <<"pending_value", (t + 1) * QsaKv>>,
          <<"pending_raw", (t + 1) * QsaIndex>>, <<"staged_output", (t + 1) * Hidden>>,
          <<"block_output", (t + 1) * Hidden>> }
<1>16. QsaWrites(t, p) = writes
  BY Zenon DEF QsaWrites, complete, selected
<1> HIDE DEF Suits, p
<1>17. \A write \in writes : Suits(write[1], write[2])
  BY <1>9, <1>10, <1>11, <1>12, <1>13, <1>14, <1>15
<1> HIDE DEF writes
<1>18. \A write \in QsaWrites(t, p) : Suits(write[1], write[2])
  BY <1>16, <1>17
<1> QED
  BY <1>18 DEF WritesFit, Suits, p

LEMMA PleWritesFit ==
    ASSUME NEW w, Calling(w), Layered(w), w.stage = "ple", NEW t \in Tokens(w)
    PROVE  WritesFit(w, PleWrites(t))
<1> DEFINE n == w.tokens
           Suits(name, count) == 4 * count <= Buffers(w)[name].bytes
<1>1. n \in Nat /\ t \in 0..(n - 1) /\ Kind(w) = "ple"
  BY DEF Calling, Layered, Tokens
<1>2. /\ PleHeads = 16 /\ IntentWords = 16 /\ PleRow = 160 /\ PleEmbedding = 2560
      /\ Width = 10240
  BY SizeIs
<1>3. /\ Holds(w, "intents", n * PleHeads * IntentWords) /\ Holds(w, "row", PleRow)
      /\ Holds(w, "embedding", PleEmbedding) /\ Holds(w, "ple_output", n * Width)
  BY <1>1, PleHeld, LayerHeld
<1> HIDE DEF n
<1>4. (t + 1) * PleHeads * IntentWords \in Nat
      /\ (t + 1) * PleHeads * IntentWords <= n * PleHeads * IntentWords
  BY <1>1, <1>2
<1>5. (t + 1) * Width \in Nat /\ (t + 1) * Width <= n * Width
  BY <1>1, <1>2
<1>6. PleRow \in Nat /\ PleRow <= PleRow /\ PleHeads * PleRow \in Nat
      /\ PleHeads * PleRow <= PleEmbedding
  BY <1>2
<1>7. Suits("intents", (t + 1) * PleHeads * IntentWords)
  BY <1>3, <1>4, HoldsWrite
<1>8. Suits("row", PleRow) /\ Suits("embedding", PleHeads * PleRow)
  BY <1>3, <1>6, HoldsWrite
<1>9. Suits("ple_output", (t + 1) * Width)
  BY <1>3, <1>5, HoldsWrite
<1> HIDE DEF Suits
<1>10. \A write \in PleWrites(t) : Suits(write[1], write[2])
  BY <1>7, <1>8, <1>9 DEF PleWrites
<1> QED
  BY <1>10 DEF WritesFit, Suits

LEMMA LayerWritesFit ==
    ASSUME NEW w, Calling(w), Layered(w)
    PROVE  WritesFit(w, WritesOf(w))
<1>1. CASE w.stage = "ple"
  <2>1. WritesOf(w) = UNION {PleWrites(t) : t \in Tokens(w)}
    BY <1>1 DEF WritesOf
  <2> QED
    BY <1>1, <2>1, PleWritesFit DEF WritesFit
<1>2. CASE w.stage = "mixer" /\ Kind(w) = "qsa"
  <2>1. WritesOf(w) = UNION {QsaWrites(t, w.position + t) : t \in Tokens(w)}
    BY <1>2 DEF WritesOf
  <2> QED
    BY <1>2, <2>1, QsaWritesFit DEF WritesFit
<1>3. CASE ~(w.stage = "ple") /\ ~(w.stage = "mixer" /\ Kind(w) = "qsa")
  <2>1. WritesOf(w) = {}
    BY <1>3 DEF WritesOf
  <2> QED
    BY <2>1 DEF WritesFit
<1> QED
  BY <1>1, <1>2, <1>3

\* The intents of a PLE layer begin at a multiple of eight.
LEMMA IntentsAlign ==
    ASSUME NEW w, Calling(w), Layered(w), Kind(w) = "ple"
    PROVE  Buffers(w)["intents"].at % 8 = 0
<1> DEFINE n == w.tokens
           p == LayerParts(Kind(w), n)
           own == Total(ExecParts(n))
           before == Words(p, 12)
<1>1. n \in Nat
  BY DEF Calling
<1>2. own = (20480 * n) + 556160
  <2>1. own = 2 * (n * Width) + 2 * Hidden + 5 * Width + 2 * Rank + Vocabulary + ProviderWords
    BY <1>1, ExecTotal
  <2> HIDE DEF own
  <2> QED
    BY <1>1, <2>1, SizeIs
<1>3. Base \in Nat /\ Base % 16 = 0
  BY ScratchAssumption
<1>4. LayerScratch(w).at = Base + 4 * own
  BY CallRoom
<1>5. Listed(p) /\ Len(p) = 13
  BY <1>1, LayerListed, LayerPartsAre
<1>6. p[13][1] = "intents" /\ p[13][2] = n * 256
  <2>1. p[13] = <<"intents", n * PleHeads * IntentWords>>
    BY <1>1, LayerPartsAre
  <2>2. n * PleHeads * IntentWords = n * 256
    BY <1>1, SizeIs
  <2> HIDE DEF p
  <2> QED
    BY <2>1, <2>2
<1>7. Words(p, 13) = before + n * 256 /\ before \in Nat
  <2> HIDE DEF p, before
  <2>1. \A k \in 1..13 : Words(p, k) = Words(p, k - 1) + p[k][2]
    BY <1>5, WordsStep
  <2>2. \A k \in 0..13 : Words(p, k) \in Nat
    BY <1>5, WordsGrow
  <2>3. Words(p, 13) = Words(p, 12) + p[13][2] /\ Words(p, 12) \in Nat
    BY <2>1, <2>2
  <2> QED
    BY <1>6, <2>3 DEF before
<1>8. 4 * Words(p, 13) = ((163872 * n) + 83200) + 1024 * n
  <2>1. 4 * Total(p) = 4 * (n * (3 * Width + 4 * Hidden + 2 * Branches) + 2 * Width + Rank)
                         + n * PleHeads * (4 * IntentWords)
    BY <1>1, LayerTotal
  <2>2. /\ 4 * (n * (3 * Width + 4 * Hidden + 2 * Branches) + 2 * Width + Rank)
             = (163872 * n) + 83200
        /\ n * PleHeads * (4 * IntentWords) = 1024 * n
    BY <1>1, SizeIs
  <2>3. Total(p) = Words(p, 13)
    BY <1>5 DEF Total
  <2> HIDE DEF p
  <2> QED
    BY <2>1, <2>2, <2>3
<1> HIDE DEF before, p, own
<1>9. before = (40968 * n) + 20800
  BY <1>1, <1>7, <1>8
<1>10. Buffers(w)["intents"].at = LayerScratch(w).at + 4 * before
  <2>1. "intents" \in OwnNames(w) \ OperatorNames(w)
    BY NamesDiffer DEF Foreign
  <2>2. Buffers(w)["intents"] = Cut(LayerScratch(w), p)["intents"]
    BY <2>1, LayerWithin DEF p
  <2>3. \A k \in 1..13 : Cut(LayerScratch(w), p)[p[k][1]]
           = [at |-> LayerScratch(w).at + 4 * Words(p, k - 1), bytes |-> 4 * p[k][2]]
    BY <1>5, CutIs
  <2>4. Cut(LayerScratch(w), p)[p[13][1]].at = LayerScratch(w).at + 4 * Words(p, 12)
    BY <2>3
  <2> QED
    BY <1>6, <2>2, <2>4 DEF before
<1>11. Buffers(w)["intents"].at = Base + 8 * ((30724 * n) + 288480)
  BY <1>1, <1>2, <1>3, <1>4, <1>9, <1>10
<1>12. PICK q \in Nat : Base = 16 * q
  BY <1>3
<1>13. Buffers(w)["intents"].at = 8 * ((2 * q) + ((30724 * n) + 288480))
  BY <1>1, <1>11, <1>12
<1>14. \A m \in Nat : (8 * m) % 8 = 0
  OBVIOUS
<1>15. (2 * q) + ((30724 * n) + 288480) \in Nat
  BY <1>1, <1>12
<1> QED
  BY <1>13, <1>14, <1>15
-----------------------------------------------------------------------------
(* The executor's own stages. *)

OfExecutor(w) == w.stage \in {"embed", "final_mix", "head"}

ProviderRoom(w) == Buffers(w)["provider_scratch"]

LEMMA ExecBuffersAre ==
    ASSUME NEW w, OfExecutor(w)
    PROVE  Buffers(w) = Cut(Block(w), ExecParts(w.tokens))
<1>1. ~InLayer(w)
  BY DEF OfExecutor, InLayer
<1> QED
  BY <1>1 DEF Buffers, ExecBuffers

LEMMA ExecHolds ==
    ASSUME NEW w, Calling(w), OfExecutor(w)
    PROVE  LET p == ExecParts(w.tokens)
               room == ProviderRoom(w)
           IN  /\ Piece(room) /\ room.bytes = 4 * ProviderWords
               /\ \A k \in 1..12 : Held(w, p[k][1], p[k][2], room)
               /\ \A x, y \in Names(p) : x # y => Parted(w, x, y)
<1> DEFINE p == ExecParts(w.tokens)
           room == ProviderRoom(w)
           c(x) == Cut(Block(w), p)[x]
<1>1. w.tokens \in Nat /\ Base \in Nat
  BY ScratchAssumption DEF Calling
<1>2. Listed(p)
  BY <1>1, ExecListed
<1>3. Len(p) = 13
  BY <1>1, ExecListed
<1>4. Block(w).at \in Nat
  BY <1>1 DEF Block
<1>5. \A x : Buffers(w)[x] = c(x)
  BY ExecBuffersAre
<1>6. p[13][1] = "provider_scratch" /\ p[13][2] = ProviderWords
  BY DEF ExecParts
<1> HIDE DEF p
<1>7. \A k \in 1..Len(p) : /\ p[k][1] \in Names(p) /\ p[k][2] \in Nat
                           /\ c(p[k][1]).bytes = 4 * p[k][2]
  BY <1>2, CutAt
<1>8. \A x \in Names(p) : Piece(c(x))
  BY <1>2, <1>4, CutInside
<1>9. \A x, y \in Names(p) : x # y => Apart(c(x), c(y))
  BY <1>2, <1>4, CutApart
<1> HIDE DEF c
<1>10. \A k \in 1..13 : /\ p[k][1] \in Names(p) /\ p[k][2] \in Nat
                        /\ c(p[k][1]).bytes = 4 * p[k][2]
  BY <1>3, <1>7
<1>11. room = c(p[13][1]) /\ p[13][1] \in Names(p) /\ c(p[13][1]).bytes = 4 * p[13][2]
  BY <1>5, <1>6, <1>10 DEF ProviderRoom
<1>12. Piece(room) /\ room.bytes = 4 * ProviderWords
  BY <1>6, <1>8, <1>11
<1>13. \A k \in 1..12 : p[k][1] # p[13][1]
  BY <1>2, <1>3 DEF Listed
<1>14. ASSUME NEW k \in 1..12 PROVE Held(w, p[k][1], p[k][2], room)
  <2>1. k \in 1..13
    OBVIOUS
  <2>2. /\ p[k][1] \in Names(p) /\ p[k][2] \in Nat /\ c(p[k][1]).bytes = 4 * p[k][2]
    BY <1>10, <2>1
  <2>3. Piece(c(p[k][1])) /\ Apart(c(p[k][1]), room)
    BY <1>8, <1>9, <1>11, <1>13, <2>2
  <2>4. Buffers(w)[p[k][1]] = c(p[k][1])
    BY <1>5
  <2> HIDE DEF room
  <2> QED
    BY <2>2, <2>3, <2>4 DEF Held
<1>15. \A x, y \in Names(p) : x # y => Parted(w, x, y)
  BY <1>5, <1>9 DEF Parted
<1> QED
  BY <1>12, <1>14, <1>15 DEF p

LEMMA ExecHeld ==
    ASSUME NEW w, Calling(w), OfExecutor(w)
    PROVE  LET room == ProviderRoom(w)
           IN  /\ Held(w, "embedding", Hidden, room) /\ Held(w, "norm_delta", Width, room)
               /\ Held(w, "normalized", Width, room) /\ Held(w, "low", Rank, room)
               /\ Held(w, "gate_logits", Width, room) /\ Held(w, "hidden", Hidden, room)
               /\ Held(w, "logits", Vocabulary, room)
               /\ Parted(w, "normalized", "low") /\ Parted(w, "low", "gate_logits")
               /\ Parted(w, "hidden", "logits")
<1> DEFINE p == ExecParts(w.tokens)
           room == ProviderRoom(w)
<1>1. /\ \A k \in 1..12 : Held(w, p[k][1], p[k][2], room)
      /\ \A x, y \in Names(p) : x # y => Parted(w, x, y)
  BY ExecHolds
<1>2. /\ p[3] = <<"embedding", Hidden>> /\ p[4] = <<"norm_delta", Width>>
      /\ p[5] = <<"normalized", Width>> /\ p[6] = <<"low", Rank>>
      /\ p[8] = <<"gate_logits", Width>> /\ p[11] = <<"hidden", Hidden>>
      /\ p[12] = <<"logits", Vocabulary>>
  BY DEF ExecParts
<1>3. {"normalized", "low", "gate_logits", "hidden", "logits"} \subseteq Names(p)
  <2>1. w.tokens \in Nat
    BY DEF Calling
  <2> QED
    BY <2>1, ExecNames
<1> HIDE DEF p, room
<1>4. Held(w, p[3][1], p[3][2], room) /\ Held(w, p[4][1], p[4][2], room)
      /\ Held(w, p[5][1], p[5][2], room) /\ Held(w, p[6][1], p[6][2], room)
  BY <1>1
<1>5. Held(w, p[8][1], p[8][2], room) /\ Held(w, p[11][1], p[11][2], room)
      /\ Held(w, p[12][1], p[12][2], room)
  BY <1>1
<1>6. Held(w, "embedding", Hidden, room) /\ Held(w, "norm_delta", Width, room)
  BY ONLY <1>2, <1>4
<1>7. Held(w, "normalized", Width, room) /\ Held(w, "low", Rank, room)
  BY ONLY <1>2, <1>4
<1>8. Held(w, "gate_logits", Width, room) /\ Held(w, "hidden", Hidden, room)
      /\ Held(w, "logits", Vocabulary, room)
  BY ONLY <1>2, <1>5
<1>9. Parted(w, "normalized", "low") /\ Parted(w, "low", "gate_logits")
      /\ Parted(w, "hidden", "logits")
  BY <1>1, <1>3
<1> QED
  BY <1>6, <1>7, <1>8, <1>9 DEF room

\* The executor's requests.
LEMMA ExecFits ==
    ASSUME NEW w, Calling(w), OfExecutor(w)
    PROVE  \A r \in RequestsOf(w) : RequestFits(w, r, ProviderRoom(w))
<1> DEFINE room == ProviderRoom(w)
           Suits(r) == RequestFits(w, r, room)
<1>1. Piece(room) /\ room.bytes = 4 * ProviderWords
  BY ExecHolds
<1>2. /\ Held(w, "embedding", Hidden, room) /\ Held(w, "norm_delta", Width, room)
      /\ Held(w, "normalized", Width, room) /\ Held(w, "low", Rank, room)
      /\ Held(w, "gate_logits", Width, room) /\ Held(w, "hidden", Hidden, room)
      /\ Held(w, "logits", Vocabulary, room)
      /\ Parted(w, "normalized", "low") /\ Parted(w, "low", "gate_logits")
      /\ Parted(w, "hidden", "logits")
  BY ExecHeld
<1>3. /\ Hidden \in Nat /\ Width \in Nat /\ Rank \in Nat /\ Vocabulary \in Nat
      /\ ProviderWords = Vocabulary + Hidden
      /\ Width + Rank <= ProviderWords /\ Rank + Width <= ProviderWords
      /\ Width <= ProviderWords /\ Hidden <= ProviderWords
  BY SizeIs
<1> HIDE DEF room
<1>4. Suits(Fetch(Start("embedding"), Hidden))
  BY <1>1, <1>2, <1>3, FetchFits
<1>5. Suits(Fetch(Start("norm_delta"), Width))
  BY <1>1, <1>2, <1>3, FetchFits
<1>6. ASSUME NEW x, NEW xs \in Nat, NEW y, NEW ys \in Nat, Held(w, x, xs, room),
             Held(w, y, ys, room), Parted(w, x, y), ys + xs <= ProviderWords
      PROVE  Suits(Linear(Start(x), Start(y), ys, xs))
  <2>1. \A a, c, b, r \in Nat :
          a + c <= xs /\ b + r <= ys /\ 4 * (r + c) <= room.bytes
            => RequestFits(w, Linear(<<x, a>>, <<y, b>>, r, c), room)
    BY ONLY <1>1, <1>6, LinearFits
  <2>2. 0 + xs <= xs /\ 0 + ys <= ys /\ 0 \in Nat /\ 4 * (ys + xs) <= room.bytes
    BY <1>1, <1>3, <1>6
  <2>3. RequestFits(w, Linear(<<x, 0>>, <<y, 0>>, ys, xs), room)
    BY <1>6, <2>1, <2>2
  <2> QED
    BY <2>3 DEF Start
<1>7. Suits(Linear(Start("normalized"), Start("low"), Rank, Width))
  BY <1>2, <1>3, <1>6
<1>8. Suits(Linear(Start("low"), Start("gate_logits"), Width, Rank))
  BY <1>2, <1>3, <1>6
<1>9. Suits(Linear(Start("hidden"), Start("logits"), Vocabulary, Hidden))
  BY <1>2, <1>3, <1>6
<1> HIDE DEF Suits
<1>10. \A r \in RequestsOf(w) : Suits(r)
  <2>1. CASE w.stage = "embed"
    <3>1. RequestsOf(w) = {Fetch(Start("embedding"), Hidden)}
      BY <2>1 DEF RequestsOf
    <3> QED
      BY <1>4, <3>1
  <2>2. CASE w.stage = "final_mix"
    <3>1. RequestsOf(w) = { Fetch(Start("norm_delta"), Width),
                            Linear(Start("normalized"), Start("low"), Rank, Width),
                            Linear(Start("low"), Start("gate_logits"), Width, Rank) }
      BY <2>2 DEF RequestsOf
    <3> QED
      BY <1>5, <1>7, <1>8, <3>1
  <2>3. CASE w.stage = "head"
    <3>1. RequestsOf(w) = {Linear(Start("hidden"), Start("logits"), Vocabulary, Hidden)}
      BY <2>3 DEF RequestsOf
    <3> QED
      BY <1>9, <3>1
  <2> QED
    BY <2>1, <2>2, <2>3 DEF OfExecutor
<1> QED
  BY <1>10 DEF Suits, room
-----------------------------------------------------------------------------
(* Every step of a call is admitted. *)

LEMMA LayerAdmits ==
    ASSUME NEW w, Calling(w), Layered(w)
    PROVE  Admitted(w)
<1>1. InLayer(w) /\ ~(w.stage = "entry") /\ ~(w.stage \in {"embed", "final_mix", "head"})
  BY DEF Layered, InLayer
<1>2. LayerScratch(w).bytes >= LayerRequired(Kind(w), w.tokens)
  BY LayerRoom
<1>3. OperatorAdmitted(w)
  BY OperatorAdmits
<1>4. \A r \in RequestsOf(w) : RequestAdmitted(w, r, LinearScratch(w))
  BY LayerFits DEF RequestsFit, RequestFits
<1> QED
  BY <1>1, <1>2, <1>3, <1>4, Zenon DEF Admitted

LEMMA ExecAdmits ==
    ASSUME NEW w, Calling(w), OfExecutor(w)
    PROVE  Admitted(w)
<1>1. w.stage \in {"embed", "final_mix", "head"} /\ ~InLayer(w) /\ w.stage # "entry"
  BY DEF OfExecutor, InLayer
<1>2. \A r \in RequestsOf(w) : RequestAdmitted(w, r, Buffers(w)["provider_scratch"])
  BY ExecFits DEF RequestFits, ProviderRoom
<1> QED
  BY <1>1, <1>2, Zenon DEF Admitted

LEMMA EntryAdmits ==
    ASSUME NEW w, Calling(w), w.stage = "entry"
    PROVE  Admitted(w)
<1>1. ~InLayer(w) /\ ~(w.stage \in {"embed", "final_mix", "head"})
  BY DEF InLayer
<1>2. w.position + w.tokens <= ContextCapacity /\ w.bytes >= Required(w.tokens)
  BY DEF Calling
<1> QED
  BY <1>1, <1>2, Zenon DEF Admitted

\* What BuffersHold says of a layer, and of any stage.
LayerKeeps(w) ==
    /\ SubScratch(w).bytes >= 0
    /\ \A part \in DOMAIN OperatorBuffers(w) : Within(Buffers(w)[part], SubScratch(w))
    /\ LinearScratch(w).bytes >= 0
    /\ Within(LinearScratch(w), Weights(w))
    /\ Kind(w) = "ple" => Buffers(w)["intents"].at % 8 = 0

StageKeeps(w) ==
    /\ Within(LayerScratch(w), Block(w))
    /\ \A request \in RequestsOf(w) :
         /\ Within(Place(w, request.to, request.rows), Buffers(w)[request.to[1]])
         /\ Within(Place(w, request.from, request.columns), Buffers(w)[request.from[1]])
    /\ \A write \in WritesOf(w) : 4 * write[2] <= Buffers(w)[write[1]].bytes

LEMMA LayerDoesKeep ==
    ASSUME NEW w, Calling(w), Layered(w)
    PROVE  LayerKeeps(w) /\ StageKeeps(w)
<1>1. SubScratch(w).bytes \in Nat /\ LinearScratch(w).bytes \in Nat
  BY Zones
<1>2. \A part \in DOMAIN OperatorBuffers(w) : Within(Buffers(w)[part], SubScratch(w))
  <2>1. DOMAIN OperatorBuffers(w) = OperatorNames(w)
    BY CutNames DEF OperatorBuffers, OperatorNames
  <2> QED
    BY <2>1, OperatorWithin
<1>3. Within(LinearScratch(w), Weights(w))
  <2>1. LinearScratch(w).at + LinearScratch(w).bytes = Weights(w).at + Weights(w).bytes
        /\ Weights(w).bytes \in Nat
    BY LayerRoom
  <2>2. /\ Weights(w).at \in Nat /\ Loading(w).at \in Nat /\ LinearScratch(w).at \in Nat
        /\ Weights(w).at <= Loading(w).at /\ Loading(w).at <= LinearScratch(w).at
    BY Zones
  <2> QED
    BY <1>1, <2>1, <2>2 DEF Within
<1>4. Kind(w) = "ple" => Buffers(w)["intents"].at % 8 = 0
  BY IntentsAlign
<1>5. LayerKeeps(w)
  BY <1>1, <1>2, <1>3, <1>4 DEF LayerKeeps
<1>6. Within(LayerScratch(w), Block(w))
  BY CallRoom
<1>7. \A r \in RequestsOf(w) : RequestFits(w, r, LinearScratch(w))
  BY LayerFits DEF RequestsFit
<1>8. WritesFit(w, WritesOf(w))
  BY LayerWritesFit
<1>9. StageKeeps(w)
  BY <1>6, <1>7, <1>8, Zenon DEF StageKeeps, RequestFits, WritesFit
<1> QED
  BY <1>5, <1>9

LEMMA ExecDoesKeep ==
    ASSUME NEW w, Calling(w), OfExecutor(w)
    PROVE  StageKeeps(w)
<1>1. Within(LayerScratch(w), Block(w))
  BY CallRoom
<1>2. \A r \in RequestsOf(w) : RequestFits(w, r, ProviderRoom(w))
  BY ExecFits
<1>3. WritesOf(w) = {}
  BY DEF WritesOf, OfExecutor
<1> QED
  BY <1>1, <1>2, <1>3, Zenon DEF StageKeeps, RequestFits
-----------------------------------------------------------------------------
(* The invariant of a call: it was given what it needs, and is in a stage that *)
(* its layers have. *)

Stages == {"entry", "embed", "ple", "attention_read", "mixer", "moe_read", "moe",
           "final_mix", "head", "done"}

Works == [stage : Stages, tokens : Nat, position : Nat, bytes : Nat, layer : Nat]

Underway(w) ==
    /\ w \in Works /\ Calling(w)
    /\ \/ w.stage = "entry" /\ w.layer = 0
       \/ w.stage = "embed" /\ w.layer = 0
       \/ Layered(w)
       \/ w.stage \in {"final_mix", "head", "done"}

WorkInv == work = NoWork \/ Underway(work)

\* Another stage or layer of the same call.
Moved(w, stage, layer) == [[w EXCEPT !.layer = layer] EXCEPT !.stage = stage]

LEMMA StageChange ==
    ASSUME NEW w \in Works, Calling(w), NEW stage \in Stages, NEW layer \in Nat
    PROVE  LET v == Moved(w, stage, layer)
           IN  v \in Works /\ Calling(v) /\ v.stage = stage /\ v.layer = layer
<1> DEFINE v == Moved(w, stage, layer)
<1>1. v \in Works /\ v.stage = stage /\ v.layer = layer
  BY DEF Works, Moved
<1>2. v.tokens = w.tokens /\ v.position = w.position /\ v.bytes = w.bytes
  BY DEF Works, Moved
<1> HIDE DEF v
<1>3. Calling(v)
  BY ONLY Calling(w), <1>2 DEF Calling
<1> QED
  BY <1>1, <1>3 DEF v

LEMMA StageOnly ==
    ASSUME NEW w \in Works, NEW stage
    PROVE  [w EXCEPT !.stage = stage] = Moved(w, stage, w.layer) /\ w.layer \in Nat
BY DEF Works, Moved

LEMMA NextLayerUnderway ==
    ASSUME NEW w \in Works, Calling(w), w.layer \in 0..Len(LayerKinds)
    PROVE  Underway(NextLayer(w))
<1>1. Len(LayerKinds) \in Nat
  BY ScratchAssumption, LenProperties
<1>2. CASE w.layer = Len(LayerKinds)
  <2>1. NextLayer(w) = [w EXCEPT !.stage = "final_mix"]
    BY <1>2 DEF NextLayer
  <2>2. NextLayer(w) = Moved(w, "final_mix", w.layer) /\ w.layer \in Nat
    BY <2>1, StageOnly
  <2>3. "final_mix" \in Stages
    BY DEF Stages
  <2>4. NextLayer(w) \in Works /\ Calling(NextLayer(w)) /\ NextLayer(w).stage = "final_mix"
    BY <2>2, <2>3, StageChange
  <2> QED
    BY <2>4 DEF Underway
<1>3. CASE w.layer # Len(LayerKinds)
  <2> DEFINE v == NextLayer(w)
             stage == IF LayerKinds[w.layer + 1] = "ple" THEN "ple" ELSE "attention_read"
  <2>1. w.layer + 1 \in 1..Len(LayerKinds) /\ w.layer + 1 \in Nat
    BY <1>1, <1>3
  <2>2. v = [w EXCEPT !.layer = @ + 1, !.stage = stage]
    BY <1>3 DEF NextLayer
  <2>3. v = Moved(w, stage, w.layer + 1)
    BY <2>2 DEF Moved
  <2>4. stage \in Stages /\ stage \in {"ple", "attention_read"}
        /\ (stage = "ple" => LayerKinds[w.layer + 1] = "ple")
    BY DEF Stages
  <2> HIDE DEF stage, v
  <2>5. v \in Works /\ Calling(v) /\ v.stage = stage /\ v.layer = w.layer + 1
    BY <2>1, <2>3, <2>4, StageChange, SMTT(30)
  <2>6. Layered(v)
    BY <2>1, <2>4, <2>5 DEF Layered, InLayer, Kind
  <2>7. Underway(v)
    BY <2>5, <2>6 DEF Underway
  <2> QED
    BY <2>7 DEF v
<1> QED
  BY <1>2, <1>3

LEMMA AfterUnderway ==
    ASSUME NEW w, Underway(w), w.stage # "done"
    PROVE  Underway(After(w))
<1> DEFINE v == After(w)
<1>1. w \in Works /\ Calling(w)
  BY DEF Underway
<1>2. Len(LayerKinds) \in Nat
  BY ScratchAssumption, LenProperties
<1>3. ASSUME NEW stage \in Stages, v = [w EXCEPT !.stage = stage]
      PROVE  v \in Works /\ Calling(v) /\ v.stage = stage /\ v.layer = w.layer
  <2>1. v = Moved(w, stage, w.layer) /\ w.layer \in Nat
    BY <1>1, <1>3, StageOnly
  <2> HIDE DEF v
  <2> QED
    BY <1>1, <2>1, StageChange
<1>4. CASE w.stage = "entry"
  <2>1. v = [w EXCEPT !.stage = "embed"] /\ "embed" \in Stages
    BY <1>4 DEF After, Stages
  <2>2. v \in Works /\ Calling(v) /\ v.stage = "embed" /\ v.layer = w.layer
    BY <1>3, <2>1
  <2>3. w.layer = 0
    BY <1>4 DEF Underway, Layered, InLayer
  <2> HIDE DEF v
  <2>4. Underway(v)
    BY <2>2, <2>3 DEF Underway
  <2> QED
    BY <2>4 DEF v
<1>5. CASE w.stage \in {"embed", "moe"}
  <2>1. v = NextLayer(w)
    BY <1>5 DEF After
  <2>2. w.layer \in 0..Len(LayerKinds)
    BY <1>2, <1>5 DEF Underway, Layered
  <2> QED
    BY <1>1, <2>1, <2>2, NextLayerUnderway
<1>6. CASE w.stage \in {"ple", "attention_read", "mixer", "moe_read"}
  <2>1. Layered(w)
    BY <1>6 DEF Underway
  <2>2. PICK stage \in {"attention_read", "mixer", "moe_read", "moe"} :
                v = [w EXCEPT !.stage = stage]
    BY <1>6 DEF After
  <2>3. stage \in Stages
    BY <2>2 DEF Stages
  <2>4. v \in Works /\ Calling(v) /\ v.stage = stage /\ v.layer = w.layer
    BY <1>3, <2>2, <2>3
  <2> HIDE DEF v
  <2>5. Layered(v)
    BY <2>1, <2>2, <2>4 DEF Layered, InLayer
  <2>6. Underway(v)
    BY <2>4, <2>5 DEF Underway
  <2> QED
    BY <2>6 DEF v
<1>7. CASE w.stage \in {"final_mix", "head"}
  <2>1. PICK stage \in {"head", "done"} : v = [w EXCEPT !.stage = stage]
    BY <1>7 DEF After
  <2>2. stage \in Stages
    BY <2>1 DEF Stages
  <2>3. v \in Works /\ Calling(v) /\ v.stage = stage
    BY <1>3, <2>1, <2>2
  <2> HIDE DEF v
  <2>4. Underway(v)
    BY <2>1, <2>3 DEF Underway
  <2> QED
    BY <2>4 DEF v
<1> QED
  BY <1>4, <1>5, <1>6, <1>7 DEF Underway, Layered, InLayer

\* The next step of a call is never a refusal.
LEMMA ProceedKeeps == ASSUME WorkInv, Proceed PROVE WorkInv'
<1>1. Underway(work) /\ work.stage # "done"
  BY DEF WorkInv, Proceed, InWork, NoWork
<1>2. Calling(work)
  BY <1>1 DEF Underway
<1>3. Admitted(work)
  <2>1. work.stage = "entry" \/ Layered(work) \/ OfExecutor(work)
    BY <1>1 DEF Underway, OfExecutor
  <2> QED
    BY <1>2, <2>1, EntryAdmits, LayerAdmits, ExecAdmits
<1>4. work' = After(work)
  BY <1>3 DEF Proceed
<1>5. Underway(work')
  BY <1>1, <1>4, AfterUnderway
<1> QED
  BY <1>5 DEF WorkInv

LEMMA RoomOfInv == WorkInv => CallHasRoom
BY DEF WorkInv, Underway, NoWork, CallHasRoom, Layered, InLayer

LEMMA BuffersOfInv == WorkInv => BuffersHold
<1> SUFFICES ASSUME WorkInv, InWork, work.stage # "entry" PROVE BuffersHold
  BY DEF BuffersHold
<1>1. Underway(work) /\ work.stage # "done"
  BY DEF WorkInv, InWork, NoWork
<1>2. Calling(work) /\ (Layered(work) \/ OfExecutor(work))
  BY <1>1 DEF Underway, OfExecutor
<1>3. StageKeeps(work)
  BY <1>2, LayerDoesKeep, ExecDoesKeep
<1>4. InLayer(work) => LayerKeeps(work)
  <2>1. OfExecutor(work) => ~InLayer(work)
    BY DEF OfExecutor, InLayer
  <2> QED
    BY <1>2, <2>1, LayerDoesKeep
<1> QED
  BY <1>3, <1>4, Zenon DEF BuffersHold, StageKeeps, LayerKeeps

-----------------------------------------------------------------------------
(* The theorems about the program. *)

\* The variables of the program keep their types.
THEOREM TypeCorrect == Spec => []TypeOK
<1>1. IInv => TypeOK
  BY DEF IInv
<1> QED
  BY InitInv, StepInv, <1>1, PTL DEF Spec

LEMMA DecodeOfInv == IInv => DecodeAdmitted
<1> SUFFICES ASSUME IInv, pc \in {"resize", "decode"}
             PROVE  /\ Len(context) < Capacity /\ Last(results) \notin Eog
                    /\ pc = "decode" => scratch >= Need(Len(context), 1)
  BY DEF DecodeAdmitted
<1>1. /\ Whole(results) /\ Len(results) < wanted /\ Last(results) \notin Eog
      /\ pc = "decode" => scratch >= Need(Len(context), 1)
  BY DEF IInv, LoopInv, Fed
<1>2. /\ prompt \in Seq(Token) /\ results \in Seq(Token)
      /\ Len(prompt) \in 1..(Capacity - 1)
      /\ wanted - 1 <= Capacity - Len(prompt)
      /\ wanted \in Nat
  BY RunAssumption DEF IInv, TypeOK, SizeInv, Sized
<1>3. Len(context) = Len(prompt) + Len(results) - 1
  BY <1>1, <1>2, ContextLength DEF Whole
<1>4. Len(results) \in Nat /\ Capacity \in Nat
  BY <1>2, LenProperties, RunAssumption
<1> QED
  BY <1>1, <1>2, <1>3, <1>4

LEMMA TranscriptOfInv == IInv => TranscriptWhole
BY DEF IInv, PrintInv, Ending, Whole, TranscriptWhole

\* The check made once on the prompt's length admits every decode of the loop
\* that follows, whatever the capacity and the number of tokens asked for.
THEOREM LoopIsAdmitted == Spec => []DecodeAdmitted
BY InitInv, StepInv, DecodeOfInv, PTL DEF Spec

\* Nothing is printed of a run that failed, and what is printed of one that
\* succeeded is one generation, fed back token by token, with outputs that
\* belong to its last token.
THEOREM TranscriptIsWhole == Spec => []TranscriptWhole
BY InitInv, StepInv, TranscriptOfInv, PTL DEF Spec

LEMMA OwnersStep ==
    ASSUME TypeOK, OwnersOutliveUsers, [Next]_vars
    PROVE  OwnersOutliveUsers'
<1>1. CASE OpenOwner
  <2>1. PICK i \in 1..Len(Chain) :
               /\ \A j \in 1..(i - 1) : Chain[j] \in open
               /\ open' = open \cup {Chain[i]}
    BY <1>1 DEF OpenOwner
  <2>2. Borrows[Chain[i]] \subseteq open
    <3>1. ASSUME NEW x \in Borrows[Chain[i]] PROVE x \in open
      <4>1. PICK j \in 1..(i - 1) : Chain[j] = x
        BY <3>1, OpenedAfterOwners DEF TypeOK
      <4> QED
        BY <2>1, <4>1
    <3> QED
      BY <3>1
  <2> QED
    BY <2>1, <2>2 DEF OwnersOutliveUsers
<1>2. CASE Close
  <2>1. PICK i \in 1..Len(CloseOrder) :
               /\ \A j \in 1..(i - 1) : CloseOrder[j] \notin open
               /\ open' = open \ {CloseOrder[i]}
    BY <1>2 DEF Close
  <2>2. \A o \in open : CloseOrder[i] \notin Borrows[o]
    <3>1. SUFFICES ASSUME NEW o \in open, CloseOrder[i] \in Borrows[o] PROVE FALSE
      OBVIOUS
    <3>2. PICK j \in 1..(i - 1) : CloseOrder[j] = o
      BY <3>1, ReleasedAfterUsers DEF TypeOK
    <3> QED
      BY <2>1, <3>1, <3>2
  <2>3. open' \subseteq open
    BY <2>1
  <2>4. ASSUME NEW o \in open', NEW x \in Borrows[o] PROVE x \in open'
    <3>1. o \in open /\ x \in open /\ x # CloseOrder[i]
      BY <2>2, <2>3, <2>4 DEF OwnersOutliveUsers
    <3> QED
      BY <2>1, <3>1
  <2> QED
    BY <2>4 DEF OwnersOutliveUsers
<1>3. CASE Encode \/ EncodeFail \/ Allocate \/ AllocateFail \/ AllocateSampling
  BY <1>3 DEF Encode, EncodeFail, Allocate, AllocateFail, AllocateSampling,
     OwnersOutliveUsers, Borrows
<1>4. CASE Fail \/ Resize \/ Generate \/ SummaryFail \/ Report \/ Exit \/ UNCHANGED vars
  BY <1>4 DEF Fail, Resize, Generate, SummaryFail, Report, Exit, vars, program,
     OwnersOutliveUsers
<1> QED
  BY <1>1, <1>2, <1>3, <1>4 DEF Next

LEMMA OwnersInit == Init => OwnersOutliveUsers
BY DEF Init, OwnersOutliveUsers, Borrows

\* The cleanup never releases an owner that a live one points into, from
\* whatever step it was entered.
THEOREM CleanupInOrder == Spec => []OwnersOutliveUsers
<1>1. IInv /\ OwnersOutliveUsers /\ [Next]_vars => OwnersOutliveUsers'
  BY OwnersStep DEF IInv
<1> QED
  BY InitInv, StepInv, OwnersInit, <1>1, PTL DEF Spec
-----------------------------------------------------------------------------
(* The program over the memory of its calls. *)

\* The block for the prefill is the one that was asked for.
BlockInv == pc \in {"sampling", "prefill"} => scratch = Need(0, Len(prompt))

ProgramInv == IInv /\ BlockInv /\ WorkInv

\* Every step of the composition is one of the program or leaves it as it is.
LEMMA ProgramStep == [ProgramNext]_programVars => [Next]_vars
BY DEF ProgramNext, programVars, Enter, Return, Between, Step, Next

LEMMA ProgramStart == ProgramInit => Init /\ ProgramInv
<1> SUFFICES ASSUME ProgramInit PROVE Init /\ ProgramInv
  OBVIOUS
<1>1. Init /\ work = NoWork
  BY DEF ProgramInit, ScratchInit
<1>2. BlockInv
  BY <1>1 DEF Init, BlockInv
<1> QED
  BY <1>1, <1>2, InitInv DEF ProgramInv, WorkInv

LEMMA BlockStep == ASSUME BlockInv, [Next]_vars PROVE BlockInv'
<1>1. CASE Allocate
  BY <1>1 DEF Allocate, BlockInv
<1>2. CASE AllocateSampling
  BY <1>2 DEF AllocateSampling, BlockInv
<1>3. CASE OpenOwner \/ Encode \/ EncodeFail \/ AllocateFail
  BY <1>3 DEF OpenOwner, Encode, EncodeFail, AllocateFail, Abort, BlockInv
<1>4. CASE Fail \/ Resize \/ Generate \/ SummaryFail
  BY <1>4 DEF Fail, Resize, Generate, SummaryFail, Abort, BlockInv
<1>5. CASE Report \/ Close \/ Exit \/ UNCHANGED vars
  BY <1>5 DEF Report, Close, Exit, vars, program, BlockInv
<1> QED
  BY <1>1, <1>2, <1>3, <1>4, <1>5 DEF Next

\* What the program has when it calls the executor is what the executor asks for.
LEMMA EnterGives ==
    ASSUME IInv, BlockInv, pc \in {"prefill", "decode"}
    PROVE  LET n == IF pc = "prefill" THEN Len(prompt) ELSE 1
           IN  /\ n \in Nat \ {0} /\ Len(context) \in Nat /\ scratch \in Nat
               /\ Len(context) + n <= ContextCapacity /\ scratch >= Required(n)
<1>1. /\ scratch \in Nat /\ prompt \in Seq(Token) /\ context \in Seq(Token)
      /\ Len(prompt) \in Nat /\ Len(context) \in Nat
      /\ Capacity \in Nat \ {0, 1} /\ ContextCapacity = Capacity
  BY LenProperties, RunAssumption, ProgramAssumption DEF IInv, TypeOK
<1>2. ASSUME NEW p \in 0..Capacity, NEW n \in 1..Capacity
      PROVE  Need(p, n) = Required(n)
  BY ProgramAssumption
<1>3. CASE pc = "prefill"
  <2>1. Len(prompt) \in 1..(Capacity - 1) /\ context = << >>
    BY <1>3 DEF IInv, SizeInv, Sized, FreshInv, Before
  <2>2. Len(context) = 0
    BY <2>1
  <2>3. scratch = Need(0, Len(prompt))
    BY <1>3 DEF BlockInv
  <2>4. Need(0, Len(prompt)) = Required(Len(prompt))
    BY <1>1, <1>2, <2>1
  <2>5. scratch >= Required(Len(prompt))
    BY <1>1, <2>3, <2>4
  <2> QED
    BY <1>1, <1>3, <2>1, <2>2, <2>5
<1>4. CASE pc = "decode"
  <2>1. Len(context) < Capacity /\ scratch >= Need(Len(context), 1)
    BY <1>4, DecodeOfInv DEF DecodeAdmitted
  <2>2. Need(Len(context), 1) = Required(1)
    BY <1>1, <1>2, <2>1
  <2>3. scratch >= Required(1)
    BY <2>1, <2>2
  <2> QED
    BY <1>1, <1>4, <2>1, <2>3
<1> QED
  BY <1>3, <1>4

LEMMA EnterKeeps == ASSUME IInv, BlockInv, Enter PROVE WorkInv'
<1> DEFINE n == IF pc = "prefill" THEN Len(prompt) ELSE 1
           w == Call(n, Len(context), scratch)
<1>1. work' = w /\ pc \in {"prefill", "decode"}
  BY DEF Enter
<1>2. /\ n \in Nat \ {0} /\ Len(context) \in Nat /\ scratch \in Nat
      /\ Len(context) + n <= ContextCapacity /\ scratch >= Required(n)
  BY <1>1, EnterGives
<1> HIDE DEF n
<1>3. /\ w.stage = "entry" /\ w.layer = 0 /\ w.tokens = n
      /\ w.position = Len(context) /\ w.bytes = scratch
  BY DEF Call
<1>4. w \in Works
  BY <1>2 DEF Call, Works, Stages
<1> HIDE DEF w
<1>5. Calling(w)
  BY <1>2, <1>3 DEF Calling
<1>6. Underway(w)
  BY <1>3, <1>4, <1>5 DEF Underway
<1> QED
  BY <1>1, <1>6 DEF WorkInv

LEMMA ProgramKeeps == ProgramInv /\ [ProgramNext]_programVars => ProgramInv'
<1> SUFFICES ASSUME ProgramInv, [ProgramNext]_programVars PROVE ProgramInv'
  OBVIOUS
<1>1. IInv /\ BlockInv /\ WorkInv
  BY DEF ProgramInv
<1>2. [Next]_vars
  BY ProgramStep
<1>3. IInv' /\ BlockInv'
  BY <1>1, <1>2, StepInv, BlockStep
<1>4. WorkInv'
  <2>1. CASE Enter
    BY <1>1, <2>1, EnterKeeps
  <2>2. CASE Step
    BY <1>1, <2>2, ProceedKeeps DEF Step
  <2>3. CASE Return
    BY <2>3 DEF Return, WorkInv
  <2>4. CASE Between \/ UNCHANGED programVars
    <3>1. work' = work
      BY <2>4 DEF Between, programVars
    <3> QED
      BY <1>1, <3>1 DEF WorkInv
  <2> QED
    BY <2>1, <2>2, <2>3, <2>4 DEF ProgramNext
<1> QED
  BY <1>3, <1>4 DEF ProgramInv

\* Making its calls step by step changes nothing of what the program promises:
\* the order of its cleanup, the admission of its decodes, what it prints.
THEOREM ProgramIsARun ==
    ProgramSpec => /\ Init /\ [][Next]_vars
                   /\ [](OwnersOutliveUsers /\ DecodeAdmitted /\ TranscriptWhole)
<1>1. IInv /\ OwnersOutliveUsers /\ [Next]_vars => OwnersOutliveUsers'
  BY OwnersStep DEF IInv
<1>2. ProgramInit => Init
  BY ProgramStart
<1> QED
  BY InitInv, StepInv, OwnersInit, <1>1, <1>2, ProgramStep, DecodeOfInv, TranscriptOfInv,
     PTL DEF ProgramSpec

\* No layer, operator or request below a call of kq-run finds too little room,
\* or buffers that overlap: what the executor asks for (kq_model_exec.c:466) is
\* enough for every prompt that is admitted, any list of layers and any block.
THEOREM CallsHaveRoom == ProgramSpec => []CallHasRoom
<1>1. ProgramInit => ProgramInv
  BY ProgramStart
<1>2. ProgramInv => CallHasRoom
  BY RoomOfInv DEF ProgramInv
<1> QED
  BY <1>1, <1>2, ProgramKeeps, PTL DEF ProgramSpec

\* Nothing is cut, filled or written beyond what it was cut from, at any
\* position of the context and for any number of tokens in a call.
THEOREM BuffersDoHold == ProgramSpec => []BuffersHold
<1>1. ProgramInit => ProgramInv
  BY ProgramStart
<1>2. ProgramInv => BuffersHold
  BY BuffersOfInv DEF ProgramInv
<1> QED
  BY <1>1, <1>2, ProgramKeeps, PTL DEF ProgramSpec
=============================================================================
