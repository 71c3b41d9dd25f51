------------------------------- MODULE KqRun -------------------------------
(***************************************************************************)
(* The kq-run program (src/run_main.c): open the chain of owners, size and *)
(* encode the prompt, allocate, prefill, feed each selected token back     *)
(* until enough are generated or one ends the generation, print, release.  *)
(* Every step may fail and go to the same cleanup.  The executor is the    *)
(* atomic session: a call succeeds as a whole or changes nothing.          *)
(***************************************************************************)
EXTENDS Integers, Sequences

CONSTANTS Token, Eog, NoToken,
          Capacity,      \* KQ_RUN_CONTEXT_CAPACITY
          MaxNewTokens,  \* KQ_RUN_MAX_NEW_TOKENS
          MaxPrompt,     \* bound on the length of an encoded prompt
          Need(_, _)     \* scratch for a call of n tokens at a position

ASSUME RunAssumption ==
    /\ Eog \subseteq Token /\ NoToken \notin Token
    /\ Capacity \in Nat \ {0, 1}
    /\ MaxNewTokens \in Nat \ {0}
    /\ MaxPrompt \in Nat \ {0}
    /\ \A p \in 0..Capacity, n \in 1..Capacity : Need(p, n) \in Nat

VARIABLES pc,            \* where wmain is
          ok,            \* status == KQ_STATUS_OK
          sampled,       \* sampled_mode
          wanted,        \* max_new_tokens
          open,          \* the owners and buffers to release
          prompt,        \* token_ids
          results,       \* results[0 .. generated - 1]
          scratch,       \* scratch_bytes
          printed,       \* the tokens printed to stdout
          context, out   \* the executor's state and the caller's outputs

program == <<pc, ok, sampled, wanted, open, prompt, results, scratch, printed>>
session == <<context, out>>
vars == <<program, session>>

\* The RNG counts up to 2^64 - 1: a run draws at most MaxNewTokens times.
MaxDraws == MaxNewTokens
Session == INSTANCE KqSession

Last(s) == s[Len(s)]

\* The owners in the order they are opened.
Chain == <<"file", "gguf", "model", "tokenizer", "provider", "config", "state">>
           \o IF sampled THEN <<"sampling_config">> ELSE << >>

\* Whose memory each owner keeps a pointer into.
Borrows == [file |-> {}, gguf |-> {"file"}, model |-> {"gguf"},
            tokenizer |-> {"gguf"}, provider |-> {"gguf", "model"},
            config |-> {"gguf", "model", "tokenizer", "provider"},
            state |-> {"config"}, sampling_config |-> {}, prompt |-> {},
            token_ids |-> {}, scratch |-> {}, logits |-> {},
            sampling_scratch |-> {}]

\* Mutant: the configuration is closed before the state that uses it.
CloseOrderSwapped ==
    <<"sampling_scratch", "logits", "scratch", "token_ids", "config", "state",
      "sampling_config", "provider", "tokenizer", "model", "gguf", "file", "prompt">>

\* Mutant: the sampling scratch is not released.
CloseOrderForgetful ==
    <<"logits", "scratch", "token_ids", "state", "sampling_config", "config",
      "provider", "tokenizer", "model", "gguf", "file", "prompt">>

CloseOrder ==
    <<"sampling_scratch", "logits", "scratch", "token_ids", "state",
      "sampling_config", "config", "provider", "tokenizer", "model", "gguf",
      "file", "prompt">>

\* The arguments are parsed and the prompt is converted to UTF-8.
Init == /\ pc = "open" /\ ok = TRUE
        /\ sampled \in BOOLEAN
        /\ wanted \in 1..MaxNewTokens
        /\ open = {"prompt"}
        /\ prompt = << >> /\ results = << >> /\ scratch = 0 /\ printed = << >>
        /\ Session!Init

\* The next owner of the chain is opened.
OpenOwner == /\ pc = "open"
             /\ \E i \in 1..Len(Chain) :
                  /\ Chain[i] \notin open
                  /\ \A j \in 1..(i - 1) : Chain[j] \in open
                  /\ open' = open \cup {Chain[i]}
                  /\ pc' = IF i = Len(Chain) THEN "encode" ELSE "open"
             /\ UNCHANGED <<ok, sampled, wanted, prompt, results, scratch,
                            printed, session>>

\* Any call on the way may fail: the cleanup is the only way out.
Abort == ok' = FALSE /\ pc' = "close"

Fail == /\ pc \in {"open", "encode", "encoded", "sampling", "prefill", "resize", "decode"}
        /\ Abort
        /\ UNCHANGED <<sampled, wanted, open, prompt, results, scratch, printed, session>>

\* Mutant: only the prompt has to fit.
FitsOnlyPrompt(n) == n < Capacity

\* The whole generation has to fit before anything is computed: the last
\* selected token is never fed back.
Fits(n) == n < Capacity /\ wanted - 1 <= Capacity - n

\* Size, allocate and encode the prompt.  A prompt that does not fit, or no
\* memory, is the Fail of this stage.
Encode == /\ pc = "encode"
          /\ \E n \in 1..MaxPrompt :
               /\ Fits(n)
               /\ prompt' \in [1..n -> Token]
          /\ open' = open \cup {"token_ids"}
          /\ pc' = "encoded"
          /\ UNCHANGED <<ok, sampled, wanted, results, scratch, printed, session>>

\* token_ids is allocated but the second encode fails.
EncodeFail == /\ pc = "encode"
              /\ open' = open \cup {"token_ids"}
              /\ Abort
              /\ UNCHANGED <<sampled, wanted, prompt, results, scratch, printed, session>>

\* The scratch for the prefill and the logits.
Allocate == /\ pc = "encoded"
            /\ open' = open \cup {"scratch", "logits"}
            /\ scratch' = Need(0, Len(prompt))
            /\ pc' = IF sampled THEN "sampling" ELSE "prefill"
            /\ UNCHANGED <<ok, sampled, wanted, prompt, results, printed, session>>

\* One of the two allocations fails; the other is still released.
AllocateFail == /\ pc = "encoded"
                /\ \E got \in {{"scratch"}, {"logits"}} : open' = open \cup got
                /\ Abort
                /\ UNCHANGED <<sampled, wanted, prompt, results, scratch, printed, session>>

\* sampling_scratch, when sampling.
AllocateSampling == /\ pc = "sampling"
                    /\ open' = open \cup {"sampling_scratch"}
                    /\ pc' = "prefill"
                    /\ UNCHANGED <<ok, sampled, wanted, prompt, results, scratch,
                                   printed, session>>

\* while (generated < max_new_tokens && !selected_token_is_eog)
Continues == Len(results') < wanted /\ Last(results') \notin Eog

\* The scratch a decode needs depends on the position: ask, grow, keep.
Resize == /\ pc = "resize"
          /\ Len(context) < Capacity
          /\ scratch' = LET need == Need(Len(context), 1)
                        IN  IF need > scratch THEN need ELSE scratch
          /\ pc' = "decode"
          /\ UNCHANGED <<ok, sampled, wanted, open, prompt, results, printed, session>>

\* The prefill, greedy or sampled.
PrefillCall(t) == /\ pc = "prefill"
                  /\ context = << >> /\ Len(prompt) < Capacity
                  /\ Session!Succeed(prompt, t, sampled)

\* Mutant: the first result is fed back each time.
DecodeFirstCall(t) == /\ pc = "decode"
                      /\ Len(context) < Capacity
                      /\ scratch >= Need(Len(context), 1)
                      /\ Session!Succeed(<<results[1]>>, t, sampled)

\* The token fed back is the previous result, never the prompt again.
DecodeCall(t) == /\ pc = "decode"
                 /\ Len(context) < Capacity
                 /\ sampled => Last(results) \notin Eog
                 /\ scratch >= Need(Len(context), 1)
                 /\ Session!Succeed(<<Last(results)>>, t, sampled)

\* A call that succeeds, with the summary of the state after it.
Generate == /\ \E t \in Token : /\ PrefillCall(t) \/ DecodeCall(t)
                                /\ results' = Append(results, t)
            /\ pc' = IF Continues THEN "resize" ELSE "print"
            /\ UNCHANGED <<ok, sampled, wanted, open, prompt, scratch, printed>>

\* The call succeeds but the summary does not: the program gives up with a
\* context that is ahead of the results it counts.
SummaryFail == /\ \E t \in Token : PrefillCall(t) \/ DecodeCall(t)
               /\ Abort
               /\ UNCHANGED <<sampled, wanted, open, prompt, results, scratch, printed>>

\* Everything is printed at the end.
Report == /\ pc = "print"
         /\ printed' = results
         /\ pc' = "close"
         /\ UNCHANGED <<ok, sampled, wanted, open, prompt, results, scratch, session>>

\* done: release the first of CloseOrder that is held; the others are NULL.
Close == /\ pc = "close"
         /\ \E i \in 1..Len(CloseOrder) :
              /\ CloseOrder[i] \in open
              /\ \A j \in 1..(i - 1) : CloseOrder[j] \notin open
              /\ open' = open \ {CloseOrder[i]}
         /\ UNCHANGED <<pc, ok, sampled, wanted, prompt, results, scratch, printed, session>>

\* return exit_code.
Exit == /\ pc = "close" /\ open = {}
        /\ pc' = "exit"
        /\ UNCHANGED <<ok, sampled, wanted, open, prompt, results, scratch, printed, session>>

Next == \/ OpenOwner \/ Fail
        \/ Encode \/ EncodeFail
        \/ Allocate \/ AllocateFail \/ AllocateSampling
        \/ Resize \/ Generate \/ SummaryFail
        \/ Report \/ Close \/ Exit

\* wmain is sequential and calls nothing that waits for another process.
Spec == Init /\ [][Next]_vars /\ WF_vars(Next)
-----------------------------------------------------------------------------
Places == {"open", "encode", "encoded", "sampling", "prefill", "resize", "decode",
           "print", "close", "exit"}

\* Type correctness of the program's variables.
TypeOK == /\ pc \in Places
          /\ ok \in BOOLEAN /\ sampled \in BOOLEAN
          /\ wanted \in 1..MaxNewTokens
          /\ open \subseteq DOMAIN Borrows
          /\ prompt \in Seq(Token) /\ results \in Seq(Token) /\ printed \in Seq(Token)
          /\ Len(results) <= wanted
          /\ scratch \in Nat
          /\ context \in Seq(Token)

\* No owner outlives one it points into, whatever failed on the way and in
\* whatever stage of the cleanup (the order of lines 492-504).
OwnersOutliveUsers == \A o \in open : Borrows[o] \subseteq open

\* Every decode the loop asks for is one the executor admits: the check on the
\* prompt length leaves room for all of them, the loop never feeds back an
\* end-of-generation token, and the scratch that was sized for the prefill has
\* grown to what this position needs.
DecodeAdmitted ==
    /\ pc = "resize" => Len(context) < Capacity
    /\ pc = "decode" => /\ Len(context) < Capacity
                        /\ Last(results) \notin Eog
                        /\ scratch >= Need(Len(context), 1)

\* What is printed is one whole generation: it stops at the count asked for or
\* at the first end-of-generation token; the model consumed the prompt and all
\* printed tokens but the last; the logits printed at the end, the last token
\* and the RNG draws belong together.  A failure prints nothing.
TranscriptWhole ==
    IF printed = << >>
    THEN pc = "exit" => ~ok
    ELSE /\ ok
         /\ Len(printed) = wanted \/ Last(printed) \in Eog
         /\ \A i \in 1..(Len(printed) - 1) : printed[i] \notin Eog
         /\ context = prompt \o SubSeq(printed, 1, Len(printed) - 1)
         /\ out = Session!Outputs(context, Last(printed),
                                  IF sampled THEN Len(printed) ELSE 0)

\* The program ends, with everything it acquired released.
EndsReleased == <>[](pc = "exit" /\ open = {})
=============================================================================
