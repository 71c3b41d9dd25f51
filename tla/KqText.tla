------------------------------- MODULE KqText -------------------------------
(***************************************************************************)
(* A program over the files: the model is opened and its weights are       *)
(* looked at through views (inspect_main.c), or a tokenizer and a sampler  *)
(* are opened over it and serve calls (run_main.c), and everything is      *)
(* closed in the opposite order.                                           *)
(*                                                                         *)
(* The parts run in one thread and share only what is passed to them: a    *)
(* tokenizer and the views read the container, the sampler reads neither.  *)
(* One of them is used at a time, for nothing one does can be seen by      *)
(* another.                                                                *)
(***************************************************************************)
EXTENDS KqTensorView, KqTokenizer, KqSampling

textVars == <<viewVars, tokenizerVars, samplingVars>>

TextInit == ViewInit /\ TokenizerInit /\ SamplingInit

NoSampling == sampler = NoSampler /\ rng = NoRng

\* run_main closes the sampler with its generator still in the caller's record;
\* the record goes with the program.
Forget ==
    /\ sampler = NoSampler /\ selection = NoSelection /\ rng # NoRng
    /\ rng' = NoRng /\ saved' = NoRng
    /\ UNCHANGED <<sampler, selection>>

FileStep ==
    /\ GgufNext
    /\ UNCHANGED <<model, views, tokenizerVars, samplingVars>>

RegistryStep ==
    /\ \/ RegistryNext
       \/ CloseModel /\ NoViews /\ Absent
    /\ UNCHANGED <<views, tokenizerVars, samplingVars>>

ViewStep ==
    /\ stage = "model" /\ Absent
    /\ ViewNext
    /\ UNCHANGED <<tokenizerVars, samplingVars>>

\* The tokenizer is opened when everything before it was (run_main.c:216).
TokenizerStep ==
    /\ stage = "model" /\ NoViews /\ NoSampling
    /\ Closed => outcome = "OK"
    /\ TokenizerNext
    /\ UNCHANGED <<model, views, samplingVars>>

SamplingStep ==
    /\ stage = "model" /\ NoViews /\ ~Closed /\ call = NoCall
    /\ SamplingNext \/ Forget
    /\ UNCHANGED <<viewVars, tokenizerVars>>

\* The program ends.
Ended == stage = "closed" /\ UNCHANGED textVars

TextNext == FileStep \/ RegistryStep \/ ViewStep \/ TokenizerStep \/ SamplingStep
            \/ Ended

TextSpec == TextInit /\ [][TextNext]_textVars
-----------------------------------------------------------------------------
(* A property.                                                             *)

\* An open that fails, at whatever point and for whatever reason, leaves the
\* process with what it held before the call, and so does a close: nothing of
\* the file when that was refused, the open file when the container was, the
\* container when the model was, the model when the tokenizer was
\* (kq_gguf.c:936, kq_file_win32.c:62-122, kq_model.c:1373, kq_tokenizer.c:772).
RefusalLeavesNothing ==
    /\ stage = "closed" => held = {}
    /\ stage = "cleanup" => held \subseteq {"handle", "mapping", "file"}
    /\ stage = "container" => held \cap RegistryParts = {}
    /\ Absent => held \cap TokenizerParts = {}
=============================================================================
