----------------------------- MODULE KqProgram -----------------------------
(***************************************************************************)
(* The kq-run program over the memory of its calls: what the executor asks *)
(* for is what run_main.c:255 and 307 allocate, and a call that the        *)
(* program makes goes through the steps of KqScratch before it succeeds.   *)
(***************************************************************************)
EXTENDS KqRun, KqScratch

\* What it asks for is the executor's answer, which does not look at the position,
\* and the context it configures is the one it checks the prompt against.
ASSUME ProgramAssumption ==
    /\ ContextCapacity = Capacity
    /\ \A p \in 0..Capacity, n \in 1..Capacity : Need(p, n) = Required(n)

programVars == <<vars, work>>

ProgramInit == Init /\ ScratchInit

\* The executor is called with the block as it is now.
Enter ==
    /\ pc \in {"prefill", "decode"} /\ work = NoWork
    /\ work' = Call(IF pc = "prefill" THEN Len(prompt) ELSE 1, Len(context), scratch)
    /\ UNCHANGED vars

Step == Proceed /\ UNCHANGED vars

\* It returns: with a token, or with an error, from wherever it was.
Return ==
    /\ work # NoWork
    /\ \/ work.stage = "done" /\ (Generate \/ SummaryFail)
       \/ Fail
    /\ work' = NoWork

\* Everything else the program does happens between calls.
Between ==
    /\ work = NoWork
    /\ \/ OpenOwner \/ Fail
       \/ Encode \/ EncodeFail
       \/ Allocate \/ AllocateFail \/ AllocateSampling
       \/ Resize
       \/ Report \/ Close \/ Exit
    /\ UNCHANGED work

ProgramNext == Enter \/ Return \/ Between \/ Step

\* wmain is sequential and calls nothing that waits for another process.
ProgramSpec == ProgramInit /\ [][ProgramNext]_programVars /\ WF_programVars(ProgramNext)
=============================================================================
