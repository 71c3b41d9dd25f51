------------------------------- MODULE KqPle -------------------------------
(***************************************************************************)
(* The two PLE streams of a layer: the address engine (src/kq_ple.c), which*)
(* turns each token and the two before it into table addresses, and the    *)
(* value operator (src/kq_ple_value_qwen38.c), which looks them up and     *)
(* convolves the result with earlier positions.  Tokens arrive in chunks.  *)
(***************************************************************************)
EXTENDS Integers, Sequences, FiniteSets

CONSTANTS Token, EosToken,
          ContextLength, \* model_context_length
          MaxChunk,      \* bound on the tokens of a chunk
          Heads,         \* head_count
          Order,         \* [0 .. Heads - 1 -> {2, 3}]: a bigram or a trigram head
          HeadOffset,    \* head_offsets
          HeadVocabSize, \* head_vocab_sizes
          MemberRows,    \* rows of a logical table member
          Members,       \* logical_member_count
          Hash(_),       \* the mixed products of a window of tokens
          Taps,          \* width of the convolution kernel
          Dilation       \* convolution_dilation

HeadIds == 0..(Heads - 1)

\* What kq_ple_validate_descriptor requires of the table geometry.
ASSUME PleAssumption ==
    /\ EosToken \in Token
    /\ Heads \in Nat \ {0} /\ MemberRows \in Nat \ {0} /\ Members \in Nat \ {0}
    /\ Taps \in Nat \ {0, 1} /\ Dilation \in Nat \ {0}
    /\ ContextLength \in Nat /\ MaxChunk \in Nat \ {0}
    /\ \A n \in {2, 3} : \A window \in [1..n -> Token] : Hash(window) \in Nat
    /\ \A h \in HeadIds : /\ HeadVocabSize[h] \in Nat \ {0}
                          /\ HeadOffset[h] \in Nat
                          /\ Order[h] \in {2, 3}
    /\ HeadOffset[0] = 0
    /\ \A h \in HeadIds \ {0} : HeadOffset[h] = HeadOffset[h - 1] + HeadVocabSize[h - 1]
    /\ HeadOffset[Heads - 1] + HeadVocabSize[Heads - 1] <= MemberRows * Members

VARIABLES address,       \* kq_ple_stream_state: position and two-token history
          value,         \* kq_ple_value_state: position and convolution history
          intents,       \* the addresses made for a chunk and not yet consumed
          staged,        \* the run's copy of the history, with its sums so far
          running,       \* is a run of the value operator under way
          stream,        \* every token since the last reset
          emitted,       \* every token's addresses, once consumed
          convolved      \* the positions each output was convolved from

vars == <<address, value, intents, staged, running, stream, emitted, convolved>>

ActiveRows == HeadOffset[Heads - 1] + HeadVocabSize[Heads - 1]
HistoryLength == Dilation * (Taps - 1)

\* The value of a normalised row is identified by its position; zero where
\* there is none yet.
Missing == -1

\* Mutant: a reset that only clears.
FreshAddressCleared == [position |-> 0, history |-> <<0, 0>>]

FreshAddress == [position |-> 0, history |-> <<EosToken, EosToken>>]

FreshValue == [position |-> 0, history |-> [i \in 0..(HistoryLength - 1) |-> Missing]]

NotStaged == [history |-> << >>, sums |-> << >>]

Init == /\ address = FreshAddress /\ value = FreshValue
        /\ intents = << >> /\ staged = NotStaged /\ running = FALSE
        /\ stream = << >> /\ emitted = << >> /\ convolved = << >>

\* Mutant: the history does not end at an end-of-text token.
ShiftedPastEos(history, token) == <<token, history[2], history[1]>>

\* An end-of-text token hides what is before it; the current token may be one.
Shifted(history, token) ==
    <<token,
      history[2],
      IF history[2] = EosToken \/ history[1] = EosToken THEN EosToken ELSE history[1]>>

\* The address of head h for one token.
Intent(window, h) ==
    LET global == HeadOffset[h] + (Hash(SubSeq(window, 1, Order[h])) % HeadVocabSize[h])
    IN  [global |-> global, member |-> global \div MemberRows, row |-> global % MemberRows]

Intents(window) == [h \in HeadIds |-> Intent(window, h)]

\* kq_ple_generate_one, over the tokens of a chunk.
Generate(state, chunk) ==
    LET step[n \in 0..Len(chunk)] ==
          IF n = 0 THEN [state |-> state, made |-> << >>]
          ELSE LET old == step[n - 1].state
               IN  [state |-> [position |-> old.position + 1,
                               history  |-> <<old.history[2], chunk[n]>>],
                    made  |-> Append(step[n - 1].made,
                                [position |-> old.position,
                                 at |-> Intents(Shifted(old.history, chunk[n]))])]
    IN  step[Len(chunk)]

\* kq_ple_state_validate, without the version and the checksum.
Valid(state) == /\ state.position <= ContextLength
                /\ state.position = 0 => state.history = <<EosToken, EosToken>>
                /\ state.position = 1 => state.history[1] = EosToken

Admitted(chunk) == Valid(address) /\ Len(chunk) <= ContextLength - address.position

\* kq_ple_generate_prefill (a decode step is a chunk of one): a working copy
\* advances, and is committed when all addresses are made.
Address(chunk) ==
    /\ intents = << >>
    /\ Admitted(chunk)
    /\ LET all == Generate(address, chunk)
       IN  /\ address' = all.state
           /\ intents' = all.made
    /\ stream' = stream \o chunk
    /\ UNCHANGED <<value, staged, running, emitted, convolved>>

\* A run of the value operator copies the history.
Begin ==
    /\ intents # << >> /\ ~running
    /\ running' = TRUE
    /\ staged' = [history |-> value.history, sums |-> << >>]
    /\ UNCHANGED <<address, value, intents, stream, emitted, convolved>>

\* Mutant: the taps are read next to each other.
SourcesUndilated(history, p) ==
    [k \in 1..Taps |-> IF k = Taps THEN p ELSE history[HistoryLength - Taps + k]]

\* The rows one output is summed from: the history, every Dilation-th, and its own.
Sources(history, p) ==
    [k \in 1..Taps |-> IF k = Taps THEN p ELSE history[(k - 1) * Dilation]]

ShiftIn(history, p) ==
    [i \in 0..(HistoryLength - 1) |-> IF i = HistoryLength - 1 THEN p ELSE history[i + 1]]

\* The intents of a token are the ones its position expects, or the run fails.
Expected(n) == /\ intents[n].position = value.position + n - 1
               /\ \A h \in HeadIds : /\ intents[n].at[h].member < Members
                                      /\ intents[n].at[h].row < MemberRows

\* One token: its rows are looked up, its output convolved with the staged
\* history, and its own normalised row shifted in.
ConsumeToken ==
    /\ running
    /\ LET n == Len(staged.sums) + 1
           p == value.position + n - 1
       IN  /\ n <= Len(intents)
           /\ Expected(n)
           /\ staged' = [history |-> ShiftIn(staged.history, p),
                         sums |-> Append(staged.sums, Sources(staged.history, p))]
    /\ UNCHANGED <<address, value, intents, running, stream, emitted, convolved>>

\* A lookup, a projection or a numeric check of some token fails, and the call
\* returns; the caller has the intents still and may run them again.
Fail ==
    /\ running /\ Len(staged.sums) < Len(intents)
    /\ running' = FALSE /\ staged' = NotStaged
    /\ UNCHANGED <<address, value, intents, stream, emitted, convolved>>

\* The end of the run: history and position are committed together.
Commit ==
    /\ running /\ Len(staged.sums) = Len(intents)
    /\ value' = [position |-> value.position + Len(intents), history |-> staged.history]
    /\ convolved' = convolved \o staged.sums
    /\ emitted' = emitted \o [n \in DOMAIN intents |-> intents[n].at]
    /\ running' = FALSE /\ staged' = NotStaged /\ intents' = << >>
    /\ UNCHANGED <<address, stream>>

\* The caller resets both streams.
Reset == /\ ~running
         /\ address' = FreshAddress /\ value' = FreshValue /\ intents' = << >>
         /\ stream' = << >> /\ emitted' = << >> /\ convolved' = << >>
         /\ UNCHANGED <<staged, running>>

Next == \/ \E n \in 1..MaxChunk : \E chunk \in [1..n -> Token] : Address(chunk)
        \/ Begin \/ ConsumeToken \/ Fail \/ Commit \/ Reset

Spec == Init /\ [][Next]_vars
-----------------------------------------------------------------------------
\* The token n places before position i of the whole stream, or the sentinel
\* before the beginning.
Back(i, n) == IF i - n < 1 THEN EosToken ELSE stream[i - n]

\* The window of position i by the document (docs/PLE-ADDRESS-CONTRACT.md,
\* "History and segment semantics"), read off the whole stream: a token is seen
\* only if no end-of-text token lies between, itself included.
Window(i) == [n \in 1..3 |->
                IF n > 1 /\ \E k \in 1..(n - 1) : Back(i, k) = EosToken
                THEN EosToken ELSE Back(i, n - 1)]

\* However the stream was cut into chunks, each token's addresses are those of
\* its own window of the whole stream, and each of them is a row of its head's
\* own range, not of the padding behind the last (the checks of lines 584-590 of
\* kq_ple.c and of lines 104-106 of kq_ple_value_qwen38.c never fire).
ChunksDoNotMatter ==
    /\ \A i \in DOMAIN emitted : emitted[i] = Intents(Window(i))
    /\ \A n \in DOMAIN intents :
         /\ intents[n].at = Intents(Window(Len(emitted) + n))
         /\ \A h \in HeadIds :
              LET a == intents[n].at[h]
              IN  /\ a.global >= HeadOffset[h]
                  /\ a.global < HeadOffset[h] + HeadVocabSize[h]
                  /\ a.global < ActiveRows
                  /\ a.member < Members /\ a.row < MemberRows

\* Every output is convolved from its own position and those 1, 2, ... times
\* the dilation before it, never from any other, with nothing before the start.
TapsDilated ==
    \A i \in DOMAIN convolved :
        convolved[i] = [k \in 1..Taps |->
                          LET p == i - 1 - (Taps - k) * Dilation
                          IN  IF p < 0 THEN Missing ELSE p]

\* The two streams never lose each other: the intents waiting are the ones the
\* value stream expects next, and the address state passes its own validation.
StreamsAligned ==
    /\ Valid(address)
    /\ value.position + Len(intents) = address.position
    /\ address.position = Len(stream)
    /\ \A n \in DOMAIN intents : intents[n].position = value.position + n - 1
=============================================================================
