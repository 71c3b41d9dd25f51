# Kestrel-Q: a TLA+ model of the native runtime

Kestrel-Q is a C17 reference runtime for one transformer model.  It is
single-threaded, keeps everything it computes in the caller's process, and
persists nothing.  What is hard about it is not concurrency between threads but
*transactions without a transaction manager*: a call on the model runs through
dozens of stateful operators, any of which may refuse (a payload budget, a
non-finite number, a full cache, a failing read), and the documents promise that
a refused call leaves no trace.  On top of that, the same stream of tokens may
reach the operators in any division into calls, through copies, rollbacks and
resets, and has to give the same result.

This directory models those transactions and the operators below them, checks
them with TLC and proves the central results with TLAPS.  Paths below are
relative to the repository root; `src/` in them is the C source directory.

Contents: [1 inventory](#1-inventory), [2 plan](#2-plan),
[3 modules and code](#3-modules-and-code), [4 runs](#4-runs),
[5 fairness](#5-fairness), [6 proofs](#6-proofs),
[7 disagreements found](#7-disagreements-between-code-and-documents),
[8 limits](#8-what-is-not-modelled), [9 running it](#9-running-it).

## 1 Inventory

From the outside in.  "Status" is that of `PROJECT.json`.

| component | state it keeps | operations | talks to | status |
|---|---|---|---|---|
| `kq-run` program (`src/run_main.c`) | owners, buffers, generated results | open chain, encode, allocate, prefill, decode loop, print, clean up | everything below, in one order | modelled |
| model executor (`src/kq_model_exec.c`) | `position`, `requires_reset`, the layers, a private RNG copy during a call | greedy and sampled prefill and decode, decode rollback, reset | layers, provider, tokenizer, sampling, progress observer | modelled |
| transformer layer (`src/kq_layer.c`) | two slots of every recurrent structure, `active_slot`, `position` | execute (copy, PLE, mixer, experts, commit), rollback_last, reset | mixers, PLE, experts, provider | partly |
| GDN operator (`src/kq_gdn*.c`) | convolution window, recurrent matrix, `initialized` | run, export, import, reset | provider, numerics | partly |
| QSA operator (`src/kq_qsa*.c`) | key, value and raw index-key caches, `length` | run (score, select, attend), export, import, reset | provider, numerics | partly |
| PLE address engine (`src/kq_ple.c`) | position, two-token history, checksum | prefill, decode, validate, reset | value operator through intents | modelled |
| PLE value operator (`src/kq_ple_value*.c`) | position, convolution history | run, export, import, reset | provider's table lookup | partly |
| mixture of experts (`src/kq_moe*.c`) | none of its own | select, record route, run experts, shared expert | provider (requests, traces) | partly |
| weight provider (`src/kq_weight_provider.c`) | counters, touched set, budget, traces, injected failure | linear, row, vector, PLE row, record route, enable trace, fail next | GGUF mapping, every operator | partly |
| sampling (`src/kq_sampling.c`) | a policy; RNG state and draw count in the caller's record | open, seed, next, snapshot, import, reset, filter and draw | executor | modelled |
| tokenizer (`src/kq_tokenizer.c`) | immutable vocabulary, merges and special tokens | open, encode, decode | container, executor, `kq-run` | modelled |
| chat formatting (`src/kq_chat.c`) | none | render, encode the rendered prompt | tokenizer | modelled |
| file mapping (`src/kq_file_win32.c`) | system handle and view | open, view of a window, close | container, tensor views | modelled |
| GGUF container (`src/kq_gguf.c`) | tables over a mapped file | open, query, close | file mapping, registry, tokenizer | modelled |
| model registry (`src/kq_model.c`) | the table of semantics, with the tensors bound to each | open, query, close | container, tensor views, configurations | modelled |
| tensor views (`src/kq_tensor_view.c`) | one window of the file each | open (tensor, expert, PLE member), close | registry, file mapping, provider | modelled |
| inspect program (`src/inspect_main.c`) | none | open, print, close | container, registry, views | partly |
| residual read and write (`src/kq_layer_qwen38.c`) | none of its own | read the streams, write an output back | layer, provider | partly |
| numerics, support code, CUDA smoke test | none | arithmetic, hashing, names | | not modelled |
| Unicode library (`third_party/utf8proc`) | none | UTF-8 reading and writing, categories, compositions | tokenizer | partly |
| tools, tests, benchmarks, research data | | | | not modelled |

How they interact.  `kq-run` opens owners in a chain in which each keeps
pointers into earlier ones.  A call of the executor embeds the tokens, runs all
layers in order over the shared provider, mixes, projects to logits, selects a
token, decodes its text, checks the request accounts, and commits.  Each layer
commits *for itself* as it goes, by swapping its two slots, so a decode step that
fails in a later layer has to be undone in the earlier ones.  A prefill that
fails is not undone: it leaves a debt (`requires_reset`) that the next prefill
pays.  The sampled interface wraps the same functions around a private copy of
the caller's RNG.  The progress observer is called between stages.

Hard behaviours, and what makes each part correct:

* **executor**: failure at any stage of any layer; rollback in reverse; the
  debt; publication of several outputs.  Correct if between calls all layers
  hold exactly the context of the successful calls, no cache overflows, a
  rollback can always be completed, and the caller sees all outputs of a call or
  none.
* **layer**: copies three structures one after the other before it runs, and
  rolls back by flipping an index.  Correct if the active slot is always exactly
  the committed history, and the other slot the state before it for as long as a
  rollback may be asked for.
* **mixers**: read a mixture of committed and pending rows; rows of abandoned
  streams stay in memory.  Correct if each token's output is the one a single
  computation over the whole stream would give.
* **PLE**: two streams advanced by two operators, each of which may fail alone;
  end-of-text tokens hide history.  Correct if addresses and convolution taps
  depend on the stream only, and the two streams never lose each other.
* **experts and provider**: ties in the router; order of visiting against order
  of weighting; accounts that must describe what was served; traces of fixed
  size; a budget that runs out in the middle of a call.
* **container**: a file of any content, and a system call or an allocation that
  may fail, at every point of a parse with some hundred exits.  Correct if a
  refusal leaves nothing held and an acceptance means that the tensors lie apart
  from each other inside the file, although each was compared with one other.
* **registry and views**: a table of semantics matched with names, shapes and
  types; one tensor that is two semantics, one semantic that is several tensors.
  Correct if every tensor is explained exactly once, and every view of an
  accepted model opens, shows whole blocks and partitions its tensor.
* **tokenizer**: a hand-written scanner in place of a regular expression, merges
  by rounds in place of one at a time, code points split over tokens.  Correct if
  it agrees with the plain definitions and decoding inverts encoding.
* **sampling**: ties at the k-th score, the cut of the nucleus, intervals of
  random words, a generator that must not move when a selection is refused.
* **kq-run**: some twenty places from which to reach one cleanup; scratch that
  has to grow; a prompt check that must leave room for every later decode.

`PROJECT.json` lists each hazard with its line and the properties that cover it.

## 2 Plan

Order of work, most important behaviour first; what is done is marked.

1. **Done.** Layer transaction (`KqLayerSlots`, `KqLayerAtomic`, `KqLayer`) and
   executor (`KqSession`, `KqModelExec`), with refinements and proofs.
2. **Done.** `kq-run` over the atomic session (`KqRun`).
3. **Done.** Weight provider (`KqRowOrder`, `KqWeightProvider`) and the experts
   over it (`KqMoe`).
4. **Done.** PLE streams (`KqPle`).
5. **Done.** The mixers behind the slots (`KqMixer`), a second, lower
   implementation of `KqLayerAtomic`.
6. **Done.** From a path to views of the weights: file mapping and container
   (`KqGguf`), registry (`KqRegistry`), views (`KqTensorView`), over a file that
   may be anything and a system that may refuse anything.
7. **Done.** Tokenizer and chat (`KqTokenizer`) and the sampler with its RNG
   (`KqSampling`), and the composition of all these in the order in which the
   programs open, use and close them (`KqText`).
8. **Done.** The memory of a call (`KqScratch`) under the program that allocates
   it (`KqProgram`).
9. *Then.* Snapshots of the PLE value stream; the structural preflight of a
   layer; the executor over the real provider with a cumulative budget.

Module structure.  `KqModelExec` EXTENDS `KqLayerSlots` (the layer as data) and
implements `KqSession`; `KqLayer` and `KqMixer` both implement `KqLayerAtomic`,
the interface `KqModelExec` is written against; `KqRun` is written against
`KqSession`; `KqProgram` composes `KqRun` with `KqScratch`; `KqMoe` EXTENDS `KqWeightProvider`, which EXTENDS `KqRowOrder`;
`KqText` EXTENDS the parts that read the file and the sampler.

    KqProgram --extends--> KqScratch
        | extends
    KqRun --uses--> KqSession <--implements-- KqModelExec
                                                  | uses
                                             KqLayerSlots / KqLayerAtomic
                                                  ^ implements
                                       KqLayer  --+--  KqMixer
    KqMoe --extends--> KqWeightProvider --extends--> KqRowOrder      KqPle

    KqText --extends--> KqTensorView --> KqRegistry --> KqGguf
                   +--> KqTokenizer ----------------------^
                   +--> KqSampling

The theorems are those of section 6.  Every safety property that a run checks is
one of them; what is left to TLC, and why, is said at its end.

## 3 Modules and code

`PROJECT.json` maps every definition to its lines.  The abstractions:

* **`KqLayerSlots`**.  `struct kq_layer_state` as a record.  What a slot holds is
  a function of the tokens folded into it since the reset, so a slot *is* that
  sequence of tokens; two slots are equal when their sequences are.
* **`KqLayer`**.  `kq_layer_execute` stage by stage: `Begin` (the QSA admission),
  `CopyMixer`, `CopyAddress`, `CopyValue` (`kq_layer_copy_slot`), `Address`, `Value`, `Mix`,
  `Commit`; `Fail` at every stage; `RollbackLast`; `Reset`.  The three families
  of layers (GDN, QSA, GDN with PLE) are an initial choice.  `RollbackLast` is
  enabled when the executor may call it: once, directly after a commit.
* **`KqModelExec`**.  One action per stage of `prefill_select_f32` and
  `decode_one_select_f32`, which share them; `kind` and `sampled` select the
  branch.  A layer call is the whole-call effect of `KqLayerSlots`; a failing one
  may leave any of three scribbles in the staging slot.  `AccountFail` is the
  check that the expert requests are a multiple of three: it can only fail when
  somebody else used the provider during the call, which the constant
  `ObserverProvider` allows or forbids.  `FailCall` is the exit of each kind of
  call: a decode rolls back, a sampled prefill resets, a greedy one returns.
* **`KqSession`**.  The contract of `include/kq_model_exec.h`: a context and a
  set of outputs, changed together.
* **`KqRun`**.  `wmain` by place (`pc`).  `open` is the set of owners and buffers
  held; `Borrows` says whose memory each keeps a pointer into.
* **`KqScratch`**.  One call of the executor, by what it does with the block of
  memory it was given.  Its steps are those of `prefill_select_f32` and
  `decode_one_select_f32` and, per layer, those of `kq_layer_execute`.  There are
  three independent descriptions of that memory in the code, and three in the
  model, with the program's own sizes: the sums (`Required`, `LayerRequired`,
  `QsaBytes`, ...), the cursors (`ExecParts`, `LayerParts`, `QsaParts`, ...) and
  the requests and writes (`QsaRequests`, `QsaWrites`, ...).  `Admitted` is every
  check of room and of overlap on the way down; contents are left out.
* **`KqProgram`**.  `KqRun` over `KqScratch`: `Need` is the executor's own answer,
  and a call succeeds only at the end of its steps.
* **`KqRowOrder`**.  The permutation of heads between the canonical order and the
  one the file is written in.  The file's side is external and taken from how
  the code undoes it.
* **`KqWeightProvider`**.  A request is served, refused by the injected failure,
  or fails while decoding; `Charge` is `account`, `Note` the traces.
* **`KqMoe`**.  A token at a time, a request at a time, over the provider.
  Probabilities are small integers with ties.
* **`KqPle`**.  The rows of a position are identified by the position; `Hash` is
  a parameter.  `Begin`, `ConsumeToken`, `Fail`, `Commit` are the value
  operator's run on a staged history.
* **`KqMixer`**.  Both mixers behind the slots of one layer.  A GDN matrix is the
  sequence of windows it was updated with.  A QSA row is its input, keys with the
  position they were rotated to; memory beyond `length` keeps its old rows.
  `Score` is a parameter of query, position, block content and block.

* **`KqGguf`**.  `FileNext` is `kq_file_open`, one acquisition per action, each
  of which the system may refuse; `ContainerNext` the parser, record by record.
  The checks of a record are a sequence of pairs (what must hold, the refusal if
  it does not) in the code's order, and the verdict is the first that fails.
  `held` is what the process holds.  The bytes of a file are the records they
  spell and where each ends, so a file that ends early ends inside a record.
  The spans are sorted as the code sorts them and each is compared with the next.
* **`KqRegistry`**.  `Registry` is the program's fixed table built by its loops,
  with the sizes as a parameter; one action per semantic looks its tensors up.
  `AllocateModel`, `AllocateEntries` and `CheckEntries` are its three allocations:
  the two tables are both asked for before either is looked at, so any of them may
  be there when a refusal gives everything back.
* **`KqTensorView`**.  `ViewRefusal` gives the checks of the three ways to open a
  view in their order; `OpenView` may still be refused by the system.
* **`KqTokenizer`**.  `NextPretoken` is the scanner, `BpePiece` the merges by
  rounds, `Repaired` the replacement of bytes that are not UTF-8.  A digest is
  the array it is the digest of: arrays that differ are refused.  `OpenTokenizer`,
  `AllocateLookup` and `BuildTokenizer` open one: the record, any of the three
  tables, and the check of them and of the container's arrays.  The normal form
  (`Nfc9`) composes neighbours only, by a table that is a parameter: it stands for
  the library's, which the properties use but say nothing about.
* **`KqSampling`**.  `Select` works on a private copy of the generator, and every
  refusal is one of its alternatives.  A snapshot is a copy the caller keeps and
  may restore at any later time.
* **`KqText`**.  One thread: one part is used at a time, and what is opened over
  the container is closed before it.

Definitions marked "Mutant" are deliberately wrong variants of the definition
that follows them.  They are used by nothing; replacing the definition by its
mutant makes the property named in `PROJECT.json` fail, which shows that the
property depends on that part of the code.

History variables (`committed`, `previous`, `undo`, `context`, `published`,
`stream`, ...) are declared apart from the program's and never read by it,
except where a guard states what the only caller does (`RollbackLast`).

## 4 Runs

| run | question | bounds, and why they are enough | distinct states |
|---|---|---|---|
| `layer` | is a layer call atomic, and its commit undoable? | chunks of 1-2 of two tokens, capacity and context 3, histories to 4: refusal by capacity, by context, copies over longer and shorter slots, a failure between any two copies, rollbacks of both lengths | 11 thousand |
| `exec` | do the layers stay in lockstep, can a rollback always finish? | three layers (first, middle, last failing differ), one with caches, capacity 3, one padded id, one end-of-generation id, an exhaustible RNG | 54 thousand |
| `exec_session` | is the executor an atomic session, and what may an observer read when it is told? | two layers, as above | 13 thousand |
| `program` | what is printed, is everything released, and is there room for every step of every call? | capacity 4, up to 3 new tokens: prompts of 1 and 2 tokens always fit, of 3 with fewer new tokens, of 4 never; a block of the attention completes at the last position; one layer of each family, with the program's sizes | 56 thousand |
| `provider` | do accounts, budget and traces describe what was served? | seven tensors, one per way of request; budget, touched set and counters each run out within four events; traces of 1-3 entries | 457 thousand |
| `experts` | is the route the documented one and the output that of the route? | four experts, two selected, three levels of probability: every pattern of ties; three tokens, a budget that ends in the third | 101 thousand |
| `ple` | do chunks and failures matter? | all streams to seven tokens over two words and end-of-text, in chunks of 1-3; kernel of 3 taps with dilation 2, so taps look over chunk borders | 43 thousand |
| `mixers` | are outputs those of the whole stream? | streams to six rows in chunks of 1 and 3; blocks of two, two of at most three kept; window of three.  The two inputs are interchangeable (the score only compares them), hence the symmetry | 469 thousand |
| `text` | what does opening a file establish, and do tokenizer and sampler do what their references say? | below | 65 thousand |
| `layer_previous`, `exec_outputs`, `provider_reads` | the statements of section 7 | as their sibling runs | stops at the violation |

In `program` each layer, operator and request computes its place from what it was
given, so one layer of each family stands for all 48: the block and the sizes do
not depend on which one it is.  What `decode` asks for does not depend on the
position either, so the program's `realloc` never has to grow the block; that it
would grow it enough is `LoopIsAdmitted`, for any `Need`.  `Base` lies above the
first 105 megabytes of the address space: in the PLE value operator the null
pointers of the projections that the provider replaces
(`src/kq_ple_value_qwen38.c:89-96`) are compared with the buffers as if they were
arrays at the address zero.  `ScratchAssumption` says so.

The run `text` explores each of its parts to the end, from files chosen so that
each check decides some of them:

* 1,024 directories of three tensors: all combinations of four offsets and two
  sizes, in files long enough or not, so that every way in which two or three
  spans touch, overlap or coincide occurs;
* a file with a record of every type, cut after every byte, and with each of some
  forty things wrong in its header, metadata or tensor table;
* a whole model of two layers (one recurrent, one attending), two experts and two
  PLE members, with all of the program's semantics; the same model without some
  tensor of each part, with another type or shape, with metadata missing,
  mistyped or different, and with one tensor too many;
* over the model, every view that may be asked for of stacked, fused and plain
  tensors, two at a time; texts of up to three code points of any class, up to
  four that are blank or not, up to six of the letters the merges are about, and
  longer ones with a point to them; sequences of three ids, among them halves of
  code points; fourteen conversations;
* every vector of four scores of three values, of both signs, under eight policies
  (one under which only zero stays within range) and eight that are refused, a
  stream of up to three draws from eight words, snapshots
  and restores at any time.

Every system call and every allocation may fail in every one of these.  Words
are 29 bits wide, so that sums near the largest of them can be formed; the
limits of the directory are small and each is exceeded by one file.

Shape of the properties.  Type invariants are proved (section 6) and not
repeated in the runs.  The properties of the runs
relate the model's state to a history: `ActiveIsCommitted`, `PreviousIntact`,
`Lockstep`, `RollbackSound`, `AnnouncedOutputs` (transaction); `ImplementsAtomic`,
`ImplementsSession` (refinement, checked as temporal properties);
`ChunksDoNotMatter`, `TapsDilated`, `OutputsOfStream`, `RouteAsDocumented`,
`OutputOfRoute`, `PretokensAsRegex`, `MergesAsReference`, `FilterAsContract`,
`WordsProportional` (against a reference read off the whole input);
`RoundTrip`, `StreamUnbroken` (one operation undoes or continues another);
`SpansDisjoint`, `EveryTensorBoundOnce`, `RegisteredTensorsViewable`,
`ViewsShowTheirElements` (what passing a list of local checks amounts to);
`RefusalLeavesNothing` (a failure at any point);
`CallHasRoom`, `BuffersHold` (a sum, a cursor and a request in three files);
`OwnersOutliveUsers`, `DecodeAdmitted`, `AccountsServed`, `TracesTruthful`,
`StreamsAligned`, `IntentsAlwaysAligned`, `CopyAccepted` (two pieces of state kept by different code);
`EndsReleased` (liveness).

`CHECK_DEADLOCK FALSE` is said where the system really stops: `kq-run` exits, and
the provider and the experts' runs stop when a bounded number of events or calls
has happened.

## 5 Fairness

The library has no wait, no lock and no thread: a function that was entered keeps
executing, and its loops are bounded.  What has to happen in the end, the cleanup,
is the program's: `kq-run` is a sequential program, hence weak fairness of its
whole next-state relation.  It does not say which outcome a step has: success and
failure of a stage are both fair choices, and `EndsReleased` holds although every
stage may fail.  The other specifications assume no fairness.

## 6 Proofs

Proved for all values of the constants, from the assumptions the modules name:
`LayerAssumption`, `ExecAssumption`, `RunAssumption`, `ScratchAssumption` (the
block is aligned as an allocation is), `ProgramAssumption`, `PleAssumption`,
`MixerAssumption` and `ScoreAssumption` (block scores are finite numbers: a run
whose score is not one is refused), `RowOrderAssumption`, `ProviderAssumption`,
`MoeAssumption`, `ViewAssumption`, `BytesAssumption`, `VocabularyAssumption` (the
vocabulary that the digests fix: its merges are in the order they were learnt in,
its special tokens have texts that no merge makes), `CategoriesAssumption` (no
code point is both letter and number, and neither is white space or the
apostrophe), `TextAssumption` (texts are code points and bytes that are none;
what two code points compose to is one), `GgufAssumption`, which says that sizes, counts and offsets are naturals and
nothing of what they amount to, `RegistryAssumption` (numbers of layers, experts
and shards are naturals, the last two not zero), `SizesAssumption` (the fused
table has at least two members and a whole number of rows, and the elements of
the two splits can be counted in a word: the program's own sizes, far below it),
`CallAssumption` (a call on a
view names a row of the table; it may ask for any binding and any expert) and
`SamplingAssumption` (a finite score is a whole number, the weight of a distance
between two scores in range a natural, not zero at distance zero).  TLC evaluates each of them in a run.

* `KqLayerProofs`: `ActiveSlotCorrect`, `UndoSlotCorrect`, `IntentsStayAligned`,
  `QsaCachesBounded`, `LayerIsAtomic`.  The inductive invariant adds to the
  checked ones what each *stage* has established of the staging slot: after the
  copy it equals the active one, after the mixer it is one chunk ahead, and so
  on.  Without it the commit, which only flips an index, could not be shown to
  yield the extended history.
* `KqModelExecProofs`: `TypeCorrect`, `LayersInLockstep`, `DebtOnlyAtZero`,
  `RollbackIsSound`, `CapacityRespected`, `ObserverFindsLogits`, for any number
  of layers.  The strengthening says, of a call in progress, that the first `done`
  layers hold the context and the chunk with the context in the other slot, and
  the others the context alone; of a debt, that it is at position zero and that
  no layer is above the capacity.  Then, for an observer that leaves the weight
  provider alone, `SessionImplemented`, the refinement of `KqSession`, and
  `OutputsArePublished` and `OutputsAtAnnouncement`: the extra invariant ties the
  staged token, the RNG and the published outputs to the call's stage.
* `KqProgramProofs`: of the program, `TypeCorrect`, `LoopIsAdmitted`,
  `TranscriptIsWhole`, `CleanupInOrder`.  The strengthening says, place by place, what is known after
  `r` results: the context is the prompt followed by the first `r - 1` of them,
  and so the check made once, of the prompt, leaves room for every decode the
  loop can still make.  `CleanupInOrder` needs no more than the types: release
  goes by one fixed order from wherever a stage failed.
  Of the program over the memory of its calls, `ProgramIsARun` (it is a run of
  `KqRun`, so that these hold of it too), `CallsHaveRoom` and `BuffersDoHold`: for
  every context capacity, prompt, list of layers and place of the block, with
  the program's own sizes.  The inductive invariant says of a call in progress
  only that its position and tokens lie in the context, that it was given at
  least `Required` and that its stage is one of its layer's family; that this
  admits every step is arithmetic on the lists of buffers.  Each sum
  (`QsaBytes`, `BaseRequired`, ...) is that of the list of its cursors; two
  buffers of one list are apart, and a buffer of a list ends where the list does
  (`CutIs`, `CutApart`); so the regions of the executor, the layer, the
  operator, its vectors and what a request stages lie in this order and
  apart, and each request goes between buffers of its size.  Where a layer's
  share is the most any family asks for, each family has at least its own.
  That the call is given `Required` uses `BlockInv`, that the block for the
  prefill is the one that was asked for, and of a decode `DecodeAdmitted`.
  `ProgramAssumption` says that the answer `Need` is `Required`, and that the
  program configures the executor with the capacity it checks prompts against.
* `KqMixerProofs`: `CopyIsAccepted`, `OutputsAreOfStream`,
  `AttentionKeepsWithinBudget`, `NoStaleQsaRow`, `MixersAreAtomic`.  The invariant
  says which history each slot has folded in and, of a run, how far its own copy
  (GDN) or its pending rows (QSA) are ahead, and what its outputs so far are.  It
  says nothing of a cache beyond `length`: rows left there by abandoned calls may
  be anything, and the theorems show that they are never taken for rows of the
  stream.  Of the insertion sort of the blocks it is shown that after each
  candidate the best so far are kept, in order (`Chosen`); the n-th is then the
  one block with n - 1 better ones, which is the document's (`BestIs`).  The
  token budget follows from the uniqueness of quotient and remainder: no two
  places of the selected blocks and the tail name one token.
* `KqMoeProofs`, of the weight provider: `PhysicalRowIsStored`, `RowsAreCanonical`,
  `BoundsKept`, `AccountsAreServed`, `TracesAreTruthful`.  The first is
  arithmetic: undoing the converter's permutation is its inverse for heads of any
  number and size, where the run looks at one small shape.  The last two tie the
  counters and each trace to the history of requests: a counter is the number or
  the sum of what was served, and a trace holds, in order, the requests it notes
  from where it was enabled to where it is full.
  Of the mixture of experts, which EXTENDS it: `RoutesAreDocumented`,
  `OutputsAreOfRoutes`, `TracesDoAgree`.
  The scan for the best experts replaces a worst one as it goes; what is kept
  after n ids is characterised by what may be left out (`Kept`), and at the end
  that is the documented set, each member at the place that the number of better
  ones gives it.  Of a token in progress the sum is over those members that are
  below the loop variable; what the history tells of it follows block by block.
* `KqPleProofs`: `AddressesOfStream`, `TapsAreDilated`, `StreamsStayAligned`.  The
  two tokens that the address engine remembers are the last of the stream, the
  intents that wait are those of the tokens not consumed, and the history of the
  convolution is the positions before the next; for any kernel, dilation and
  cutting into chunks.
* `KqTextProofs`: `SpansAreDisjoint`, `NothingLeaks`, `StreamIsUnbroken`, of the
  programs of `KqText` over a file of any content.  A verdict of "OK" means that
  every check of its sequence holds; from those of a record its size is known,
  from those of a span that it ends before the next begins.  The sort order is
  total, so the next one stands for all that follow, which is why comparing
  neighbours is enough.  The leak proof says, stage by stage, what may be held, by the container, the registry over it and the tokenizer over that.  The
  generator's state is the seed's after as many steps as words were given, and
  those words are the seed's.
  `TensorsAreBoundOnce`: the invariant `Explained` says of a registry in progress
  that its coverage is the tensors named by the parts of the rows done, and that
  two parts share a name only where a later shard of the fused table does.  The
  names in the table, for any number of layers, are shown to differ otherwise;
  as the parts of the whole table cover the file, each tensor is bound once.  `ViewsDoShowTheirElements`: each open view
  shows a run of whole blocks that are those of its member (`Shown`).  Members of
  one tensor are then apart because their element ranges are, and views of two
  tensors because the spans are (`SpansAreDisjoint`).
  `RegisteredTensorsAreViewable`: when the model opens no legitimate call would be
  refused.  Each row of the table is shown to have as many canonical elements as
  its tensors (`Sized`; a product of sizes is a number or the overflow's zero, and
  an accepted tensor's is not zero), the registry has compared the tensors' shapes
  with the rows' (`SoFar`), and the reader has accepted whole blocks only
  (`Blocked`), so that members are whole blocks too (`MemberRange`) and end inside
  the file (`SpanPasses`).
  `FilterKeepsContract` and `WordsAreProportional`, of the selection.  The order is
  total, so the place of an id is the number of ids under it and the sort a
  bijection; a running sum over places is then the total of the weights of ids,
  which is what the documented sets are defined by, and grows with the place: the
  loop stops where the contract's bound is passed.  The words an id owns are the
  multiples of the total between two neighbouring running totals, as many as
  their distance asks for, to within one.
  `PretokensAreRegex`, `MergesAreReference` and `RoundTrips`, of the tokenizer.  The
  invariant of the program is `CallFits`: an open tokenizer has the tables that an
  accepted vocabulary gives, and a call says what the operators make of its text.
* `KqTokenizerProofs`: what those operators make of any text.  Each case of the
  cursor is the longest match of one alternative of the expression, with none
  before it (`NextIsRegex`).  A round of merges is as many single merges as there
  are places of its pair, because what a merge makes is part of pairs of higher
  ranks only (`RoundIsSteps`); this is where the order of the merges is needed,
  and without it the two differ.  Decoding: what two tokens merge to is spelled
  as the two, one behind the other, so merging leaves what is spelled as it is
  (`MergedSpells`); gathering the words of the tokens and repairing them then
  gives the text, which repairing leaves as it is (`RepairedSame`), where for any
  other bytes it leaves UTF-8 (`RepairedWell`).  The vocabulary and the text are
  of any length and content; the Unicode tables are parameters.

A recursive function (`SelectBlocks`, the scan for experts, the engine's
`Generate`, the sampler's steps, the tokenizer's loops) is first shown to exist, then to have at each
argument what a step preserves; both by the least argument at which it would
not, from the well-foundedness of the naturals, because induction theorems that
take an operator are out of the provers' reach.

Model-checked only: liveness (`EndsReleased`), which needs reasoning about ENABLED.

## 7 Disagreements between code and documents

Three runs show a statement of the repository that the code does not keep.

* `layer_previous`.  `src/kq_layer_internal.h:66-67` says the previous slot
  remains intact until the next *successful* operation.  `kq_layer_execute`
  copies over it first, so a failed call destroys it.  The executor never asks
  for a rollback after that.
* `exec_outputs`.  `docs/KQ-MODEL-EXEC-API.md:64-65` says a failed prefill leaves
  the decoded output unchanged.  The greedy prefill decodes into the caller's
  buffer before the request accounts are checked; an observer that uses the
  provider makes that check fail.
* `provider_reads`.  `docs/TARGET-WEIGHT-PROVIDER-CONTRACT.md:63-64` says bytes
  are counted immediately *before* each decode; they are counted after it, and
  not at all when it fails.

Noted without a run: while `TOKEN_SELECTED` is emitted in a sampled call
(`src/kq_model_exec.c:912`, `:1186`), position and logits are committed and RNG,
text and result are not yet published.  No document promises otherwise;
`LogitsOfLayers` and `AnnouncedOutputs` state what an observer may rely on at that
moment.  The
experts' output buffer is written token by token and is not restored on failure;
`docs/KQ-MOE-API.md:47-53` does not promise it.

## 8 What is not modelled

* Floating-point arithmetic, block formats and their decoding: out of reach of a
  model checker, covered in the repository by differential tests.  A value is
  identified by what it was computed from.
* Calls that are refused before they touch anything (null pointers, wrong sizes,
  overlapping buffers of the caller): their conditions are guards or left out.
  The checks of room and overlap inside a call are `KqScratch`.
* An observer that re-enters the state it observes: assumed not to happen; the
  code does not guard against it.
* The Unicode tables (categories and compositions are parameters), the digests
  (a digest is what it is the digest of), printing, the CUDA smoke test: no state
  or pure I/O.  Of the Unicode library, reading and writing UTF-8 is modelled.
* The growth of the tokenizer's buffers and the lookup tables' slots: what they
  find is modelled, where they store it is not.  The lengths of the texts in the
  registry's own table.  Rounding in the sampler:
  weights are whole numbers.
* The opening and closing of the executor's and the operators' own tables: the
  executor is modelled from its first call.
* Padding masks: the executor passes none.

## 9 Running it

    tlc -workers 2 -config MCKqModelExec.cfg MCKqModelExec
    tlapm KqModelExecProofs.tla

Every `MC*.cfg` belongs to the module of the longest prefix of its name
(`MCKqLayerPrevious.cfg` to `MCKqLayer`).
