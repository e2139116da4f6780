# A verification of md5-simd

TLA+ models of the `md5-simd` crate, the TLC configurations that check them on
small instances, and TLAPS proofs of the results that matter most. Paths such as
`src/core.rs` are relative to the crate (`src/src/core.rs` in `PROJECT.json`).

Contents: [the system](#1-the-system), [modules](#2-modules-and-the-code-they-model),
[runs](#3-runs-bounds-and-what-they-show), [fairness](#4-fairness),
[proofs](#5-what-is-proved), [finding](#6-a-divergence-of-code-and-documents),
[limits](#7-what-is-not-modelled-and-why), [plan](#8-plan).

## 1. The system

A library that computes MD5: of one message at a time, as a stream, and of many
independent messages at once in the lanes of vector registers. It has no
threads of its own, no I/O except the reads it asks a caller's `Read` for, and
nothing persistent. What is hard about it is *sequences of calls* on stateful
hashers, *boundaries* (55/56/63/64 bytes, thresholds, full and partial groups,
counters that wrap), *order inside a step* (a software pipeline, a gather that
runs ahead of its compression, hand-written shuffles), *partial failures* of a
reader, *batches that must fail before they write*, and one piece of shared
state: the cached probes of the processor, which the caller's threads race to
fill and which unsafe code relies on.

| component | state it keeps | operations | interacts with | what makes it correct |
|---|---|---|---|---|
| Final blocks and one-shot hashing (`frame.rs`, `backend.rs`) | none | `build_final_blocks`, `hash_with`, `finalize_with`, `empty_digest` and the selectors `hash*` | any kernel, as a function of a state and a block | every entry point and fast path gives the digest of RFC 1321 |
| Streaming state machine (`core.rs`, `md5.rs`, `state.rs`) | chaining value, 64-byte buffer, buffered length, byte count | `new`, `from_parts`, `update`, `finalize*`, snapshot, `reset`, `zeroize`, clone and copy, drop | a kernel; the reader loop and the batch engine call it | how a message was split, cloned or resumed leaves no trace; each digest is that of the bytes absorbed |
| Compression kernels (`compress.rs`, `simd/single_aarch.rs`, `simd/single_x86.rs`, the step of `simd/wide.rs`, `consts.rs`) | four registers, a scratch register | 64 steps per block | called by everything above | each is the 64 steps of RFC 1321, including the one that works ahead |
| Fused equal-length kernel (`simd/wide.rs`) | one state per group of lanes, gathered words of the next block | `hash_equal_wide`: gather, compress, pad, scatter | vector adapters; called by the dispatcher | all lanes in step, each load inside its message, only the caller's slots written |
| Vector adapters (`simd/avx2.rs`, `avx512.rs`, `neon*.rs`) | none | transposing gathers, rotates | the fused kernel | lane l receives word w of message l |
| Batch scheduler (`simd/mod.rs`, `simd/platform.rs`, `multibuf.rs`) | cursor, run, progress in the run | `hash_many_dispatch`, `pick_batch`, `hash_equal_n`, the scalar pair path | the fused kernels, one-shot hashing | the contract of each kernel is kept, every slot is filled, every call ends |
| Processor detection (`simd/platform.rs`) | two `OnceLock`s of the process, one initialised from within the other | `x86_has_avx2`, `x86_has_avx512`, asked by `lanes`, `hash_equal_n` and `name` | every thread that hashes a batch | all probes of all threads agree; no kernel runs without its instructions; nobody waits in a circle |
| Batch engine (`engine.rs`) | a permutation, a scratch vector | `hash_many`, `hash_many_grouped`, `hash_many_hex`, `md5_many`, `update_many`, `finalize_many` | the scheduler, the streaming states | output k is the digest of input k whatever the order in between; sorting only when it gains something |
| digest-crate adapter (`digest_compat.rs`) | a core that counts blocks, the block buffer of another crate | the traits `Update`, `FixedOutput`, `Reset`, ... | the final blocks | it answers like the native hasher |
| Reader loop (`md5.rs`) | a hasher and a reused read buffer | `digest_reader`, `etag_hex_streaming` | a caller's `Read` | exactly the delivered bytes are hashed; an error gives no digest; the call returns |
| Hexadecimal output (`md5.rs`) | none | `hex_encode_into` and what is built on it | the engine, the reader loop | it can be read back; without room nothing is written |
| Backend names (`backend.rs`), benches, examples, scripts | none | | | |

Interactions: `Md5` and `Md5State` wrap one `Raw`; `Raw` and the one-shot
functions share `build_final_blocks` and are generic over the kernel; the engine
calls the dispatcher, the dispatcher slices a batch into calls of a fused kernel
or falls back to one-shot hashing; the reader loop drives an `Md5`; the adapter
uses the same final blocks behind somebody else's buffer. The hazards of each
part, at the line where they bite, are listed in `PROJECT.json` (`hazards`)
with the properties that would catch them.

## 2. Modules and the code they model

Each module says at its top which files it translates; `PROJECT.json` (`map`)
names the lines of each definition. Definitions keep the names of the source.
A definition whose comment begins with *Mutation* is a plausible bug, kept next to
the definition it would replace: `PROJECT.json` (`mutants`) says which property
catches it. The model itself uses none of them.

```
 Rfc1321 <- Md5Base <- Md5Frame <- Md5Raw <- Md5Stream --implements--> MessageDigest
                          |  ^        ^----- Md5Digest --implements------^
                          |  PairHash
                          |           ^----- Reader
                          |           ^----- ManyStreams --implements--> ManyDigests
                          '--<-- Wide (over Lanes) ------implements--> BatchHash
                                 Dispatch ---------------implements------^
                                 Engine -----------------implements------^
   BatchCalls = Engine with Dispatch inside  --implements--> Engine, BatchHash
   FusedCall: the interface of Dispatch, which makes fused calls, and Wide
   Platform: the probes that justify a constant platform in Dispatch
   OneShot: what Md5Frame, PairHash and Hex promise for one input
 Schedule <- Words <- WordLaws;  Words <- Kernels --implements--> RfcCompression
```

*Data.* Sizes are constants of `Md5Base` (`BlockSize`, `LenBytes`, `ByteBits`,
`Radix`, `CountMod`), so that a run may use 4-byte blocks while a theorem speaks
of every geometry, 64-byte blocks and 2^64 counters included. In these modules a
chaining value is the *free* compression function: where it started (the IV, or
the all-zero state that `zeroize` leaves) and the bytes compressed since. Two
values are equal exactly if the same blocks went in, in the same order, so a
result about them holds for each kernel, and a missing, extra, swapped or stale
block is always seen. What the kernels do inside a block is the business of
`Kernels`, where words are abstract (`Words`) and obey the laws of `WordLaws`.
In `Dispatch` and `Engine` a message is its length and an identity, all that
the code looks at. In `Lanes` a lane of a register holds the *address* its word
was loaded from, which makes a gather a function that can be compared with the
transpose it should be, and a load something that is inside its message or not.

| module | models | state and actions |
|---|---|---|
| `Rfc1321` | RFC 1321, sections 3.1 to 3.2: the reference | `RfcDigest` |
| `Md5Base`, `Md5Frame` | `frame.rs`, `backend.rs` | operators `FinalBlocks`, `FinalizeWith`, `HashWith`, `Hash`, `HashOracle` |
| `PairHash` | `multibuf.rs`: `compress_pair`, `hash_pair` | operators: two chaining values that take a block each per step, both loops of `hash_pair` with the block count of the first message, and its early return |
| `Md5Raw` | `core.rs`: `Raw` | a record `state, count, buf, buf_len`; `Absorb` in its three branches (top up, flush, bulk and tail), `FromParts`, `Zeroize`; the stale bytes beyond `buf_len` are kept, as in the code |
| `Md5Stream` | `md5.rs`, `state.rs` | several handles, each a `Raw` or nothing: one action per method, `Clone` between handles, drop with and without the feature `zeroize` |
| `MessageDigest` | what a hasher promises | a handle is the message it absorbed |
| `Md5Digest` | `digest_compat.rs` with the buffer of the digest crate (external) | per handle a core and the waiting bytes |
| `ManyStreams` | `engine.rs`: `update_many`, `finalize_many`; `state.rs` | an array of `Raw`; a call checks the number of inputs or slots and then does one stream per step; single updates, resets and copies in between |
| `ManyDigests` | what the multi-stream calls promise | a stream is the message it absorbed; a call extends all or none |
| `Reader` | `md5.rs`, the read loop; the reader is external | the two calls; a read that is short, scribbles beyond what it delivers, is interrupted or fails; the `match` on its answer |
| `Schedule`, `Words`, `WordLaws` | `consts.rs` and the literals of the vendored kernels; 32-bit words | tables as data |
| `Kernels` | the kernels, step by step; the vector step once with the operations of the x86 adapters and once with those of NEON | one step is one MD5 step of whichever kernel the build has; the x86 kernel adds the next word early and carries an operand in `t1` |
| `RfcCompression` | RFC 1321, section 3.4 | the 64 steps with the formulas of the RFC |
| `Hex` | `md5.rs`: `HEX_PAIRS`, `hex_encode_into`, `hex_encode` | operators over a caller's slice |
| `OneShot` | what one-shot hashing, alone and in pairs, and hexadecimal output promise | the input is its only variable; `MCFrame` bounds it |
| `FusedCall` | the assertions on entry of `hash_equal_wide`, `MAX_GROUPS`, the lane counts | `MayCall`, what the caller of a fused kernel owes it: `Wide` starts in calls that satisfy it, `Dispatch` is shown to make no other |
| `Lanes` | `simd/avx2.rs`, `avx512.rs`, `neon.rs`, `neon8.rs` | each unpack, permute, `vtrn`, combine and insert as a function of lanes; the gather of each adapter built from them as the code builds it |
| `Wide` | `simd/wide.rs`: `hash_equal_wide` | the adapter is chosen at the start; entry, the single-group and sequential loops, the pipelined loop with its prefetch, padding per group, return |
| `Dispatch` | `simd/mod.rs`, `multibuf.rs` | entry check, run scan, one action per call of a kernel, the scalar pair loop; the platform is chosen at the start |
| `Platform` | `simd/platform.rs`: the probes, `lanes`, `hash_equal_n`, `name` | per thread its place in a probe and in a call; a `OnceLock` is empty, being filled by a thread, or ready; the cell of AVX-512 asks the other one while it is filled |
| `Engine` | `engine.rs` | entry check, the two scans that decide, the unstable sort (any sorted permutation), the hash of the sorted batch, the scatter one slot at a time |
| `BatchCalls` | the composition of `Engine` and `Dispatch` | what `Engine` does in one step (`HashMany`, `HashTemp`) is here a call of the scheduler, step by step, on the caller's slots or on a temporary |
| `BatchHash` | what a batch call promises | slots are written once with their own digest, or the call panics before the first write |

`MC*` modules instantiate these for TLC. The modules whose names end in `Proofs`
hold the theorems: `RawProofs` (arithmetic, framing, one `Raw`), on which
`Md5StreamProofs`, `Md5DigestProofs`, `WideProofs` and `CallProofs` build (the last
has the reader loop, the multi-stream calls and the pure functions);
`DispatchProofs`, on which `BatchProofs` builds; and `KernelProofs` (the kernels,
and the probes that choose one).

## 3. Runs, bounds and what they show

| run | question | bounds, and why they are enough |
|---|---|---|
| `frame` | does every entry point pad as the RFC does, and is hexadecimal output right? | the real 64-byte block and 8-byte length field (bytes of two bits keep the numbers small): every length from 0 to 200, each side of 55/56/63/64 in blocks one to four, and every length from 32740 to 32780, around the one at which the length field wraps, each hashed by every entry point and in pairs: with its own bytes rotated (another message of the same length, so in step in the build that has the pair path) and with a longer one; strings that hold all 256 byte values, into slices one short, exact and longer |
| `stream` | can any history of two hashers show how a message was split? | streams of up to 9 bytes over 4-byte blocks under a counter of 8, which wraps; chunks of 0, 1, 3, 4 and 6 bytes, a hasher resumed after a block; every branch of `absorb` is met with every buffered length; two handles suffice for clones and for comparing two histories |
| `streams` | do the multi-stream calls extend all lanes or none? | two lanes; 0 to 3 inputs or slots; 9 bytes a lane under a counter of 8 |
| `dispatch` | is each kernel called within its contract, each slot filled, each call finite? | real thresholds and lane counts; run lengths on both sides of 4, 8, 16 and four full groups, message lengths on both sides of 32 and 64; five platforms; enough, too few and spare slots |
| `batch` | does the composition of engine and scheduler keep the contract, and does sorting pay? | every batch of up to 4 messages of 63 or 64 bytes, every one of 5 of 64 or 70; batches of five with a third length or a short one in the way; 7 and 8 messages of 40 bytes, 8 of 31, and runs of 40 bytes beside longer messages, which are both sides of the crossovers of `pick_batch`; every order an unstable sort may return; each entry point; all five platforms |
| `platform` | do racing threads see one processor? | three threads (one fills a cell, one waits for it, one asks the other cell) on all four processors, with and without `std`; batches of 1 and of 68 messages, which is four full groups of 16 and a remainder, so that the size chosen for 16 lanes would overflow a kernel with 8 |
| `wide` | are the lanes of the fused kernel in step and in bounds, through the shuffles? | the four adapters at their real lane counts (4, 8, 8, 16) and 16-word blocks; 1 to 64 messages: one to four groups, full and partial; 0 to 2 full blocks with tails on both sides of the padding boundary; no two bytes at corresponding places of two messages are equal |
| `wide_shapes` | is a sentence of the documents true? | see section 6 |
| `digest_adapter` | does the adapter answer like the native hasher? | two handles, streams of 17 bytes under a counter that wraps at 16 |
| `reader` | are exactly the delivered bytes hashed, and does the call return? | streams of 0, 2 and 7 bytes through buffers of 2 to 5; requests below, inside and above the clamp; at most two interruptions in a call (`MaxInterrupts`) |
| `kernels` | is each kernel the RFC, step by step? | 4-bit words, one to three blocks, two chaining values; the laws the proofs assume are evaluated for all words |
| `kernels32` | do the real constants give the published digests? | 32-bit words, three padded messages, those of `tests/rfc1321.rs` and the literal of `empty_digest` |

`stream` uses symmetry of the handles; its properties are invariants and a safety
refinement, for which that is sound. No run with a liveness property does.

Properties, by hazard:

* `OneShotIsRfc`: the digest is that of the RFC on every path, including the
  literal for the empty message and both digests of `hash_pair`.
* `HexFaithful`: the digits read back as the bytes, two byte strings never share
  their digits, what lies behind the text stays as it was, and a slice without
  room makes the call panic with nothing written.
* `Accounted`: chaining value, buffer and counter always agree on what was
  absorbed; it is also the heart of an inductive invariant.
* `SplitInvariance`: two hashers of the same bytes are observably equal.
* `SameAsNative`: the adapter's core, which never sees the tail, and the
  external buffer hold together what a native hasher holds.
* `QueriesExact`: `bytes_hashed` and `is_empty` say what was absorbed while the
  count is in range. Beyond it they cannot: `is_empty` (`src/state.rs:57`)
  compares the wrapping counter with zero and is true again after exactly 2^64
  bytes.
* `ImplementsManyDigests`: a call with too few inputs or slots panics before the
  first stream changed; a call that began extends or reports every stream once,
  whatever its index, and leaves spare slots alone.
* `Follows`, `Faithful`, `Returns`: nothing but what the reader delivered is
  hashed, in order; a digest is returned only at the end of the stream and an
  error exactly if the last read failed; the call returns.
* `KernelContract`: a fused call has equal lengths, at most four groups and a
  kernel of this platform. `wide.rs` has only a `debug_assert` for it, and the
  bound is kept by an expression in another file.
* `KernelSafe`, `OnePlatform`, `NoCircularWait`, `CallsReturn`: the `unsafe`
  kernels run only on a processor that has their instructions, and on no more
  groups than they have room for, although the lane count and the kernel are
  asked for at different times, perhaps while another thread fills a cell; the
  nested initialisation cannot wait for itself, and every batch call returns.
* `GroupingExact`: the sorted batch is hashed when, and only when, some four
  messages share a length and no four neighbours of the batch as given do.
* `GroupingPays`: on a processor with a fused kernel, a call makes a fused call
  if and only if the batch it hashes, sorted or not, has a run worth one (four
  messages of at least 64 bytes, or eight of at least 32: the crossovers of
  `pick_batch`). For `hash_many_grouped` this means that sorting loses nothing,
  because a call that could have been fused in the caller's order is fused, and
  that with messages of a block or more a fused call is made exactly when enough
  of them share a length, wherever they stand. What is *not* so, because the
  engine's two scans look at the number of equal lengths and not at the lengths:
  four short neighbours of one length keep a batch from being sorted whose
  longer messages would have gained by it, and four short messages that are
  apart get it sorted for nothing, as it is on a platform without a kernel. The
  digests are the same.
* `InBounds`, `LanesInStep`: no gather beyond a message, no lane ahead of
  another, the words in hand are always those of the next block.
* `HandOver`: the x86 kernel finds in its scratch register the operand the
  round expects.
* `PublishedDigests`: the constants are those that give the published digests.
* `Termination`: each batch call ends.
* `ImplementsMessageDigest`, `ImplementsBatchHash`, `ImplementsEngine`,
  `ImplementsRfcCompression`: the detailed module implements the abstract one.
* `TypeOK`: the type invariant of each module with a state.

`CHECK_DEADLOCK FALSE` stands where the modelled call ends (a batch call
returned, all blocks compressed, the longest input reached). The hashers, the
streams, the adapter, the reader and the racing threads can always go on, and
their runs are checked for deadlock.

## 4. Fairness

`Dispatch`, `Engine`, `BatchCalls` and `Wide` model one call of a single thread
that waits for nobody: weak fairness of the next-state relation says that the
thread runs. `Platform` asks it of each thread that is in a call, that is, an
operating system that schedules every thread; a thread outside a call owes
nothing, and one that waits for a cell is not enabled until the cell is ready.
That a waiting thread then reads the cell is the promise of `OnceLock`, which is
external. `Reader` asks weak fairness of `Read` (a reader that was asked answers
in some way) and of `Match` (the loop looks at the answer); nothing obliges a
program to make another call. The interruptions within a call are bounded
(`MaxInterrupts`): the code retries every one, and with a reader that is
interrupted forever it rightly never returns. A stream is finite; on an endless
one the loop does not end either. The hashers, the multi-stream calls, the
adapter and the kernels promise nothing eventually, and their specifications
assume no fairness.

## 5. What is proved

All proofs are checked by TLAPS without any unproved step. The theorems named here
hold for every value of the constants that satisfies the assumptions below: real
blocks and counters, any number of handles, threads, groups or messages.

* **`HashCorrect`** (`RawProofs`): for every message, all one-shot entry points,
  with or without the fast path for a single block, return `RfcDigest`. The
  argument: the padded length is the unique multiple of a block that leaves room
  for the mark and the length field (`PaddedLenUnique`), the final blocks that
  the code writes are the RFC's padding byte by byte (`Padding`), and a bit
  length that wraps agrees with the RFC's "low-order 64 bits" (`BitLenWraps`).
* **`TypeCorrect`, `AlwaysAccounted`, `AlwaysSplitInvariant`,
  `StreamRefinement`** (`Md5StreamProofs`). `TypeOK` is not inductive: that
  `buf_len` stays below a block depends on how the branches of `absorb` combine.
  The inductive invariant is `TypeOK` with `Accounted`: the compressed bytes are
  whole blocks, and the count is their number plus `buf_len`, modulo the counter.
  Each branch of `Absorb` has a lemma in `RawProofs` (`TopUpFacts`, `FlushFacts`,
  `AbsorbRestFacts`), each action a step. A hasher then *is* the message it
  absorbed, which gives split invariance and the refinement. They hold with and
  without the feature `zeroize`; the run has it on.
* **`DigestTypeCorrect`, `AlwaysSameAsNative`, `DigestRefinement`**
  (`Md5DigestProofs`). The adapter's core counts blocks only and its own buffer
  stays empty; the tail is with the other crate. The invariant (`Counted`) says
  just that, and that the count is the compressed bytes modulo the counter. The
  native hasher of `chaining value \o buffer` is then the one of the same
  message, and `finalize` adds the tail's length to the count where the native
  one had it already.
* **`ReaderTypeCorrect`, `ReaderFollows`, `ReaderFaithful`** (`CallProofs`).
  `Faithful` speaks of returned results only. It becomes inductive with the
  conservation law that what is hashed, what was read but not yet looked at
  (`InFlight`) and what the reader still has make up the stream; an answer of
  zero bytes means that nothing is left. The bytes a reader scribbles beyond
  what it delivers are in the buffer and in no term of the law.
* **`DispatchTypeCorrect`, `AlwaysKernelContract`, `DispatchRefinement`**
  (`DispatchProofs`). The invariant: slots before the cursor hold their own
  digest and the others are untouched (`Slots`), and cursor, run and progress
  are where the phase allows (`Places`): the run has equal lengths and ends
  inside the batch. The kernel's contract follows from that and from
  `PickBatchFacts`, which bounds what `pick_batch` may choose.
* **`FusedCallsMayBeMade`** (`DispatchProofs`), **`EngineCallsMayBeMade`**
  (`BatchProofs`): the interface between the scheduler and the fused kernel.
  Whatever bytes the messages hold (any `texts` of the lengths the scheduler
  sees), the slice that a fused call on vectors is given satisfies `MayCall`,
  which is the guard of `Wide`'s initial states. So the results of `WideProofs`
  hold of each call the scheduler makes, on the caller's batch or on the sorted
  one, and `Wide` needs no assumption on its batches but that they are bytes.
* **`ScanFindsRun`** (`DispatchProofs`): at every place before the end there is a
  run that the scan can measure, and only one, so that the `\E` in `Scan` leaves
  no choice. It ends at the least place where the length changes.
* **`BatchTypeCorrect`, `AlwaysGroupingExact`, `AlwaysGroupingPays`,
  `BatchRefinement`, `EngineRefinement`, `EngineKernelContract`** (`BatchProofs`):
  the engine with the scheduler inside, for every batch, slice and platform and for every order the
  unstable sort may return. The invariant (`BatchInv`) says, beside the places:
  what became of the two scans and of the sort (`Grouping`); that a temporary
  holds the digests in the order in which they were hashed (`Temp`); that the
  slots copied so far are the images of `1 .. k` under the permutation and hold
  their own digest, and the others what the caller left (`Slots`); and, while
  the scheduler runs, the invariant of `DispatchProofs` for the batch it was
  given (`Inner`). The scatter ends with every slot written because the
  permutation is onto. That sorting makes a run (`SortMakesRun`) is the one
  combinatorial fact: in sorted order the indices of one length are an
  interval, and `RunAt` counts along it. That `RunAt` is the length of the longest
  stretch of one length that ends at a place is a theorem of its own
  (**`RunAtMeasures`**). `AlwaysGroupingPays` is two implications in every
  place of the scheduler. A fused call was made only where a run worth one
  begins (`CallsWorth`). And none can be missed: as long as no fused call was
  made, every run worth one is still ahead of the cursor (`Ahead`, `AllAhead`),
  since a run that the scan measures holds all of it, and `pick_batch` takes a
  run that long (`CallIsWorth`, `AheadStep`). Both stand in the inductive
  invariant `Paying`; at the end nothing is ahead. What this says of the
  caller's order follows from `SortMakesRun` (`RunIsPopular`, `PayingGrouped`).
  `EngineRefinement` is the
  safety part of `ImplementsEngine`: a call of the scheduler is the one step
  `HashMany` or `HashTemp`, under a mapping that hides the slots the scheduler
  has filled so far and calls a slice that is too short rejected only once the
  scheduler did reject it. `EngineKernelContract` carries `KernelContract` over to
  the calls that are made for the engine, on a sorted batch as well.
* **`ManyTypeCorrect`, `AlwaysQueriesExact`, `ManyRefinement`** (`CallProofs`),
  for any number of streams and any inputs and slots. The invariant: every
  stream is well-formed (`Lanes`); the streams the loop has passed hold what
  they held when it began followed by their input (`Extended`), which is what
  the mapping `Seen` takes back; the slots it has passed hold the digest of
  their own stream (`Answered`). A loop is a stutter of `ManyDigests` until it
  ends, and then all of its effect shows at once; a panic is a step that
  changes no stream because the check stands before the loop.
* **`HashPairCorrect`, `OneShotCorrect`, `HexRoundTrip`, `HexCorrect`**
  (`CallProofs`): the properties of the run `frame` for every message.
  `HashPairCorrect` takes any two messages in any build: after `n` turns of a
  pair loop each lane has absorbed the first `n` blocks of its own message and
  nothing of the other (`PairsAbsorb`), and equal lengths make equal numbers of
  final blocks. It is what `Dispatch` relies on when it writes two digests in
  the step `HashPair`. `HexRoundTrip` is stronger than what the run looks at:
  every string of octets into every slice, with whatever the slice held.
* **`PlatformTypeCorrect`, `AlwaysKernelSafe`, `AlwaysOnePlatform`,
  `NeverCircularWait`** (`KernelProofs`), for any number of threads. The
  invariant has a shared part (`Published`: a cell that is ready holds the truth
  about the processor) and a part for each thread: a thread fills just the
  cells that carry its name, and a nested probe is always for `avx2` and never
  the other way round, which is why no circle can close (`ProbeInv`); the place in
  its call, the lane count, batch size and kernel fit the one platform there is (`CallOK`). A
  step of one thread leaves the parts of the others alone. **`WaitingEnds`** says
  more than that no circle closes: a chain of waiting threads has at most two
  links, and the thread at its end is filling its cell.
* **`GatherTransposes`, `WideTypeCorrect`, `AlwaysInBounds`, `AlwaysInStep`,
  `WideRefinement`** (`WideProofs`), for every number of messages and length.
  First the shuffles: each unpack, permute, `vtrn` and insert is a function of
  lanes, and composed as the code composes them they are the transpose, for all
  four adapters at their real lane counts (`Transpose8Facts`, `Transpose4Facts`,
  `OctetFacts`, `QuartetFacts`, `JoinFacts`). Then the loops. The invariant: every
  lane, the unused ones of the last group included, has absorbed the first `bi`
  blocks of the message its slot points to, then the padding if its group is
  below `g`; `cur` holds the words of the next block, of all groups or of one,
  as the loop requires; the slots of padded groups are written and no other.
  `LanesInStep` alone is not inductive, because it does not say what the
  prefetched words are. With `Padding` and `HashWithCorrect` of `RawProofs` a
  padded lane holds the RFC's digest, hence the refinement of `BatchHash`.
* **`KernelTypeCorrect`, `KernelHandOver`, `KernelRefinement`** (`KernelProofs`):
  for every word type that obeys `WordLaws`, and all blocks and chaining values.
  The invariant is `TypeOK /\ HandOver`: without the scratch register's content
  the x86 round is not an MD5 step. The refinement mapping (`Unloaded`) takes
  back the word that the x86 kernel has already added to the register it will
  write next.

* **`DispatchShrinks`, `BatchCallsShrink`, `WideShrinks`, `ReaderLoopShrinks`,
  `ThreadsShrink`**: no loop runs forever. Each gives a natural number that every
  step of a call lowers, hence a bound on the steps of a call that holds under
  every schedule and needs no fairness: the scheduler takes at most
  `3 * Len(inputs) + 2` steps; an entry point of the engine, with the scheduler,
  the sort and the scatter inside, `4 * Len(inputs) + 8`; a fused call one for
  each block and each group and four more. The loop of the reader is bounded by
  twice the bytes and interruptions still to come. With racing threads, a step
  of one lowers its own number and leaves those of all others alone: a thread
  may have to wait for a cell, but what others write in it never sends it back.
  These are the safety half of `Termination`, `Returns` and `CallsReturn`; that a
  call which is not over can take its next step, and under fairness does, is
  what TLC adds.

Assumptions, all named and evaluated by TLC in the runs:

* `SizeAssumption`: a block is longer than its length field, a byte has at least
  two values, powers of the radix are positive naturals, which the prover does
  not know of `^`; `WidthAssumption`: the length field holds one counter.
* `StreamAssumption`, `DigestAssumption`, `ManyAssumption`, `InputAssumption`:
  inputs are byte strings; what `from_parts` is given is block aligned, as its
  documentation demands. `ReaderAssumption`: the same of streams, and buffers
  are not empty.
* `DispatchAssumption`, `EngineAssumption`, `PlatformsAssumption`: lengths are
  naturals and platforms are those the build knows. `ThreadAssumption`: no thread is called "empty" or "ready".
* `BlockAssumption`: a block is 16 words. `BatchAssumption`: the messages of a
  fused call are byte strings. That there is at least one, that all have one
  length and that they fit the state array is no assumption but `MayCall`.
* `WordAssumption`, `PlusAssumption`, `LogicAssumption`, `MixAssumption`,
  `RotateAssumption`, `LaneAssumption`: facts of 32-bit words that TLC evaluates
  for all 4-bit words. Bitwise operators act on each bit alone and addition,
  shifts and rotation are uniform in the width, so nothing in them depends on it.
  A count beyond the width of the small words stands for its remainder there;
  `kernels32` has the real shifts.

*Only model-checked:*

* liveness (`Termination`, `Returns`, `CallsReturn`): the measures above are
  proved, but that a step is possible (`ENABLED`) and what fairness makes of it
  are out of the prover's reach;
* that the engine takes the steps `EngineRefinement` allows, the fairness that
  `ImplementsEngine` adds to it;
* `PublishedDigests`, which is a computation with `Bitwise`;
* what the kernels and the framing do together on bits: `HashCorrect` and its
  followers speak of the free compression function, `KernelRefinement` of the
  steps inside a block.

Where a proof needs an induction over numbers (the scans of `DispatchProofs` and
`BatchProofs`, the pair loops of `CallProofs`), it is an argument about a least element: `LeastNat` gets one from the
well-foundedness of `<`, and the recursive function `RunAt` is shown to exist
before it is reasoned about (`CountsExists`).

## 6. A divergence of code and documents

`docs/architecture.md:78-79` says that "Single- and two-group shapes use the
tight gather→compress loop on all SIMD targets", and the comment at
`simd/wide.rs:367` says of that loop "(all x86; also NEON ngroups<=2)". The code
at `simd/wide.rs:343` sends two groups to the pipelined loop wherever
`prefer_group_interleave()` holds, that is on aarch64. The run `wide_shapes`
states the documents' sentence as `PipelineFromThreeGroups` and TLC finds a call
with two groups in the pipelined loop. Digests are not affected: `wide` checks
that loop with two groups as well.

A smaller one, on which no property depends: `docs/performance.md:256` calls the
batch of nine messages an "eight-message vector group plus one scalar tail", but
`pick_batch` (`simd/mod.rs:170`) hands all nine to one fused call, whose second
group then has one message.

## 7. What is not modelled, and why

* Instruction encodings, register allocation and `unsafe` loads as such: a load
  is an address, and the question asked is whether it is inside its message. The
  inline assembly of `simd/single_x86.rs` and `simd/single_aarch.rs` is modelled
  as the sequence of register operations it writes down.
* The vector step in all lanes at once: it does in every lane what the kernels
  `wide` (the x86 adapters) and `neon` of `Kernels` do in one, whose rotates are
  two shifts and whose negation is a xor with ones where there is no better.
* The software pair path step by step: `compress_pair` takes `step_dest` for one
  lane and then for the other, on separate states. `PairHash` has its blocks and
  lanes, the kernel `in_tree` of `Kernels` its 64 steps on one state; what the
  scheduler does around it is `HashPair` in `Dispatch`.
* The assertion of `compress_blocks_with` that it is given whole blocks
  (`compress.rs:294`): all its callers cut the data at a block.
* `Debug`, backend labels and feature reports: no state. `lanes` and `name`,
  which do have an effect (they initialise the cells), are in `Platform`.
* Poisoning of a `OnceLock`: no initialiser panics.
* Threads inside a batch: the crate starts none.
* Benches, examples, scripts, CI: none of the library's logic.

## 8. Plan

Done, in this order: framing, the streaming hasher and its proofs; the batch
side (`Dispatch`, `Engine`, `Wide`) against `BatchHash`; the kernels and their
proofs; the adapter and the reader; the shuffles of the gathers inside `Wide`;
racing probes; the multi-stream calls; hexadecimal output; the composition of
engine and scheduler; the proofs of the adapter, the reader, the scheduler, the
probes and the fused kernel; the proofs of the engine over the scheduler, of the
multi-stream calls and of the pure functions; the interface of scheduler and
fused kernel; the measures that bound every loop.

Next:

1. Put `Wide` inside `BatchCalls` as a machine, so that the digest a slot
   receives is no longer the function `Digest` of a message but what the fused
   call computed. `EngineCallsMayBeMade` is the step that lets it start and
   `WideRefinement` the one that lets it end.
2. Prove that several threads with a batch each, whose platform is what
   `Platform` answers, keep the contract of `BatchHash`.
