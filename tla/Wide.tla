-------------------------------- MODULE Wide -------------------------------
(***************************************************************************)
(* One fused call: hash_equal_wide of src/simd/wide.rs with the gather of  *)
(* each vector adapter (module Lanes).  The lanes of up to MaxGroups       *)
(* vector registers each carry one message; every block index is gathered  *)
(* from all messages and compressed in all lanes.  Three loop shapes do    *)
(* this; the one for several groups on aarch64 gathers the next block      *)
(* before it compresses the current one.                                   *)
(***************************************************************************)
EXTENDS Md5Frame, Lanes

CONSTANTS
  Batches,     \* the messages a call may be made with
  Slack,       \* how many extra output slots the caller passes
  Untouched    \* what an output slot holds before the call

ASSUME BlockAssumption == WordBytes \in Nat \ {0} /\ BlockSize = BlockWords * WordBytes
ASSUME BatchAssumption == Slack \subseteq Nat /\ Batches \subseteq Seq(Seq(Byte))

VARIABLES
  kernel,      \* the vector adapter
  inputs,      \* the messages
  outputs,     \* the caller's slots
  states,      \* one chaining value per group and lane
  cur,         \* what the last gather read: per group, a register per word
  bi,          \* complete blocks compressed so far
  g,           \* groups padded and stored so far
  phase        \* where the call is: see Next

vars == <<kernel, inputs, outputs, states, cur, bi, g, phase>>

LANES == LanesOf(kernel)
Lane == 0 .. LANES - 1

(* prefer_group_interleave: a constant of the build. *)
PreferInterleave == kernel \in {"neon4", "neon8"}

N == Len(inputs)
MessageLen == Len(inputs[1])
NFull == MessageLen \div BlockSize

(* Mutation: a group too many when the last one is full. *)
NGroupsFloor == N \div LANES + 1

NGroups == Ceil(N, LANES)

(* The messages of group q (0-based): inputs lo + 1 .. lo + GroupSize(q).  *)
GroupSize(q) == IF (q + 1) * LANES <= N THEN LANES ELSE N - q * LANES

(* One pointer per active lane of group q, to block `start' of buffers.    *)
Pointers(q, start) ==
  [l \in 0 .. GroupSize(q) - 1 |-> [src |-> q * LANES + l + 1, start |-> start]]
GatherGroup(q, start) == Gather(kernel, Pointers(q, start), GroupSize(q))
GatherGroups(start) == [q \in 1 .. NGroups |-> GatherGroup(q - 1, start)]

(* The bytes in lane l of the registers m, loaded from the buffers mem.    *)
LaneBlock(mem, m, l) ==
  [j \in 1 .. BlockSize |->
     LET a == m[(j - 1) \div WordBytes][l]
     IN  mem[a.src][a.at + ((j - 1) % WordBytes) + 1]]

(* compress_wide: all lanes of one group advance. *)
CompressLanes(st, mem, m) ==
  [l \in Lane |-> CompressBlocks(st[l], LaneBlock(mem, m, l))]

(* One compress_wide per group, or compress_groups_interleaved.            *)
CompressGroups(sts, ms) ==
  [q \in 1 .. MaxGroups |->
     IF q <= Len(ms) THEN CompressLanes(sts[q], inputs, ms[q]) ELSE sts[q]]

Init ==
  /\ kernel \in Kernels
  /\ inputs \in {b \in Batches : MayCall(kernel, b)}
  /\ \E s \in Slack : outputs = [k \in 1 .. Len(inputs) + s |-> Untouched]
  /\ states = [q \in 1 .. MaxGroups |-> [l \in Lane |-> IV]]
  /\ cur = << >> /\ bi = 0 /\ g = 0
  /\ phase = "enter"

(* Which loop runs over the complete blocks. *)
Enter ==
  /\ phase = "enter"
  /\ phase' = CASE NFull = 0                                       -> "pad"
                [] NFull > 0 /\ NGroups = 1                        -> "sequential"
                [] NFull > 0 /\ NGroups > 1 /\ PreferInterleave    -> "prefetch"
                [] NFull > 0 /\ NGroups > 1 /\ ~PreferInterleave   -> "sequential"
  /\ UNCHANGED <<kernel, inputs, outputs, states, cur, bi, g>>

(* Gather a block, then compress it: the single-group loop, and the loop   *)
(* that compresses one group after the other.                              *)
Sequential ==
  /\ phase = "sequential" /\ bi < NFull
  /\ cur' = GatherGroups(bi * BlockSize)
  /\ states' = CompressGroups(states, cur')
  /\ bi' = bi + 1
  /\ UNCHANGED <<kernel, inputs, outputs, g, phase>>

SequentialDone ==
  /\ phase = "sequential" /\ bi = NFull
  /\ phase' = "pad"
  /\ UNCHANGED <<kernel, inputs, outputs, states, cur, bi, g>>

(* The pipelined loop: the first gather runs ahead of the loop. *)
Prefetch ==
  /\ phase = "prefetch"
  /\ cur' = GatherGroups(0)
  /\ phase' = "pipelined"
  /\ UNCHANGED <<kernel, inputs, outputs, states, bi, g>>

(* Mutations: the gather ahead has no end test; the loop has no break.     *)
PipelinedOverrun ==
  /\ phase = "pipelined"
  /\ states' = CompressGroups(states, cur)
  /\ bi' = bi + 1
  /\ cur' = GatherGroups((bi + 1) * BlockSize)
  /\ phase' = IF bi + 1 < NFull THEN phase ELSE "pad"
  /\ UNCHANGED <<kernel, inputs, outputs, g>>
PipelinedNoBreak ==
  /\ phase = "pipelined" /\ bi < NFull
  /\ states' = CompressGroups(states, cur)
  /\ bi' = bi + 1
  /\ cur' = IF bi + 1 < NFull THEN GatherGroups((bi + 1) * BlockSize) ELSE cur
  /\ UNCHANGED <<kernel, inputs, outputs, g, phase>>

(* Gather block bi + 1 if there is one, compress what was gathered before. *)
Pipelined ==
  /\ phase = "pipelined"
  /\ states' = CompressGroups(states, cur)
  /\ bi' = bi + 1
  /\ IF bi + 1 < NFull
     THEN cur' = GatherGroups((bi + 1) * BlockSize) /\ UNCHANGED phase
     ELSE phase' = "pad" /\ UNCHANGED cur
  /\ UNCHANGED <<kernel, inputs, outputs, g>>

(* Mutation: the length field counts the tail only. *)
PadTailOnly(k) ==
  LET tail == Drop(inputs[k], FullLen(MessageLen)) IN FinalBlocks(Len(tail), tail)

(* The final blocks of a message: its tail, the mark and the length. *)
Pad(k) ==
  FinalBlocks(MessageLen % CountMod, Drop(inputs[k], FullLen(MessageLen)))

(* Pad the messages of one group, compress the padding of all lanes block  *)
(* by block (as many as lane 0 needs), store the digests of active lanes.  *)
PadGroup ==
  /\ phase = "pad" /\ g < NGroups
  /\ LET lo == g * LANES
         pad == [k \in lo + 1 .. lo + GroupSize(g) |-> Pad(k)]
         step(st, pi) == CompressLanes(st, pad, GatherGroup(g, pi * BlockSize))
         one == step(states[g + 1], 0)
         padded == IF Len(pad[lo + 1]) = BlockSize THEN one ELSE step(one, 1)
     IN  /\ states' = [states EXCEPT ![g + 1] = padded]
         /\ outputs' = [k \in 1 .. Len(outputs) |->
                          IF k \in lo + 1 .. lo + GroupSize(g)
                          THEN StateToBytes(padded[k - lo - 1]) ELSE outputs[k]]
  /\ g' = g + 1
  /\ UNCHANGED <<kernel, inputs, cur, bi, phase>>

Return ==
  /\ phase = "pad" /\ g = NGroups
  /\ phase' = "done"
  /\ UNCHANGED <<kernel, inputs, outputs, states, cur, bi, g>>

Next ==
  \/ Enter \/ Sequential \/ SequentialDone \/ Prefetch \/ Pipelined
  \/ PadGroup \/ Return

(* A call runs in one thread and waits for nothing. *)
Spec == Init /\ [][Next]_vars /\ WF_vars(Next)

(***************************************************************************)
(* Properties.                                                             *)
(***************************************************************************)
TypeOK ==
  /\ phase \in {"enter", "sequential", "prefetch", "pipelined", "pad", "done"}
  /\ bi \in 0 .. NFull /\ g \in 0 .. NGroups
  /\ Len(cur) \in {0, NGroups} /\ NGroups <= MaxGroups
  /\ \A q \in 1 .. MaxGroups, l \in Lane :
       states[q][l].seed = "iv" /\ Len(states[q][l].data) % BlockSize = 0

(* Every word a gather loads is inside its message, those of unused lanes  *)
(* and of the block gathered ahead included: the safety comments of        *)
(* src/simd/wide.rs:42-44, 184-185 and 335-352.                            *)
InBounds ==
  \A q \in 1 .. Len(cur), w \in 0 .. BlockWords - 1, l \in Lane :
    LET a == cur[q][w][l] IN
    /\ a.src \in 1 .. N
    /\ a.at >= 0 /\ a.at + WordBytes <= Len(inputs[a.src])

(* Lanes do not mix and do not slip, through the shuffles of each adapter  *)
(* and in all three loops: while the complete blocks are compressed, each  *)
(* lane has absorbed the first bi blocks of its own message, in order, and *)
(* nothing else.                                                           *)
LanesInStep ==
  phase \in {"sequential", "pipelined"} =>
    \A q \in 0 .. NGroups - 1 : \A l \in 0 .. GroupSize(q) - 1 :
      states[q + 1][l] =
        CompressBlocks(IV, First(inputs[q * LANES + l + 1], bi * BlockSize))

(* A fused call implements the batch contract: every message gets its RFC  *)
(* 1321 digest, whatever the group it is in and its place in the group,    *)
(* and no slot beyond the messages is written.                             *)
Batch == INSTANCE BatchHash WITH
  want <- [k \in 1 .. N |-> RfcDigest(inputs[k])],
  phase <- IF phase = "done" THEN phase ELSE "running"
ImplementsBatchHash == Batch!Spec

(* The loops end: the call returns. *)
Termination == <>(phase = "done")

(* What docs/architecture.md and the comments of src/simd/wide.rs say of   *)
(* the shapes: gathers are pipelined for three or more groups, one and two *)
(* groups take the tight gather-then-compress loop.                        *)
PipelineFromThreeGroups == phase = "pipelined" => NGroups >= 3
=============================================================================
