------------------------------- MODULE Dispatch ----------------------------
(***************************************************************************)
(* The batch scheduler: src/simd/mod.rs (hash_many_dispatch, pick_batch),  *)
(* the kernel choice of src/simd/platform.rs (lanes, hash_equal_n) and the *)
(* scalar pair path of src/multibuf.rs.  Inputs are cut into runs of equal *)
(* length, runs into batches that fit a fused kernel, and what fits none   *)
(* is hashed one message at a time.                                        *)
(*                                                                         *)
(* A message is a length and an identity; its digest is an uninterpreted   *)
(* function of it.  A fused kernel is used through its contract (module    *)
(* Wide): equal lengths in, at most MaxGroups groups, digests out.  So is  *)
(* hash_pair, whose own two loops are in module PairHash.                  *)
(***************************************************************************)
EXTENDS Naturals, Sequences, FiniteSets, FusedCall

CONSTANTS
  Batches,    \* the input sequences a call is made with
  Slack,      \* how many more output slots than inputs there are, plus one
  Platforms,  \* the builds and processors: see Lanes
  Untouched   \* what an output slot holds before the call

ASSUME DispatchAssumption ==
  /\ Platforms \subseteq {"none", "pair", "avx2", "avx512", "neon"}
  /\ \A b \in Batches : Len(b) \in Nat /\ \A k \in 1 .. Len(b) : b[k].len \in Nat
  /\ Slack \subseteq Nat

VARIABLES
  platform,   \* the processor and feature set; fixed during a run
  inputs,     \* the messages of the call
  outputs,    \* the caller's slots
  phase,      \* where the call is: see Next
  i,          \* inputs whose slots are finished
  run,        \* length of the equal-length run that starts at i
  done,       \* inputs of that run whose slots are finished
  call        \* the last fused call: [kernel, lo, n], n = 0 for none

vars == <<platform, inputs, outputs, phase, i, run, done, call>>

(* platform::lanes: 1 means that no fused kernel is usable.  "none" hashes *)
(* one by one, "pair" is the scalar build with `pair-interleave'.          *)
Lanes ==
  CASE platform \in {"none", "pair"} -> 1
    [] platform \in {"avx2", "neon"} -> 8
    [] platform = "avx512" -> 16

LanesIn(kernel) == IF kernel = "pair" THEN 2 ELSE LanesOf(kernel)
KernelsOf ==
  CASE platform = "none" -> {}
    [] platform = "pair" -> {"pair"}
    [] platform = "avx2" -> {"avx2"}
    [] platform = "avx512" -> {"avx2", "avx512"}
    [] platform = "neon" -> {"neon4", "neon8"}

Length(m) == m.len
Digest(m) == [of |-> m]            \* an injective function of the message
NoCall == [kernel |-> "pair", lo |-> 0, n |-> 0]

LesserOf(a, b) == IF a <= b THEN a ELSE b

(* Mutation: a batch may need more groups than the state array has.        *)
PickBatchUncapped(left, max, len) ==
  IF left < 4 \/ max < 4 \/ len < 32 \/ (left < 8 /\ len < 64) THEN 0 ELSE left

(* Mutation: the smallest run worth a kernel is one more here than for the *)
(* callers that arrange runs.                                              *)
PickBatchLate(left, max, len) ==
  IF left < 5 \/ max < 4 \/ len < 32 \/ (left < 8 /\ len < 64) THEN 0
  ELSE LesserOf(left, max * MaxGroups)

(* pick_batch: how many messages of the run go to one fused call; 0 means  *)
(* that the next message is hashed on its own.                             *)
PickBatch(left, max, len) ==
  IF \/ left < 4 \/ max < 4 \/ len < 32
     \/ left < 8 /\ len < 64
  THEN 0
  ELSE LesserOf(left, max * MaxGroups)

(* hash_equal_n: the kernel for n messages of equal length. *)
KernelFor(n) ==
  CASE platform = "neon"                -> IF n >= 5 THEN "neon8" ELSE "neon4"
    [] platform = "avx2"                -> "avx2"
    [] platform = "avx512"              -> IF n <= 8 THEN "avx2" ELSE "avx512"

(* Slots lo + 1 .. lo + n receive the digests of their inputs. *)
Fill(lo, n) ==
  outputs' = [k \in 1 .. Len(outputs) |->
                IF k \in lo + 1 .. lo + n THEN Digest(inputs[k]) ELSE outputs[k]]

Init ==
  /\ platform \in Platforms
  /\ inputs \in Batches
  /\ \E s \in Slack :
       /\ Len(inputs) + s >= 1
       /\ outputs = [k \in 1 .. Len(inputs) + s - 1 |-> Untouched]
  /\ phase = "enter"
  /\ i = 0 /\ run = 0 /\ done = 0
  /\ call = NoCall

(* Mutation: the slot count is not checked before the first write. *)
EnterUnchecked ==
  /\ phase = "enter"
  /\ phase' = IF Lanes > 1 THEN "scan" ELSE "scalar"
  /\ UNCHANGED <<platform, inputs, outputs, i, run, done, call>>

(* The assertion on entry, then the choice of the path. *)
Enter ==
  /\ phase = "enter"
  /\ phase' = CASE Len(outputs) < Len(inputs)               -> "panicked"
                [] Len(outputs) >= Len(inputs) /\ Lanes > 1 -> "scan"
                [] Len(outputs) >= Len(inputs) /\ Lanes = 1 -> "scalar"
  /\ UNCHANGED <<platform, inputs, outputs, i, run, done, call>>

(* Measure the run that starts at input i. *)
Scan ==
  /\ phase = "scan" /\ i < Len(inputs)
  /\ \E r \in 1 .. Len(inputs) - i :
       /\ \A k \in i + 1 .. i + r : Length(inputs[k]) = Length(inputs[i + 1])
       /\ i + r < Len(inputs) =>
            Length(inputs[i + r + 1]) # Length(inputs[i + 1])
       /\ run' = r
  /\ done' = 0
  /\ phase' = "batch"
  /\ UNCHANGED <<platform, inputs, outputs, i, call>>

NextBatch == PickBatch(run - done, Lanes, Length(inputs[i + 1]))

HashOne ==
  /\ phase = "batch" /\ done < run /\ NextBatch = 0
  /\ Fill(i + done, 1)
  /\ done' = done + 1
  /\ UNCHANGED <<platform, inputs, phase, i, run, call>>

HashEqual ==
  /\ phase = "batch" /\ done < run /\ NextBatch > 0
  /\ Fill(i + done, NextBatch)
  /\ call' = [kernel |-> KernelFor(NextBatch), lo |-> i + done, n |-> NextBatch]
  /\ done' = done + NextBatch
  /\ UNCHANGED <<platform, inputs, phase, i, run>>

(* Mutation: the outer loop steps once more, as a for loop would. *)
RunDoneSkip ==
  /\ phase = "batch" /\ done = run
  /\ i' = i + run + 1
  /\ phase' = "scan"
  /\ UNCHANGED <<platform, inputs, outputs, run, done, call>>

RunDone ==
  /\ phase = "batch" /\ done = run
  /\ i' = i + run
  /\ phase' = "scan"
  /\ UNCHANGED <<platform, inputs, outputs, run, done, call>>

(* multibuf::hash_many_dispatch: two neighbours of equal length, at least  *)
(* a block long, are compressed together; the rest one at a time.          *)
Pairable ==
  /\ platform = "pair" /\ i + 1 < Len(inputs)
  /\ Length(inputs[i + 1]) = Length(inputs[i + 2])
  /\ Length(inputs[i + 1]) >= 64

HashPair ==
  /\ phase = "scalar" /\ Pairable
  /\ Fill(i, 2)
  /\ call' = [kernel |-> "pair", lo |-> i, n |-> 2]
  /\ i' = i + 2
  /\ UNCHANGED <<platform, inputs, phase, run, done>>

(* Mutation: the message after the last pair is not handled. *)
HashScalarNoTail ==
  /\ phase = "scalar" /\ i + 1 < Len(inputs) /\ ~Pairable
  /\ Fill(i, 1)
  /\ i' = i + 1
  /\ UNCHANGED <<platform, inputs, phase, run, done, call>>

HashScalar ==
  /\ phase = "scalar" /\ i < Len(inputs) /\ ~Pairable
  /\ Fill(i, 1)
  /\ i' = i + 1
  /\ UNCHANGED <<platform, inputs, phase, run, done, call>>

Return ==
  /\ phase \in {"scan", "scalar"} /\ i = Len(inputs)
  /\ phase' = "done"
  /\ UNCHANGED <<platform, inputs, outputs, i, run, done, call>>

Next ==
  \/ Enter \/ Scan \/ HashOne \/ HashEqual \/ RunDone
  \/ HashPair \/ HashScalar \/ Return

(* The caller's thread runs until the call returns: there is no lock, no   *)
(* wait and no other thread in it.                                         *)
Spec == Init /\ [][Next]_vars /\ WF_vars(Next)

(***************************************************************************)
(* Properties.                                                             *)
(***************************************************************************)
(* The indices of the two nested loops stay inside the inputs, and every   *)
(* slot holds a digest or what the caller left in it.                      *)
TypeOK ==
  /\ platform \in Platforms
  /\ phase \in {"enter", "scan", "batch", "scalar", "done", "panicked"}
  /\ i \in 0 .. Len(inputs) /\ (phase = "batch" => i + run <= Len(inputs))
  /\ done \in 0 .. run
  /\ \A k \in 1 .. Len(outputs) : outputs[k] \in {Untouched} \cup {Digest(m) : m \in
       {inputs[j] : j \in 1 .. Len(inputs)}}

(* Every fused call keeps the contract the unsafe kernels rely on          *)
(* (src/simd/wide.rs:317-323): all messages of one length, groups that fit *)
(* the fixed state array, a kernel this processor has.  The messages are   *)
(* long enough to pay for the gather.                                      *)
KernelContract ==
  call.n > 0 =>
    /\ call.kernel \in KernelsOf
    /\ Ceil(call.n, LanesIn(call.kernel)) <= MaxGroups
    /\ call.lo + call.n <= Len(inputs)
    /\ \A k \in call.lo + 1 .. call.lo + call.n :
         /\ Length(inputs[k]) = Length(inputs[call.lo + 1])
         /\ Length(inputs[k]) >= 32

(* The scheduler implements the batch contract: order kept, each slot      *)
(* written once and with its own digest, a short slice rejected before the *)
(* first write, extra slots left alone.                                    *)
Batch == INSTANCE BatchHash WITH
  want <- [k \in 1 .. Len(inputs) |-> Digest(inputs[k])],
  phase <- IF phase \in {"done", "panicked"} THEN phase ELSE "running"
ImplementsBatchHash == Batch!Spec

(* Both loops make progress whatever the mix of lengths: the call returns. *)
Termination == <>(phase \in {"done", "panicked"})
=============================================================================
