-------------------------------- MODULE Engine -----------------------------
(***************************************************************************)
(* The batch entry points of src/engine.rs: hash_many (and md5_many),      *)
(* hash_many_grouped, which sorts the inputs by length so that equal       *)
(* lengths meet, and hash_many_hex.  hash_many itself is used through its  *)
(* contract (module Dispatch): it fills the slots it is given in one step. *)
(***************************************************************************)
EXTENDS Integers, Sequences, FiniteSets

CONSTANTS
  Batches,    \* the input sequences a call is made with
  Slack,      \* how many more output slots than inputs there are, plus one
  Untouched   \* what an output slot holds before the call

ASSUME EngineAssumption ==
  /\ \A b \in Batches : Len(b) \in Nat /\ \A n \in 1 .. Len(b) : b[n].len \in Nat
  /\ Slack \subseteq Nat

VARIABLES
  entry,      \* the entry point: "many", "grouped" or "hex"
  inputs,     \* the messages of the call
  outputs,    \* the caller's slots
  phase,      \* where the call is: see Next
  order,      \* grouped: the input indices, sorted by length
  temp,       \* grouped, hex: the digests hash_many filled in for us
  k           \* the slots copied out of temp

vars == <<entry, inputs, outputs, phase, order, temp, k>>

SimdRun == 4     \* the shortest run worth a fused kernel

Length(m) == m.len
Digest(m) == [of |-> m]
Digests(ms) == [j \in 1 .. Len(ms) |-> Digest(ms[j])]

(* Mutation: a change of length does not restart the counter. *)
RunAtNoRestart(ms) ==
  LET run[j \in 1 .. Len(ms)] ==
        IF j = 1 THEN 1
        ELSE IF Length(ms[j - 1]) = Length(ms[j]) THEN run[j - 1] + 1 ELSE run[j - 1]
  IN  run

(* The counter of both scans for a run: it restarts where lengths differ.  *)
RunAt(ms) ==
  LET run[j \in 1 .. Len(ms)] ==
        IF j > 1 /\ Length(ms[j - 1]) = Length(ms[j]) THEN run[j - 1] + 1 ELSE 1
  IN  run

HasSimdSizedRun(ms) == \E j \in 1 .. Len(ms) : RunAt(ms)[j] >= SimdRun

(* What sort_unstable_by_key may return: any ordering of the indices by    *)
(* length; equal lengths come in any order.                                *)
Indices == 1 .. Len(inputs)
(* Mutation: indices of equal length are merged. *)
SortedOrdersMerged ==
  {o \in [Indices -> Indices] :
     \A a, b \in Indices : a < b => Length(inputs[o[a]]) <= Length(inputs[o[b]])}

SortedOrders ==
  {o \in [Indices -> Indices] :
     /\ {o[a] : a \in Indices} = Indices
     /\ \A a, b \in Indices : a < b => Length(inputs[o[a]]) <= Length(inputs[o[b]])}

Init ==
  /\ entry \in {"many", "grouped", "hex"}
  /\ inputs \in Batches
  /\ \E s \in Slack :
       /\ Len(inputs) + s >= 1
       /\ outputs = [j \in 1 .. Len(inputs) + s - 1 |-> Untouched]
  /\ phase = "enter"
  /\ order = << >> /\ temp = << >> /\ k = 0

(* Each entry point asserts the slot count itself, before anything else.   *)
Enter ==
  /\ phase = "enter"
  /\ phase' =
       IF Len(outputs) < Len(inputs) THEN "panicked"
       ELSE CASE entry = "many" -> "direct"
              [] entry = "hex"  -> "temp"
              [] entry = "grouped" ->
                   IF Len(inputs) < SimdRun \/ HasSimdSizedRun(inputs)
                   THEN "direct" ELSE "sort"
  /\ UNCHANGED <<entry, inputs, outputs, order, temp, k>>

(* hash_many on the caller's slots. *)
HashMany ==
  /\ phase = "direct"
  /\ outputs' = [j \in 1 .. Len(outputs) |->
                   IF j <= Len(inputs) THEN Digest(inputs[j]) ELSE outputs[j]]
  /\ phase' = "done"
  /\ UNCHANGED <<entry, inputs, order, temp, k>>

SortedBy(o) == [j \in Indices |-> inputs[o[j]]]

(* Mutation: without a long enough run the call starts over. *)
SortRetry ==
  /\ phase = "sort"
  /\ \E o \in SortedOrders :
       /\ order' = o
       /\ phase' = IF HasSimdSizedRun(SortedBy(o)) THEN "temp" ELSE "enter"
  /\ UNCHANGED <<entry, inputs, outputs, temp, k>>

(* Sort the indices; without a long enough run it was not worth it. *)
Sort ==
  /\ phase = "sort"
  /\ \E o \in SortedOrders :
       /\ order' = o
       /\ phase' = IF HasSimdSizedRun(SortedBy(o)) THEN "temp" ELSE "direct"
  /\ UNCHANGED <<entry, inputs, outputs, temp, k>>

(* hash_many on a slice of our own, in sorted order or in input order.     *)
HashTemp ==
  /\ phase = "temp"
  /\ temp' = Digests(IF entry = "grouped" THEN SortedBy(order) ELSE inputs)
  /\ phase' = "copy"
  /\ UNCHANGED <<entry, inputs, outputs, order, k>>

(* Mutation: digests are handed out in sorted order. *)
CopySorted ==
  /\ phase = "copy" /\ k < Len(inputs)
  /\ k' = k + 1
  /\ outputs' = [outputs EXCEPT ![k + 1] = temp[k + 1]]
  /\ UNCHANGED <<entry, inputs, phase, order, temp>>

(* Copy one digest to its slot: its own (hex) or the one it came from.     *)
Copy ==
  /\ phase = "copy" /\ k < Len(inputs)
  /\ k' = k + 1
  /\ outputs' = [outputs EXCEPT
       ![IF entry = "grouped" THEN order[k + 1] ELSE k + 1] = temp[k + 1]]
  /\ UNCHANGED <<entry, inputs, phase, order, temp>>

Return ==
  /\ phase = "copy" /\ k = Len(inputs)
  /\ phase' = "done"
  /\ UNCHANGED <<entry, inputs, outputs, order, temp, k>>

Next == Enter \/ HashMany \/ Sort \/ HashTemp \/ Copy \/ Return

(* One thread, no waits. *)
Spec == Init /\ [][Next]_vars /\ WF_vars(Next)

(***************************************************************************)
(* Properties.                                                             *)
(***************************************************************************)
(* Sorted indices are a permutation of the inputs, so that each digest     *)
(* copied out has a slot of its own.                                       *)
TypeOK ==
  /\ phase \in {"enter", "direct", "sort", "temp", "copy", "done", "panicked"}
  /\ k \in 0 .. Len(inputs)
  /\ order = << >> \/ {order[j] : j \in DOMAIN order} = Indices
  /\ Len(temp) \in {0, Len(inputs)}

(* The sorted batch is hashed, and its digests scattered back, if and only *)
(* if some four inputs have one length and no four neighbours of the batch *)
(* as given do (src/engine.rs:67-76).  The indices are also sorted, to no  *)
(* avail, when no four inputs have one length.                             *)
EqualFrom(ms, lo) ==
  \A j \in lo .. lo + SimdRun - 1 : Length(ms[j]) = Length(ms[lo])
FusedRun(ms) == \E lo \in 1 .. Len(ms) - SimdRun + 1 : EqualFrom(ms, lo)
Popular(ms) ==
  \E j \in 1 .. Len(ms) :
    Cardinality({l \in 1 .. Len(ms) : Length(ms[l]) = Length(ms[j])}) >= SimdRun

GroupingExact ==
  entry = "grouped" /\ phase = "done" =>
    (temp # << >> <=> Popular(inputs) /\ ~FusedRun(inputs))

(* Every entry point implements the batch contract: sorting, hashing into  *)
(* a temporary and scattering put each digest where its input was, and a   *)
(* short slice is rejected before the first write.                         *)
Batch == INSTANCE BatchHash WITH
  want <- Digests(inputs),
  phase <- IF phase \in {"done", "panicked"} THEN phase ELSE "running"
ImplementsBatchHash == Batch!Spec

(* Every call returns. *)
Termination == <>(phase \in {"done", "panicked"})
=============================================================================
