------------------------------ MODULE BatchHash ----------------------------
(***************************************************************************)
(* What a batch call promises (Md5Engine::hash_many and its variants): if  *)
(* there are too few output slots it panics and has written nothing; else  *)
(* slot k receives the k-th digest, each slot is written once, and slots   *)
(* beyond the inputs keep what they held.                                  *)
(***************************************************************************)
EXTENDS Naturals, Sequences

CONSTANT Untouched   \* what an output slot holds before the call

VARIABLES
  want,      \* the digests of the inputs, in input order
  outputs,   \* the slots the caller passed
  phase      \* "running", "done" or "panicked"

vars == <<want, outputs, phase>>

Init ==
  /\ \A k \in 1 .. Len(outputs) : outputs[k] = Untouched
  /\ phase = "running"

(* Slot k keeps its value or, once, gets its digest. *)
Progress(k) ==
  \/ outputs'[k] = outputs[k]
  \/ outputs[k] = Untouched /\ k <= Len(want) /\ outputs'[k] = want[k]

Work ==
  /\ phase = "running" /\ phase' \in {"running", "done"}
  /\ Len(want) <= Len(outputs) /\ Len(outputs') = Len(outputs)
  /\ \A k \in 1 .. Len(outputs) : Progress(k)
  /\ phase' = "done" => \A k \in 1 .. Len(want) : outputs'[k] = want[k]
  /\ UNCHANGED want

Panic ==
  /\ phase = "running" /\ phase' = "panicked"
  /\ Len(want) > Len(outputs)
  /\ UNCHANGED <<want, outputs>>

Next == Work \/ Panic
Spec == Init /\ [][Next]_vars
=============================================================================
