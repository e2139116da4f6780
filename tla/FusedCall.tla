----------------------------- MODULE FusedCall -----------------------------
(***************************************************************************)
(* What the caller of a fused kernel (hash_equal_wide, src/simd/wide.rs)   *)
(* owes it: the interface between the scheduler, which makes the calls     *)
(* (module Dispatch), and the kernel, which runs them (module Wide).       *)
(***************************************************************************)
EXTENDS Naturals, Sequences

MaxGroups == 4      \* vector registers in the state array

Kernels == {"neon4", "neon8", "avx2", "avx512"}

LanesOf(kernel) ==
  CASE kernel = "neon4"             -> 4
    [] kernel \in {"neon8", "avx2"} -> 8
    [] kernel = "avx512"            -> 16

Ceil(n, lanes) == (n + lanes - 1) \div lanes

(* The debug assertions on entry: at least one message, all of one length, *)
(* no more groups of lanes than the state array holds.                     *)
MayCall(kernel, batch) ==
  /\ kernel \in Kernels /\ Len(batch) >= 1
  /\ \A k \in 1 .. Len(batch) : Len(batch[k]) = Len(batch[1])
  /\ Ceil(Len(batch), LanesOf(kernel)) <= MaxGroups
=============================================================================
