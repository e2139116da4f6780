----------------------------- MODULE BatchCalls ----------------------------
(***************************************************************************)
(* The entry points of module Engine with the scheduler of module Dispatch *)
(* inside: hash_many is no longer one step, and in the direct calls the    *)
(* scheduler writes the caller's own slots as it goes.                     *)
(***************************************************************************)
EXTENDS Engine

CONSTANT Platforms   \* the builds and processors: see Dispatch!Lanes

ASSUME PlatformsAssumption ==
  Platforms \subseteq {"none", "pair", "avx2", "avx512", "neon"}

VARIABLES
  platform,   \* the platform of this process
  sin, sout,  \* the slices hash_many_dispatch was called with
  sphase,     \* its phase, or "out" when no call of it is in progress
  si, srun, sdone, scall

inner == <<sin, sout, sphase, si, srun, sdone, scall>>
allvars == <<vars, platform, inner>>

D == INSTANCE Dispatch WITH
  inputs <- sin, outputs <- sout, phase <- sphase,
  i <- si, run <- srun, done <- sdone, call <- scall

BatchInit ==
  /\ Init
  /\ platform \in Platforms
  /\ sin = << >> /\ sout = << >> /\ sphase = "out"
  /\ si = 0 /\ srun = 0 /\ sdone = 0 /\ scall = D!NoCall

(* hash_many leaves the check of the slots to hash_many_dispatch.          *)
EnterMany ==
  /\ phase = "enter" /\ entry = "many"
  /\ phase' = "direct"
  /\ UNCHANGED <<entry, inputs, outputs, order, temp, k>>
Begin == EnterMany \/ (entry # "many" /\ Enter)

(* Mutation: a sorted batch is hashed in the order it was given.           *)
CallUnsorted ==
  /\ phase \in {"direct", "temp"} /\ sphase = "out"
  /\ sin' = inputs
  /\ sout' = IF phase = "temp" THEN [j \in Indices |-> Untouched] ELSE outputs
  /\ sphase' = "enter"
  /\ si' = 0 /\ srun' = 0 /\ sdone' = 0
  /\ UNCHANGED <<vars, platform, scall>>

(* hash_many is called, on the caller's slots or on a slice of our own.    *)
CallDispatch ==
  /\ phase \in {"direct", "temp"} /\ sphase = "out"
  /\ sin' = IF phase = "temp" /\ entry = "grouped" THEN SortedBy(order) ELSE inputs
  /\ sout' = IF phase = "temp" THEN [j \in Indices |-> Untouched] ELSE outputs
  /\ sphase' = "enter"
  /\ si' = 0 /\ srun' = 0 /\ sdone' = 0
  /\ UNCHANGED <<vars, platform, scall>>

(* One step of hash_many_dispatch. *)
StepDispatch ==
  /\ sphase \notin {"out", "done", "panicked"}
  /\ D!Next
  /\ outputs' = IF phase = "direct" THEN sout' ELSE outputs
  /\ UNCHANGED <<entry, inputs, phase, order, temp, k>>

(* It has returned or panicked. *)
ReturnDispatch ==
  /\ sphase \in {"done", "panicked"}
  /\ phase' = IF sphase = "done" /\ phase = "temp" THEN "copy" ELSE sphase
  /\ temp' = IF sphase = "done" /\ phase = "temp" THEN sout ELSE temp
  /\ sphase' = "out" /\ sin' = << >> /\ sout' = << >>
  /\ UNCHANGED <<entry, inputs, outputs, order, k, platform, si, srun, sdone, scall>>

BatchNext ==
  \/ CallDispatch \/ StepDispatch \/ ReturnDispatch
  \/ (Begin \/ Sort \/ Copy \/ Return) /\ UNCHANGED <<platform, inner>>

BatchSpec == BatchInit /\ [][BatchNext]_allvars /\ WF_allvars(BatchNext)

(***************************************************************************)
(* Properties.                                                             *)
(***************************************************************************)
(* The composition implements module Engine, in which a call of hash_many  *)
(* is one step: it takes place when hash_many_dispatch returns, or panics  *)
(* for the slots that only it checks.                                      *)
Coarse == INSTANCE Engine WITH
  outputs <- IF phase = "direct" THEN [j \in DOMAIN outputs |-> Untouched] ELSE outputs,
  phase <- IF phase = "direct" /\ Len(outputs) < Len(inputs) THEN "enter" ELSE phase
ImplementsEngine == Coarse!Spec

(* The crossovers of src/simd/mod.rs:156-159: from 64 bytes on four        *)
(* messages of a length are worth a fused call, from 32 on eight.          *)
Enough(len) == IF len >= 64 THEN 4 ELSE 8
RunFrom(ms, lo, n) ==
  /\ lo + n - 1 <= Len(ms)
  /\ \A j \in lo .. lo + n - 1 : Length(ms[j]) = Length(ms[lo])
WorthFusing(ms, lo) ==
  Length(ms[lo]) >= 32 /\ RunFrom(ms, lo, Enough(Length(ms[lo])))
Fusable(ms) == \E lo \in 1 .. Len(ms) : WorthFusing(ms, lo)

(* The batch that was hashed: sorted by hash_many_grouped or as given.     *)
HashedBatch == IF entry = "grouped" /\ temp # << >> THEN SortedBy(order) ELSE inputs

(* Sorting pays (src/engine.rs:67-76 and pick_batch agree).  On a          *)
(* processor with a fused kernel a call makes a fused call if and only if  *)
(* the batch it hashes has a run worth one.  hash_many_grouped makes one   *)
(* whenever the order of its caller allows one, so sorting loses nothing,  *)
(* and on messages of a block or more it makes one exactly when enough of  *)
(* them share a length, wherever they stand.                               *)
GroupingPays ==
  phase = "done" /\ platform \in {"avx2", "avx512", "neon"} =>
    /\ scall.n > 0 <=> Fusable(HashedBatch)
    /\ entry = "grouped" =>
         /\ Fusable(inputs) => scall.n > 0
         /\ (\A j \in Indices : Length(inputs[j]) >= 64) =>
              (scall.n > 0 <=> Popular(inputs))
=============================================================================
