------------------------------- MODULE Platform ----------------------------
(***************************************************************************)
(* Processor detection on x86 (src/simd/platform.rs) under several         *)
(* threads: two OnceLocks, the initialiser of one of which asks the other. *)
(* A thread that hashes a batch asks for the lane count first and asks     *)
(* again for every fused call; `name' asks to report the kernel.  What     *)
(* makes the answers fit together is that each cell is written once.       *)
(***************************************************************************)
EXTENDS Naturals, Sequences, FiniteSets

CONSTANTS
  Threads,    \* the threads of the calling program
  Counts      \* the numbers of messages, all of 64 bytes, of a batch

ASSUME ThreadAssumption == Counts \subseteq Nat /\ {"empty", "ready"} \cap Threads = {}

VARIABLES
  cpu,        \* what the processor and the operating system support
  std,        \* the cargo feature `std': without it the probes say no
  cell,       \* a OnceLock: "empty", the thread that fills it, or "ready"
  value,      \* what the cells hold
  at,         \* per thread, its place in a probe: see the actions
  on,         \* per thread, the cell it probes
  nested,     \* per thread, whether it is in the initialiser of "avx512"
  answer,     \* per thread, the answer to its last probe
  pc,         \* per thread, its place in lanes, hash_equal_n or name
  left,       \* per thread, the messages still to hash; 0 in name
  width,      \* per thread, what lanes() returned
  chosen      \* per thread, the fused kernel that runs, or the name reported

cells  == <<cell, value>>
probes == <<at, on, nested, answer>>
calls  == <<pc, left, width, chosen>>
platformVars == <<cpu, std, cells, probes, calls>>

Cells == {"avx2", "avx512"}

PlatformInit ==
  /\ cpu \in SUBSET {"avx512f", "avx2"} /\ std \in BOOLEAN
  /\ cell = [c \in Cells |-> "empty"] /\ value = [c \in Cells |-> FALSE]
  /\ at = [t \in Threads |-> "call"] /\ on = [t \in Threads |-> "avx2"]
  /\ nested = [t \in Threads |-> FALSE] /\ answer = [t \in Threads |-> FALSE]
  /\ pc = [t \in Threads |-> "idle"] /\ left = [t \in Threads |-> 0]
  /\ width = [t \in Threads |-> 0] /\ chosen = [t \in Threads |-> "none"]

(***************************************************************************)
(* A probe: x86_has_avx2, x86_has_avx512.                                  *)
(***************************************************************************)
(* The probe that returns is the caller's, or the nested one. *)
Return(t, yes) ==
  /\ answer' = [answer EXCEPT ![t] = yes]
  /\ LET inner == nested[t] /\ on[t] = "avx2" IN
       /\ at' = [at EXCEPT ![t] = IF inner THEN "filled" ELSE "call"]
       /\ on' = [on EXCEPT ![t] = IF inner THEN "avx512" ELSE @]
       /\ nested' = [nested EXCEPT ![t] = FALSE]

(* Mutation: a cell that is being filled is read as it is. *)
ReadEarly(t) ==
  /\ at[t] = "ask" /\ (std => cell[on[t]] \notin {"empty", t})
  /\ Return(t, std /\ value[on[t]])
  /\ UNCHANGED <<cpu, std, cells, calls>>

(* get_or_init finds a value; without std there is no cell. *)
Read(t) ==
  /\ at[t] = "ask" /\ (std => cell[on[t]] = "ready")
  /\ Return(t, std /\ value[on[t]])
  /\ UNCHANGED <<cpu, std, cells, calls>>

(* Mutation: a check and a later store, not a OnceLock. *)
EnterUnlocked(t) ==
  /\ at[t] = "ask" /\ std /\ cell[on[t]] # "ready"
  /\ at' = [at EXCEPT ![t] = "fill"]
  /\ UNCHANGED <<cpu, std, cells, on, nested, answer, calls>>

(* The first thread to come runs the initialiser, the others wait. *)
Enter(t) ==
  /\ at[t] = "ask" /\ std /\ cell[on[t]] = "empty"
  /\ cell' = [cell EXCEPT ![on[t]] = t]
  /\ at' = [at EXCEPT ![t] = "fill"]
  /\ UNCHANGED <<cpu, std, value, on, nested, answer, calls>>

FillAvx2(t) ==
  /\ at[t] = "fill" /\ on[t] = "avx2"
  /\ answer' = [answer EXCEPT ![t] = "avx2" \in cpu]
  /\ at' = [at EXCEPT ![t] = "filled"]
  /\ UNCHANGED <<cpu, std, cells, on, nested, calls>>

(* Mutations: AVX2 is not asked for; the nested probe asks its own cell.   *)
FillAvx512Alone(t) ==
  /\ at[t] = "fill" /\ on[t] = "avx512"
  /\ answer' = [answer EXCEPT ![t] = "avx512f" \in cpu]
  /\ at' = [at EXCEPT ![t] = "filled"]
  /\ UNCHANGED <<cpu, std, cells, on, nested, calls>>
FillAvx512Own(t) ==
  /\ at[t] = "fill" /\ on[t] = "avx512"
  /\ at' = [at EXCEPT ![t] = "ask"]
  /\ UNCHANGED <<cpu, std, cells, on, nested, answer, calls>>

(* is_x86_feature_detected!("avx512f") && x86_has_avx2(). *)
FillAvx512(t) ==
  /\ at[t] = "fill" /\ on[t] = "avx512"
  /\ IF "avx512f" \in cpu
     THEN /\ at' = [at EXCEPT ![t] = "ask"] /\ on' = [on EXCEPT ![t] = "avx2"]
          /\ nested' = [nested EXCEPT ![t] = TRUE]
          /\ UNCHANGED answer
     ELSE /\ at' = [at EXCEPT ![t] = "filled"]
          /\ answer' = [answer EXCEPT ![t] = FALSE]
          /\ UNCHANGED <<on, nested>>
  /\ UNCHANGED <<cpu, std, cells, calls>>

(* The initialiser's value is stored, waiting threads may read it. *)
Publish(t) ==
  /\ at[t] = "filled"
  /\ cell' = [cell EXCEPT ![on[t]] = "ready"]
  /\ value' = [value EXCEPT ![on[t]] = answer[t]]
  /\ Return(t, answer[t])
  /\ UNCHANGED <<cpu, std, calls>>

(***************************************************************************)
(* The callers of the probes: lanes, hash_equal_n, name, and the loop of   *)
(* hash_many_dispatch that calls the first two.                            *)
(***************************************************************************)
(* Thread t goes to p and probes c there. *)
Ask(t, p, c) ==
  /\ pc' = [pc EXCEPT ![t] = p]
  /\ at' = [at EXCEPT ![t] = "ask"] /\ on' = [on EXCEPT ![t] = c]
  /\ UNCHANGED <<nested, answer>>
Goto(t, p) == pc' = [pc EXCEPT ![t] = p] /\ UNCHANGED probes

(* A thread makes a call: a batch of n messages, or (n = 0) name. *)
Call(t) ==
  /\ pc[t] = "idle"
  /\ \E n \in Counts \cup {0} : left' = [left EXCEPT ![t] = n]
  /\ width' = [width EXCEPT ![t] = 0] /\ chosen' = [chosen EXCEPT ![t] = "none"]
  /\ Ask(t, "lanes", "avx512")

(* lanes: 16, or 8, or 1; with 1 the scalar code does the rest.  name asks *)
(* again which of the two kernels it is.                                   *)
LanesAre(t, w) ==
  /\ width' = [width EXCEPT ![t] = w]
  /\ \/ w = 1 /\ Goto(t, "idle")
     \/ w > 1 /\ left[t] > 0 /\ Goto(t, "batch")
     \/ w > 1 /\ left[t] = 0 /\ Ask(t, "equal", "avx512")
  /\ UNCHANGED <<left, chosen>>
Lanes(t) ==
  /\ at[t] = "call"
  /\ \/ pc[t] = "lanes" /\ answer[t] /\ LanesAre(t, 16)
     \/ pc[t] = "lanes" /\ ~answer[t]
        /\ Ask(t, "lanes2", "avx2") /\ UNCHANGED <<left, width, chosen>>
     \/ pc[t] = "lanes2" /\ LanesAre(t, IF answer[t] THEN 8 ELSE 1)

(* The scheduler with a platform that never changes (module Dispatch).     *)
Fixed ==
  CASE std /\ cpu = {"avx512f", "avx2"} -> "avx512"
    [] std /\ cpu = {"avx2"}            -> "avx2"
    [] OTHER                            -> "none"
D == INSTANCE Dispatch WITH
  platform <- Fixed, Platforms <- {"none"}, Batches <- {}, Slack <- {},
  Untouched <- 0, inputs <- << >>, outputs <- << >>, phase <- "enter",
  i <- 0, run <- 0, done <- 0, call <- [n |-> 0]

(* How many messages the next fused call gets; 0 when there is none. *)
Size(t) == D!PickBatch(left[t], width[t], 64)

(* Mutation: the small-batch test does not look at the size. *)
EqualAvx2First(t) ==
  /\ pc[t] = "batch" /\ Size(t) > 0
  /\ Ask(t, "small", "avx2")
  /\ UNCHANGED <<left, width, chosen>>

(* hash_equal_n with Size(t) messages: AVX2 first for a small batch. *)
Equal(t) ==
  /\ pc[t] = "batch" /\ Size(t) > 0
  /\ IF Size(t) <= 8 THEN Ask(t, "small", "avx2") ELSE Ask(t, "equal", "avx512")
  /\ UNCHANGED <<left, width, chosen>>

(* The kernel that hash_equal_n runs or name reports. *)
Use(t, k) ==
  /\ chosen' = [chosen EXCEPT ![t] = k]
  /\ Goto(t, IF left[t] > 0 THEN "run" ELSE "idle")
Choose(t) ==
  /\ at[t] = "call"
  /\ \/ pc[t] = "small" /\ answer[t] /\ Use(t, "avx2")
     \/ pc[t] = "small" /\ ~answer[t] /\ Ask(t, "equal", "avx512") /\ UNCHANGED chosen
     \/ pc[t] = "equal" /\ answer[t] /\ Use(t, "avx512")
     \/ pc[t] = "equal" /\ ~answer[t] /\ Ask(t, "equal2", "avx2") /\ UNCHANGED chosen
     \/ pc[t] = "equal2" /\ Use(t, IF answer[t] THEN "avx2" ELSE "none")
  /\ UNCHANGED <<left, width>>

(* Mutation: a finished fused call does not advance the loop. *)
RunNoAdvance(t) ==
  /\ pc[t] = "run" \/ (pc[t] = "batch" /\ left[t] > 0 /\ Size(t) = 0)
  /\ left' = [left EXCEPT ![t] = IF pc[t] = "run" THEN @ ELSE @ - 1]
  /\ chosen' = [chosen EXCEPT ![t] = "none"]
  /\ Goto(t, "batch")
  /\ UNCHANGED width

(* The fused call is over, or a message is hashed alone. *)
Run(t) ==
  /\ \/ pc[t] = "run" /\ left' = [left EXCEPT ![t] = @ - Size(t)]
     \/ /\ pc[t] = "batch" /\ left[t] > 0 /\ Size(t) = 0
        /\ left' = [left EXCEPT ![t] = @ - 1]
  /\ chosen' = [chosen EXCEPT ![t] = "none"]
  /\ Goto(t, "batch")
  /\ UNCHANGED width

Done(t) ==
  /\ pc[t] = "batch" /\ left[t] = 0
  /\ Goto(t, "idle")
  /\ UNCHANGED <<left, width, chosen>>

Program(t) ==
  /\ Call(t) \/ Lanes(t) \/ Equal(t) \/ Choose(t) \/ Run(t) \/ Done(t)
  /\ UNCHANGED <<cpu, std, cells>>
Probe(t) == Read(t) \/ Enter(t) \/ FillAvx2(t) \/ FillAvx512(t) \/ Publish(t)

PlatformNext == \E t \in Threads : Program(t) \/ Probe(t)

(* The system schedules every thread that can run; a caller may stop       *)
(* making calls.                                                           *)
Fairness == \A t \in Threads : WF_platformVars(pc[t] # "idle" /\ (Program(t) \/ Probe(t)))
PlatformSpec == PlatformInit /\ [][PlatformNext]_platformVars /\ Fairness

(***************************************************************************)
(* Properties.                                                             *)
(***************************************************************************)
(* A cell belongs to the thread that fills it, and to no other, until its  *)
(* value is there.                                                         *)
Filling(t, c) ==
  \/ at[t] \in {"fill", "filled"} /\ on[t] = c
  \/ nested[t] /\ c = "avx512"
PlatformTypeOK ==
  /\ at \in [Threads -> {"call", "ask", "fill", "filled"}]
  /\ pc \in [Threads -> {"idle", "lanes", "lanes2", "batch", "small", "equal",
                         "equal2", "run"}]
  /\ width \in [Threads -> {0, 1, 8, 16}]
  /\ \A t \in Threads, c \in Cells : Filling(t, c) <=> cell[c] = t

(* The unsafe calls of hash_equal_n run on a processor that has what the   *)
(* kernel needs, the AVX2 of the 512-bit gather included, and with no more *)
(* groups than the kernel has states (src/simd/platform.rs:180-189,        *)
(* src/simd/avx512.rs:145-150), although the size was chosen from another  *)
(* probe's answer.                                                         *)
KernelSafe ==
  \A t \in Threads : pc[t] = "run" =>
    /\ chosen[t] = "avx512" => {"avx512f", "avx2"} \subseteq cpu
    /\ chosen[t] = "avx2"   => "avx2" \in cpu
    /\ chosen[t] # "none"   => D!Ceil(Size(t), D!LanesIn(chosen[t])) <= D!MaxGroups

(* Every thread sees the one platform of this process, in every probe of   *)
(* every call, during and after the initialisation: the lane count and the *)
(* kernels are those of module Dispatch, whose platform never changes.     *)
OnePlatform ==
  \A t \in Threads :
    /\ width[t] # 0 => width[t] = D!Lanes
    /\ pc[t] = "run" => chosen[t] = D!KernelFor(Size(t))
    /\ pc[t] = "idle" /\ width[t] # 0 /\ chosen[t] # "none" => chosen[t] = Fixed

(* Waiting for a cell never comes back to the thread that waits: the       *)
(* nested probe asks the other cell, never the other way round.            *)
Waits(t, u) == at[t] = "ask" /\ std /\ cell[on[t]] = u
NoCircularWait ==
  \A t, u \in Threads : Waits(t, u) => u # t /\ ~Waits(u, t)

(* Every call returns, whichever thread initialises the cells. *)
CallsReturn == \A t \in Threads : pc[t] # "idle" ~> pc[t] = "idle"
=============================================================================
