------------------------------- MODULE Kernels -----------------------------
(***************************************************************************)
(* The compression kernels, step by step: compress_textbook and compress   *)
(* of src/compress.rs (and step_dest, the same step as a loop, which       *)
(* compress_pair of src/multibuf.rs takes in two lanes in turn), one lane  *)
(* of the vector step of src/simd/wide.rs with the operations of the x86   *)
(* adapters ("wide") and of NEON ("neon"), and the vendored kernels of     *)
(* src/simd/single_aarch.rs and src/simd/single_x86.rs.  The x86 kernel is *)
(* software-pipelined: each round adds the message word of the next round  *)
(* into the register that round will write, and keeps an operand in a      *)
(* scratch register across the round boundary.                             *)
(***************************************************************************)
EXTENDS Words

CONSTANTS
  Inputs,     \* the sequences of blocks that are compressed
  Chains      \* the chaining values to start from

ASSUME InputAssumption == Inputs \subseteq Seq(Block) /\ Chains \subseteq Regs

VARIABLES
  kernel,   \* the kernel of this build
  chain,    \* the chaining value
  todo,     \* the blocks that wait
  m,        \* the words of the block in work
  v,        \* the registers a, b, c, d
  t1,       \* the scratch register of the x86 kernel
  step,     \* the steps done on this block
  busy      \* whether a block is in work

vars == <<kernel, chain, todo, m, v, t1, step, busy>>

KernelNames == {"textbook", "in_tree", "wide", "neon", "aarch64", "x86"}

(***************************************************************************)
(* The boolean functions, as each kernel computes them.                    *)
(***************************************************************************)
TextbookMix(round, x, y, z) ==
  CASE round = 0 -> Or(And(x, y), And(Not(x), z))
    [] round = 1 -> Or(And(x, z), And(y, Not(z)))
    [] round = 2 -> Xor(Xor(x, y), z)
    [] round = 3 -> Xor(y, Or(x, Not(z)))

(* Mutation: an addition of masks that are not disjoint. *)
InTreeMixOverlap(round, x, y, z) ==
  CASE round = 0 -> Xor(z, And(x, Xor(y, z)))
    [] round = 1 -> Plus(And(x, z), And(y, Not(x)))
    [] round = 2 -> Xor(Xor(x, y), z)
    [] round = 3 -> Xor(y, Or(x, Not(z)))

(* mix_f, mix_g, mix_h, mix_i and the unrolled forms of compress. *)
InTreeMix(round, x, y, z) ==
  CASE round = 0 -> Xor(z, And(x, Xor(y, z)))
    [] round = 1 -> Plus(And(x, z), And(y, Not(z)))
    [] round = 2 -> Xor(Xor(x, y), z)
    [] round = 3 -> Xor(y, Or(x, Not(z)))

(* One lane of the adapters: NEON has a negation (vmvn), AVX2 and AVX-512  *)
(* have none, and none of them has a rotate.                               *)
LaneNot(k, x) == IF k = "neon" THEN Not(x) ELSE Xor(x, Ones)
LaneRotl(x, r) == Or(Shl(x, r), Shr(x, WordBits - r))

WideMix(k, round, x, y, z) ==
  CASE round = 0 -> Xor(z, And(x, Xor(y, z)))
    [] round = 1 -> Xor(y, And(z, Xor(x, y)))
    [] round = 2 -> Xor(Xor(x, y), z)
    [] round = 3 -> Xor(y, Or(x, LaneNot(k, z)))

AarchMix(round, b, c, d) ==
  CASE round = 0 -> Xor(d, And(b, Xor(c, d)))
    [] round = 1 -> Plus(And(Not(d), c), And(d, b))
    [] round = 2 -> Xor(Xor(b, c), d)
    [] round = 3 -> Xor(c, Or(b, Not(d)))

(***************************************************************************)
(* One step of each kernel.                                                *)
(***************************************************************************)
(* The kernels that read the shared tables. *)
TableStep(w, s, mix) ==
  [w EXCEPT ![Dest(s)] =
     Plus(X(w, s),
          Rotl(Plus(Plus(Plus(@, mix), Const(s)), m[MsgWord(s)]), RotOf(s)))]

WideStep(k, w, s) ==
  LET mix == WideMix(k, Round(s), X(w, s), Y(w, s), Z(w, s)) IN
    [w EXCEPT ![Dest(s)] =
       Plus(X(w, s),
            LaneRotl(Plus(Plus(Plus(@, mix), Const(s)), m[MsgWord(s)]), RotOf(s)))]

(* f!, g!, h!, i!: a += mix + m + k, then ror by 32 - r, then += b. *)
AarchStep(w, s) ==
  LET mix == AarchMix(Round(s), X(w, s), Y(w, s), Z(w, s))
      sum == Plus(Plus(Plus(w[Dest(s)], mix), m[AarchMsg[s + 1]]), Const(s))
  IN  [w EXCEPT ![Dest(s)] = Plus(Ror(sum, WordBits - Literal(s)), X(w, s))]

(* ROUND_F .. ROUND_I up to the rotate: what ends up in A.  t holds the    *)
(* operand D on entry; D itself gets its preload in between, after its     *)
(* last use in F and G and before the second xor in H.                     *)
X86Sum(round, a, t, b, c, d) ==
  CASE round = 0 -> Plus(a, Xor(And(Xor(t, c), b), d))
    [] round = 1 -> Plus(Plus(a, And(Not(t), c)), And(d, b))
    [] round = 2 -> Plus(a, Xor(Xor(t, c), b))
    [] round = 3 -> Plus(a, Xor(Or(Not(t), b), c))

(* The register that round s loads ahead into: the D of its four. *)
Ahead(s) == (Dest(s) + 3) % 4

(* Mutation: the load ahead reaches D before D is used. *)
X86RoundEarly(w, s) ==
  LET d == IF s < 63 THEN Plus(Z(w, s), m[X86Msg[s + 2]]) ELSE Z(w, s)
      a == X86Sum(Round(s), Plus(w[Dest(s)], Const(s)), t1, X(w, s), Y(w, s), d)
  IN  [w EXCEPT ![Ahead(s)] = d, ![Dest(s)] = Plus(Rotl(a, Literal(s)), X(w, s))]

X86Round(w, s) ==
  LET a == X86Sum(Round(s), Plus(w[Dest(s)], Const(s)), t1, X(w, s), Y(w, s), Z(w, s))
      d == IF s < 63 THEN Plus(Z(w, s), m[X86Msg[s + 2]]) ELSE Z(w, s)
  IN  [w EXCEPT ![Dest(s)] = Plus(Rotl(a, Literal(s)), X(w, s)), ![Ahead(s)] = d]

(* The preamble: the first word goes into a, d into the scratch register.  *)
X86Preamble(w, blk) == [w EXCEPT ![0] = Plus(@, blk[X86Msg[1]])]

(***************************************************************************)
(* The calls: one block after the other.                                   *)
(***************************************************************************)
Init ==
  /\ kernel \in KernelNames
  /\ chain \in Chains /\ todo \in Inputs
  /\ m = Blank /\ v = chain /\ t1 = chain[3] /\ step = 0 /\ busy = FALSE

(* Mutations: a loader that stops one word early, a scratch register       *)
(* seeded with the wrong operand, a chaining value that is not fed forward. *)
BeginShort ==
  /\ ~busy /\ todo # << >>
  /\ m' = [i \in 0 .. 14 |-> Head(todo)[i]] /\ todo' = Tail(todo)
  /\ v' = IF kernel = "x86" THEN X86Preamble(chain, m') ELSE chain
  /\ t1' = chain[3]
  /\ step' = 0 /\ busy' = TRUE
  /\ UNCHANGED <<kernel, chain>>
BeginSeedC ==
  /\ ~busy /\ todo # << >>
  /\ m' = Head(todo) /\ todo' = Tail(todo)
  /\ v' = IF kernel = "x86" THEN X86Preamble(chain, m') ELSE chain
  /\ t1' = chain[2]
  /\ step' = 0 /\ busy' = TRUE
  /\ UNCHANGED <<kernel, chain>>
FinishNoFeed ==
  /\ busy /\ step = 64
  /\ chain' = v
  /\ busy' = FALSE
  /\ UNCHANGED <<kernel, todo, m, v, t1, step>>

(* Every kernel loads the words and copies the chaining value first; the   *)
(* x86 kernel (src/simd/single_x86.rs:33-63) loads one word ahead as well. *)
Begin ==
  /\ ~busy /\ todo # << >>
  /\ m' = Head(todo) /\ todo' = Tail(todo)
  /\ v' = IF kernel = "x86" THEN X86Preamble(chain, m') ELSE chain
  /\ t1' = chain[3]
  /\ step' = 0 /\ busy' = TRUE
  /\ UNCHANGED <<kernel, chain>>

Step ==
  /\ busy /\ step < 64
  /\ LET r == Round(step)
         x == X(v, step)
         y == Y(v, step)
         z == Z(v, step)
     IN  v' = CASE kernel = "textbook" -> TableStep(v, step, TextbookMix(r, x, y, z))
                [] kernel = "in_tree"  -> TableStep(v, step, InTreeMix(r, x, y, z))
                [] kernel \in {"wide", "neon"} -> WideStep(kernel, v, step)
                [] kernel = "aarch64"  -> AarchStep(v, step)
                [] kernel = "x86"      -> X86Round(v, step)
  /\ t1' = IF kernel = "x86" THEN Y(v, step) ELSE t1     \* mov C, TMP1
  /\ step' = step + 1
  /\ UNCHANGED <<kernel, chain, todo, m, busy>>

Finish ==
  /\ busy /\ step = 64
  /\ chain' = [r \in Reg |-> Plus(chain[r], v[r])]
  /\ busy' = FALSE
  /\ UNCHANGED <<kernel, todo, m, v, t1, step>>

Next == Begin \/ Step \/ Finish
Spec == Init /\ [][Next]_vars

(***************************************************************************)
(* Properties.                                                             *)
(***************************************************************************)
TypeOK ==
  /\ kernel \in KernelNames
  /\ chain \in Regs /\ v \in Regs /\ t1 \in Word /\ m \in Block
  /\ todo \in Seq(Block)
  /\ step \in 0 .. 64 /\ busy \in BOOLEAN

(* What the x86 rounds hand to each other, across the boundary between the *)
(* two asm blocks too: while a block is in work, the scratch register      *)
(* holds the operand z of the round to come, whatever was loaded ahead     *)
(* into the other registers (src/simd/single_x86.rs:37-50, 260-283).       *)
Pipelining == kernel = "x86" /\ busy /\ step < 64
HandOver == Pipelining => t1 = Z(v, step)

(* Every kernel computes the compression function of RFC 1321: register    *)
(* for register after each of the 64 steps, once the word loaded ahead is  *)
(* taken off, and for every block after the first.                         *)
Unloaded ==
  IF Pipelining THEN [v EXCEPT ![Dest(step)] = Minus(@, m[MsgWord(step)])] ELSE v
Rfc == INSTANCE RfcCompression WITH v <- Unloaded
ImplementsRfcCompression == Rfc!Spec
=============================================================================
