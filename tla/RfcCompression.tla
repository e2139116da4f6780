--------------------------- MODULE RfcCompression --------------------------
(***************************************************************************)
(* The compression function as RFC 1321 section 3.4 describes it: blocks   *)
(* are absorbed one by one, each in 64 steps on four registers, with the   *)
(* boolean functions, word order and rotates of the text.                  *)
(***************************************************************************)
EXTENDS Words

CONSTANT Inputs     \* the sequences of blocks that are compressed

VARIABLES
  chain,    \* the chaining value
  todo,     \* the blocks that wait
  m,        \* the words of the block in work
  v,        \* the registers
  step,     \* the steps done on this block
  busy      \* whether a block is in work

vars == <<chain, todo, m, v, step, busy>>

RfcMix(round, x, y, z) ==
  CASE round = 0 -> Or(And(x, y), And(Not(x), z))
    [] round = 1 -> Or(And(x, z), And(y, Not(z)))
    [] round = 2 -> Xor(Xor(x, y), z)
    [] round = 3 -> Xor(y, Or(x, Not(z)))

RfcWord(s) ==
  CASE Round(s) = 0 -> s % 16
    [] Round(s) = 1 -> (1 + 5 * s) % 16
    [] Round(s) = 2 -> (5 + 3 * s) % 16
    [] Round(s) = 3 -> (7 * s) % 16

(* a = b + ((a + mix(b, c, d) + M[k] + T[i]) <<< s) *)
RfcStep(w, blk, s) ==
  [w EXCEPT ![Dest(s)] =
     Plus(X(w, s),
          Rotl(Plus(Plus(Plus(@, RfcMix(Round(s), X(w, s), Y(w, s), Z(w, s))),
                         blk[RfcWord(s)]),
                    Const(s)),
               RotOf(s)))]

Init ==
  /\ chain \in Regs /\ todo \in Inputs
  /\ m = Blank /\ v = chain /\ step = 0 /\ busy = FALSE

Begin ==
  /\ ~busy /\ todo # << >>
  /\ m' = Head(todo) /\ todo' = Tail(todo)
  /\ v' = chain /\ step' = 0 /\ busy' = TRUE
  /\ UNCHANGED chain

Step ==
  /\ busy /\ step < 64
  /\ v' = RfcStep(v, m, step)
  /\ step' = step + 1
  /\ UNCHANGED <<chain, todo, m, busy>>

Finish ==
  /\ busy /\ step = 64
  /\ chain' = [r \in Reg |-> Plus(chain[r], v[r])]
  /\ busy' = FALSE
  /\ UNCHANGED <<todo, m, v, step>>

Next == Begin \/ Step \/ Finish
Spec == Init /\ [][Next]_vars
=============================================================================
