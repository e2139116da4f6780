----------------------------- MODULE KernelProofs --------------------------
(***************************************************************************)
(* Every kernel computes the compression function, for every word that     *)
(* obeys the laws of module WordLaws, every block and every chaining value;*)
(* and the kernel that runs is one the processor has: detection gives every*)
(* thread the same platform and never waits in a circle, for every number  *)
(* of threads and every batch size.                                        *)
(***************************************************************************)
EXTENDS Kernels, WordLaws, Platform, TLAPS

(***************************************************************************)
(* The schedule.                                                           *)
(***************************************************************************)
(* The literal orders and rotates agree with the tables of consts.rs, and  *)
(* the tables with the formulas of RFC 1321.                               *)
LEMMA Tables ==
  ASSUME NEW s \in 0 .. 63
  PROVE  /\ MsgWord(s) \in 0 .. 15 /\ AarchMsg[s + 1] = MsgWord(s)
         /\ X86Msg[s + 1] = MsgWord(s)
         /\ RotOf(s) \in 4 .. 23 /\ Literal(s) = RotOf(s)
         /\ MsgWord(s) = Rfc!RfcWord(s)
<1>1. MsgWord(s) \in 0 .. 15
  BY SMT DEF MsgWord, MSG
<1>2. AarchMsg[s + 1] = MsgWord(s) /\ X86Msg[s + 1] = MsgWord(s)
  BY SMT DEF MsgWord, MSG, AarchMsg, X86Msg
<1>3. RotOf(s) \in 4 .. 23
  BY SMT DEF RotOf, S
<1>4. Literal(s) = RotOf(s)
  BY SMT DEF Literal, LiteralRot, Round, RotOf, S
<1>5. MsgWord(s) = Rfc!RfcWord(s)
  BY SMT DEF MsgWord, MSG, Rfc!RfcWord, Rfc!Round
<1> QED BY <1>1, <1>2, <1>3, <1>4, <1>5

(* The four registers of a step are all there is, the z of a step is the   *)
(* register of the next, and its y is the z of the next.                   *)
LEMMA Cycle ==
  ASSUME NEW s \in 0 .. 63
  PROVE  /\ Dest(s) \in Reg /\ Round(s) \in 0 .. 3
         /\ (Dest(s) + 1) % 4 \in Reg \ {Dest(s)}
         /\ (Dest(s) + 2) % 4 \in Reg \ {Dest(s), Ahead(s)}
         /\ Ahead(s) \in Reg \ {Dest(s)}
         /\ Dest(s + 1) = Ahead(s)
         /\ (Dest(s + 1) + 3) % 4 = (Dest(s) + 2) % 4
BY SMT DEF Dest, DEST, Round, Reg, Ahead

(***************************************************************************)
(* The laws of the words, one by one.                                      *)
(***************************************************************************)
LEMMA Closed ==
  ASSUME NEW x \in Word, NEW y \in Word
  PROVE  /\ Plus(x, y) \in Word /\ Minus(x, y) \in Word
         /\ And(x, y) \in Word /\ Or(x, y) \in Word /\ Xor(x, y) \in Word
         /\ Not(x) \in Word
BY WordAssumption, PlusAssumption

LEMMA Commute ==
  ASSUME NEW x \in Word, NEW y \in Word
  PROVE  /\ Plus(x, y) = Plus(y, x) /\ And(x, y) = And(y, x)
         /\ Or(x, y) = Or(y, x) /\ Xor(x, y) = Xor(y, x)
BY PlusAssumption, LogicAssumption

LEMMA Associate ==
  ASSUME NEW x \in Word, NEW y \in Word, NEW z \in Word
  PROVE  Plus(Plus(x, y), z) = Plus(x, Plus(y, z))
BY PlusAssumption

LEMMA AssociateXor ==
  ASSUME NEW x \in Word, NEW y \in Word, NEW z \in Word
  PROVE  Xor(Xor(x, y), z) = Xor(x, Xor(y, z))
BY LogicAssumption

LEMMA Cancel ==
  ASSUME NEW x \in Word, NEW y \in Word
  PROVE  Minus(Plus(x, y), y) = x /\ Plus(Minus(x, y), y) = x
BY PlusAssumption

LEMMA Identities ==
  ASSUME NEW x \in Word, NEW y \in Word, NEW z \in Word
  PROVE  /\ Xor(z, And(x, Xor(y, z))) = Or(And(x, y), And(Not(x), z))
         /\ Xor(y, And(z, Xor(x, y))) = Or(And(x, z), And(y, Not(z)))
         /\ Plus(And(x, z), And(y, Not(z))) = Or(And(x, z), And(y, Not(z)))
BY MixAssumption

LEMMA Rotates ==
  ASSUME NEW x \in Word, NEW r \in 4 .. 23
  PROVE  Rotl(x, r) \in Word /\ Ror(x, WordBits - r) = Rotl(x, r)
BY RotateAssumption

LEMMA Shifts ==
  ASSUME NEW x \in Word, NEW r \in 4 .. 23
  PROVE  LaneRotl(x, r) = Rotl(x, r)
BY LaneAssumption DEF LaneRotl

LEMMA Negates ==
  ASSUME NEW x \in Word, NEW k
  PROVE  LaneNot(k, x) = Not(x)
BY LaneAssumption DEF LaneNot

LEMMA Constants ==
  ASSUME NEW s \in 0 .. 63
  PROVE  Const(s) \in Word
BY WordAssumption

(***************************************************************************)
(* One step.                                                               *)
(***************************************************************************)
(* The operands of a step are words. *)
LEMMA Operands ==
  ASSUME NEW w \in Regs, NEW s \in 0 .. 63
  PROVE  /\ X(w, s) \in Word /\ Y(w, s) \in Word /\ Z(w, s) \in Word
         /\ w[Dest(s)] \in Word
         /\ X(w, s) = Rfc!X(w, s) /\ Y(w, s) = Rfc!Y(w, s) /\ Z(w, s) = Rfc!Z(w, s)
<1>1. /\ (Dest(s) + 1) % 4 \in Reg /\ (Dest(s) + 2) % 4 \in Reg
      /\ (Dest(s) + 3) % 4 \in Reg /\ Dest(s) \in Reg
  BY Cycle DEF Ahead
<1>2. Dest(s) = Rfc!Dest(s)
  BY DEF Dest, Rfc!Dest, DEST, Rfc!DEST
<1> QED BY <1>1, <1>2, Zenon DEF X, Y, Z, Rfc!X, Rfc!Y, Rfc!Z, Regs

(* All four ways to compute a boolean function give the one of RFC 1321,   *)
(* with either negation of the vector adapters.                            *)
LEMMA Mixes ==
  ASSUME NEW r \in 0 .. 3, NEW x \in Word, NEW y \in Word, NEW z \in Word, NEW k
  PROVE  /\ Rfc!RfcMix(r, x, y, z) \in Word
         /\ TextbookMix(r, x, y, z) = Rfc!RfcMix(r, x, y, z)
         /\ InTreeMix(r, x, y, z) = Rfc!RfcMix(r, x, y, z)
         /\ WideMix(k, r, x, y, z) = Rfc!RfcMix(r, x, y, z)
         /\ AarchMix(r, x, y, z) = Rfc!RfcMix(r, x, y, z)
<1>1. /\ Not(x) \in Word /\ Not(z) \in Word /\ And(x, y) \in Word
      /\ And(x, z) \in Word /\ And(z, x) = And(x, z)
  BY Closed, Commute
<1>2. /\ And(Not(x), z) \in Word /\ And(y, Not(z)) \in Word /\ Or(x, Not(z)) \in Word
      /\ And(Not(z), y) = And(y, Not(z)) /\ Xor(x, y) \in Word
  BY <1>1, Closed, Commute
<1>3. CASE r = 0
  <2>1. Or(And(x, y), And(Not(x), z)) \in Word
    BY <1>1, <1>2, Closed
  <2> QED BY <1>3, <2>1, Identities, SMT
          DEF TextbookMix, InTreeMix, WideMix, AarchMix, Rfc!RfcMix
<1>4. CASE r = 1
  <2>1. Or(And(x, z), And(y, Not(z))) \in Word
    BY <1>1, <1>2, Closed
  <2>2. Plus(And(Not(z), y), And(z, x)) = Plus(And(x, z), And(y, Not(z)))
    BY <1>1, <1>2, Commute
  <2> QED BY <1>4, <2>1, <2>2, Identities, SMT
          DEF TextbookMix, InTreeMix, WideMix, AarchMix, Rfc!RfcMix
<1>5. CASE r = 2
  <2>1. Xor(Xor(x, y), z) \in Word
    BY <1>2, Closed
  <2> QED BY <1>5, <2>1, SMT
          DEF TextbookMix, InTreeMix, WideMix, AarchMix, Rfc!RfcMix
<1>6. CASE r = 3
  <2>1. Xor(y, Or(x, Not(z))) \in Word /\ LaneNot(k, z) = Not(z)
    BY <1>2, Closed, Negates
  <2> QED BY <1>6, <2>1, SMT
          DEF TextbookMix, InTreeMix, WideMix, AarchMix, Rfc!RfcMix
<1> QED BY <1>3, <1>4, <1>5, <1>6

LEMMA StepMixes ==
  ASSUME NEW w \in Regs, NEW s \in 0 .. 63, NEW k
  PROVE  /\ Rfc!RfcMix(Round(s), X(w, s), Y(w, s), Z(w, s)) \in Word
         /\ AarchMix(Round(s), X(w, s), Y(w, s), Z(w, s))
              = Rfc!RfcMix(Round(s), X(w, s), Y(w, s), Z(w, s))
         /\ WideMix(k, Round(s), X(w, s), Y(w, s), Z(w, s))
              = Rfc!RfcMix(Round(s), X(w, s), Y(w, s), Z(w, s))
<1> DEFINE r == Round(s)
           x == X(w, s)
           y == Y(w, s)
           z == Z(w, s)
<1>1. r \in 0 .. 3 /\ x \in Word /\ y \in Word /\ z \in Word
  BY Operands, Cycle
<1> HIDE DEF r, x, y, z
<1>2. /\ Rfc!RfcMix(r, x, y, z) \in Word
      /\ AarchMix(r, x, y, z) = Rfc!RfcMix(r, x, y, z)
      /\ WideMix(k, r, x, y, z) = Rfc!RfcMix(r, x, y, z)
  BY <1>1, Mixes
<1> QED BY <1>2 DEF r, x, y, z

(* The sum of four words does not depend on the order of the additions.    *)
LEMMA Swap ==
  ASSUME NEW a \in Word, NEW x \in Word, NEW y \in Word
  PROVE  Plus(Plus(a, x), y) = Plus(Plus(a, y), x)
<1>1. Plus(Plus(a, x), y) = Plus(a, Plus(x, y))
  BY Associate
<1>2. Plus(Plus(a, y), x) = Plus(a, Plus(y, x))
  BY Associate
<1>3. Plus(x, y) = Plus(y, x)
  BY Commute
<1> QED BY <1>1, <1>2, <1>3

LEMMA Sums ==
  ASSUME NEW a \in Word, NEW x \in Word, NEW k \in Word, NEW w \in Word
  PROVE  /\ Plus(Plus(Plus(a, x), k), w) = Plus(Plus(Plus(a, x), w), k)
         /\ Plus(Plus(Plus(a, w), k), x) = Plus(Plus(Plus(a, x), w), k)
         /\ Plus(Plus(Plus(a, x), w), k) \in Word
<1>1. Plus(a, x) \in Word /\ Plus(a, w) \in Word
  BY Closed
<1>2. Plus(Plus(Plus(a, x), k), w) = Plus(Plus(Plus(a, x), w), k)
  BY <1>1, Swap
<1>3. Plus(Plus(Plus(a, w), k), x) = Plus(Plus(Plus(a, w), x), k)
  BY <1>1, Swap
<1>4. Plus(Plus(a, w), x) = Plus(Plus(a, x), w)
  BY Swap
<1>5. Plus(Plus(a, x), w) \in Word
  BY <1>1, Closed
<1>6. Plus(Plus(Plus(a, x), w), k) \in Word
  BY <1>5, Closed
<1> QED BY <1>2, <1>3, <1>4, <1>6

(* A step of RFC 1321 writes one register, with this word.                 *)
RfcValue(w, blk, s) ==
  Plus(X(w, s),
       Rotl(Plus(Plus(Plus(w[Dest(s)], Rfc!RfcMix(Round(s), X(w, s), Y(w, s), Z(w, s))),
                      blk[MsgWord(s)]), Const(s)), RotOf(s)))

LEMMA RfcSteps ==
  ASSUME NEW w \in Regs, NEW blk \in Block, NEW s \in 0 .. 63
  PROVE  /\ RfcValue(w, blk, s) \in Word
         /\ Rfc!RfcStep(w, blk, s) = [w EXCEPT ![Dest(s)] = RfcValue(w, blk, s)]
         /\ Rfc!RfcStep(w, blk, s) \in Regs
<1>1. Rfc!RfcStep(w, blk, s) = [w EXCEPT ![Dest(s)] = RfcValue(w, blk, s)]
  <2>1. Dest(s) = Rfc!Dest(s) /\ Round(s) = Rfc!Round(s) /\ RotOf(s) = Rfc!RotOf(s)
    BY DEF Dest, Rfc!Dest, DEST, Rfc!DEST, Round, Rfc!Round, RotOf, Rfc!RotOf, S, Rfc!S
  <2> QED BY <2>1, Operands, Tables, Zenon DEF Rfc!RfcStep, RfcValue
<1>2. /\ Rfc!RfcMix(Round(s), X(w, s), Y(w, s), Z(w, s)) \in Word
      /\ X(w, s) \in Word /\ w[Dest(s)] \in Word
  BY Operands, StepMixes
<1>3. blk[MsgWord(s)] \in Word /\ Const(s) \in Word
  BY Tables, Constants DEF Block
<1>4. Plus(Plus(Plus(w[Dest(s)], Rfc!RfcMix(Round(s), X(w, s), Y(w, s), Z(w, s))),
                blk[MsgWord(s)]), Const(s)) \in Word
  BY <1>2, <1>3, Sums
<1>5. RfcValue(w, blk, s) \in Word
  BY <1>2, <1>4, Tables, Rotates, Closed DEF RfcValue
<1> QED BY <1>1, <1>5, Cycle DEF Regs

(* The kernels that read the tables, and the aarch64 kernel, do that step. *)
LEMMA TableSteps ==
  ASSUME TypeOK, NEW s \in 0 .. 63
  PROVE  TableStep(v, s, Rfc!RfcMix(Round(s), X(v, s), Y(v, s), Z(v, s)))
           = Rfc!RfcStep(v, m, s)
<1> DEFINE mix == Rfc!RfcMix(Round(s), X(v, s), Y(v, s), Z(v, s))
<1>1. v \in Regs /\ m \in Block
  BY DEF TypeOK
<1>2. mix \in Word /\ v[Dest(s)] \in Word
  BY <1>1, Operands, StepMixes
<1>3. m[MsgWord(s)] \in Word /\ Const(s) \in Word
  BY <1>1, Tables, Constants DEF Block
<1> HIDE DEF mix
<1>4. Plus(Plus(Plus(v[Dest(s)], mix), Const(s)), m[MsgWord(s)])
        = Plus(Plus(Plus(v[Dest(s)], mix), m[MsgWord(s)]), Const(s))
  <2>1. Plus(v[Dest(s)], mix) \in Word
    BY <1>2, Closed
  <2> QED BY <2>1, <1>3, Swap
<1>5. TableStep(v, s, mix)
        = [v EXCEPT ![Dest(s)] =
             Plus(X(v, s),
                  Rotl(Plus(Plus(Plus(v[Dest(s)], mix), m[MsgWord(s)]), Const(s)), RotOf(s)))]
  BY <1>4, Zenon DEF TableStep
<1>6. Rfc!RfcStep(v, m, s)
        = [v EXCEPT ![Dest(s)] =
             Plus(X(v, s),
                  Rotl(Plus(Plus(Plus(v[Dest(s)], mix), m[MsgWord(s)]), Const(s)), RotOf(s)))]
  BY <1>1, RfcSteps, Zenon DEF mix, RfcValue
<1> QED BY <1>5, <1>6, Zenon DEF mix

(* The vector step is a table step with the rotate made of shifts. *)
LEMMA WideSteps ==
  ASSUME TypeOK, NEW s \in 0 .. 63, NEW k
  PROVE  WideStep(k, v, s) = Rfc!RfcStep(v, m, s)
<1> DEFINE mix == Rfc!RfcMix(Round(s), X(v, s), Y(v, s), Z(v, s))
           sum == Plus(Plus(Plus(v[Dest(s)], mix), Const(s)), m[MsgWord(s)])
<1>1. v \in Regs /\ m \in Block
  BY DEF TypeOK
<1>2. mix \in Word /\ v[Dest(s)] \in Word
  BY <1>1, Operands, StepMixes
<1>3. m[MsgWord(s)] \in Word /\ Const(s) \in Word
  BY <1>1, Tables, Constants DEF Block
<1>4. WideMix(k, Round(s), X(v, s), Y(v, s), Z(v, s)) = mix
  BY <1>1, StepMixes
<1> HIDE DEF mix
<1>5. sum \in Word
  <2>1. Plus(v[Dest(s)], mix) \in Word
    BY <1>2, Closed
  <2>2. Plus(Plus(v[Dest(s)], mix), Const(s)) \in Word
    BY <1>3, <2>1, Closed
  <2> QED BY <1>3, <2>2, Closed
<1> HIDE DEF sum
<1>6. LaneRotl(sum, RotOf(s)) = Rotl(sum, RotOf(s))
  BY <1>5, Tables, Shifts
<1>7. WideStep(k, v, s) = [v EXCEPT ![Dest(s)] = Plus(X(v, s), LaneRotl(sum, RotOf(s)))]
  BY <1>4, Zenon DEF WideStep, sum
<1>8. TableStep(v, s, mix) = [v EXCEPT ![Dest(s)] = Plus(X(v, s), Rotl(sum, RotOf(s)))]
  BY Zenon DEF TableStep, sum
<1> QED BY <1>6, <1>7, <1>8, TableSteps DEF mix

LEMMA AarchSteps ==
  ASSUME TypeOK, NEW s \in 0 .. 63
  PROVE  AarchStep(v, s) = Rfc!RfcStep(v, m, s)
<1> DEFINE mix == Rfc!RfcMix(Round(s), X(v, s), Y(v, s), Z(v, s))
           sum == Plus(Plus(Plus(v[Dest(s)], mix), m[MsgWord(s)]), Const(s))
<1>1. v \in Regs /\ m \in Block
  BY DEF TypeOK
<1>2. mix \in Word /\ v[Dest(s)] \in Word /\ X(v, s) \in Word
  BY <1>1, Operands, StepMixes
<1>3. m[MsgWord(s)] \in Word /\ Const(s) \in Word
  BY <1>1, Tables, Constants DEF Block
<1>4. sum \in Word
  BY <1>2, <1>3, Sums
<1>5. AarchMix(Round(s), X(v, s), Y(v, s), Z(v, s)) = mix
  BY <1>1, StepMixes
<1>6. Plus(Ror(sum, WordBits - Literal(s)), X(v, s)) = Plus(X(v, s), Rotl(sum, RotOf(s)))
  BY <1>2, <1>4, Tables, Rotates, Commute
<1>7. AarchStep(v, s) = [v EXCEPT ![Dest(s)] = Plus(Ror(sum, WordBits - Literal(s)), X(v, s))]
  BY <1>5, Tables, Zenon DEF AarchStep
<1>8. Rfc!RfcStep(v, m, s) = [v EXCEPT ![Dest(s)] = Plus(X(v, s), Rotl(sum, RotOf(s)))]
  BY <1>1, RfcSteps DEF RfcValue
<1> QED BY <1>6, <1>7, <1>8

(***************************************************************************)
(* The x86 kernel.  Its registers are those of RFC 1321 once the word that *)
(* was loaded ahead is taken off the one that the next round writes.       *)
(***************************************************************************)
(* The rounds add their function to what is already in A.                  *)
LEMMA X86Sums ==
  ASSUME NEW r \in 0 .. 3, NEW a \in Word,
         NEW x \in Word, NEW y \in Word, NEW z \in Word
  PROVE  X86Sum(r, a, z, x, y, z) = Plus(a, Rfc!RfcMix(r, x, y, z))
<1>1. /\ Not(z) \in Word /\ Xor(z, y) \in Word /\ Xor(z, y) = Xor(y, z)
      /\ And(x, z) \in Word /\ And(z, x) = And(x, z)
      /\ Xor(x, y) \in Word /\ Xor(y, x) = Xor(x, y)
  BY Closed, Commute
<1>2. /\ And(Xor(z, y), x) \in Word /\ And(Xor(z, y), x) = And(x, Xor(z, y))
      /\ And(y, Not(z)) \in Word /\ And(Not(z), y) = And(y, Not(z))
      /\ Or(Not(z), x) = Or(x, Not(z)) /\ Or(x, Not(z)) \in Word
  BY <1>1, Closed, Commute
<1>3. CASE r = 0
  <2>1. Xor(And(Xor(z, y), x), z) = Xor(z, And(x, Xor(y, z)))
    BY <1>1, <1>2, Commute
  <2>2. Xor(z, And(x, Xor(y, z))) = Or(And(x, y), And(Not(x), z))
    BY Identities
  <2> QED BY <1>3, <2>1, <2>2, SMT DEF X86Sum, Rfc!RfcMix
<1>4. CASE r = 1
  <2>1. Plus(Plus(a, And(y, Not(z))), And(x, z)) = Plus(a, Plus(And(y, Not(z)), And(x, z)))
    BY <1>1, <1>2, Associate
  <2>2. Plus(And(y, Not(z)), And(x, z)) = Or(And(x, z), And(y, Not(z)))
    BY <1>1, <1>2, Commute, Identities
  <2> QED BY <1>1, <1>2, <1>4, <2>1, <2>2, SMT DEF X86Sum, Rfc!RfcMix
<1>5. CASE r = 2
  <2>1. Xor(Xor(z, y), x) = Xor(z, Xor(y, x))
    BY AssociateXor
  <2>2. Xor(z, Xor(x, y)) = Xor(Xor(x, y), z)
    BY <1>1, Commute
  <2> QED BY <1>1, <1>5, <2>1, <2>2, SMT DEF X86Sum, Rfc!RfcMix
<1>6. CASE r = 3
  <2>1. Xor(Or(x, Not(z)), y) = Xor(y, Or(x, Not(z)))
    BY <1>2, Commute
  <2> QED BY <1>2, <1>6, <2>1, SMT DEF X86Sum, Rfc!RfcMix
<1> QED BY <1>3, <1>4, <1>5, <1>6

(* What a round leaves: the step of RFC 1321 in its register, the word of  *)
(* the next round on top of the register that round will write, and the    *)
(* other two registers untouched.                                          *)
LEMMA X86Rounds ==
  ASSUME NEW w \in Regs, NEW s \in 0 .. 63,
         v \in Regs, m \in Block, t1 = Z(v, s),
         v = [w EXCEPT ![Dest(s)] = Plus(w[Dest(s)], m[MsgWord(s)])]
  PROVE  X86Round(v, s) =
           [Rfc!RfcStep(w, m, s) EXCEPT
              ![Ahead(s)] = IF s < 63 THEN Plus(w[Ahead(s)], m[MsgWord(s + 1)])
                                      ELSE w[Ahead(s)]]
<1> DEFINE mix == Rfc!RfcMix(Round(s), X(w, s), Y(w, s), Z(w, s))
           word == m[MsgWord(s)]
           sum == Plus(Plus(Plus(w[Dest(s)], mix), word), Const(s))
<1>1. /\ X(w, s) \in Word /\ Y(w, s) \in Word /\ Z(w, s) \in Word
      /\ w[Dest(s)] \in Word /\ mix \in Word
  BY Operands, StepMixes
<1>2. word \in Word /\ Const(s) \in Word
  BY Tables, Constants DEF Block
<1>3. X(v, s) = X(w, s) /\ Y(v, s) = Y(w, s) /\ Z(v, s) = Z(w, s)
  BY Cycle DEF X, Y, Z, Regs, Ahead
<1>4. v[Dest(s)] = Plus(w[Dest(s)], word)
  BY Cycle DEF Regs
<1> HIDE DEF mix, word
<1>5. Plus(v[Dest(s)], Const(s)) \in Word /\ v[Dest(s)] \in Word
  BY <1>1, <1>2, <1>4, Closed
<1>6. X86Sum(Round(s), Plus(v[Dest(s)], Const(s)), t1, X(v, s), Y(v, s), Z(v, s))
        = Plus(Plus(v[Dest(s)], Const(s)), mix)
  BY <1>1, <1>3, <1>5, Cycle, X86Sums DEF mix
<1>7. Plus(Plus(Plus(w[Dest(s)], word), Const(s)), mix) = sum /\ sum \in Word
  BY <1>1, <1>2, Sums
<1>8. Plus(Rotl(sum, Literal(s)), X(w, s)) = Plus(X(w, s), Rotl(sum, RotOf(s)))
  BY <1>1, <1>7, Tables, Rotates, Commute
<1> DEFINE new == Plus(X(w, s), Rotl(sum, RotOf(s)))
           ahead == IF s < 63 THEN Plus(w[Ahead(s)], m[MsgWord(s + 1)]) ELSE w[Ahead(s)]
<1>9. X86Round(v, s) = [v EXCEPT ![Dest(s)] = new, ![Ahead(s)] = ahead]
  <2>1. Z(v, s) = w[Ahead(s)]
    BY <1>3 DEF Z, Ahead
  <2>2. s < 63 => X86Msg[s + 2] = MsgWord(s + 1)
    BY Tables, SMT
  <2>3. Plus(Rotl(X86Sum(Round(s), Plus(v[Dest(s)], Const(s)), t1, X(v, s), Y(v, s), Z(v, s)),
                  Literal(s)), X(v, s)) = new
    BY <1>3, <1>4, <1>6, <1>7, <1>8
  <2> HIDE DEF new
  <2> QED BY <2>1, <2>2, <2>3, Zenon DEF X86Round
<1>10. Rfc!RfcStep(w, m, s) = [w EXCEPT ![Dest(s)] = new]
  <2>1. Rfc!RfcStep(w, m, s) = [w EXCEPT ![Dest(s)] = RfcValue(w, m, s)]
    BY RfcSteps
  <2>2. RfcValue(w, m, s) = new
    BY Zenon DEF RfcValue, mix, word
  <2> QED BY <2>1, <2>2
<1> HIDE DEF new, ahead
<1> QED BY <1>9, <1>10, Cycle DEF ahead, Regs

(***************************************************************************)
(* The inductive invariant.                                                *)
(***************************************************************************)
Inv == TypeOK /\ HandOver

LEMMA InitInv == Init => Inv
<1> SUFFICES ASSUME Init PROVE Inv
  OBVIOUS
<1>1. chain \in Regs /\ v = chain /\ t1 \in Word
  BY InputAssumption DEF Init, Regs, Reg
<1>2. m \in Block
  BY WordAssumption DEF Init, Blank, Block
<1>3. todo \in Seq(Block)
  BY InputAssumption DEF Init
<1>4. TypeOK
  <2>1. kernel \in KernelNames /\ step \in 0 .. 64
    BY SMT DEF Init
  <2>2. busy \in BOOLEAN
    BY Zenon DEF Init
  <2> QED BY <1>1, <1>2, <1>3, <2>1, <2>2, Zenon DEF TypeOK
<1>5. HandOver
  BY DEF Init, HandOver, Pipelining
<1> QED BY <1>4, <1>5 DEF Inv

(* What a step does to the registers, whatever the kernel.                 *)
LEMMA Unloading ==
  ASSUME Inv
  PROVE  /\ Unloaded \in Regs
         /\ kernel # "x86" => Unloaded = v
         /\ Pipelining => v = [Unloaded EXCEPT ![Dest(step)] =
                                 Plus(Unloaded[Dest(step)], m[MsgWord(step)])]
<1>1. kernel # "x86" => Unloaded = v
  BY DEF Unloaded, Pipelining
<1>2. CASE ~Pipelining
  BY <1>1, <1>2 DEF Unloaded, Inv, TypeOK
<1>3. CASE Pipelining
  <2>1. step \in 0 .. 63 /\ v \in Regs /\ m \in Block
    BY <1>3, SMT DEF Pipelining, Inv, TypeOK
  <2>2. v[Dest(step)] \in Word /\ m[MsgWord(step)] \in Word
    BY <2>1, Cycle, Tables DEF Regs, Block
  <2>3. /\ Minus(v[Dest(step)], m[MsgWord(step)]) \in Word
        /\ Plus(Minus(v[Dest(step)], m[MsgWord(step)]), m[MsgWord(step)]) = v[Dest(step)]
    BY <2>2, Closed, Cancel
  <2>4. Unloaded = [v EXCEPT ![Dest(step)] = Minus(v[Dest(step)], m[MsgWord(step)])]
    BY <1>3 DEF Unloaded
  <2> QED BY <1>1, <2>1, <2>3, <2>4, Cycle DEF Regs
<1> QED BY <1>2, <1>3

(* The table kernels and the aarch64 kernel, in an action.                 *)
LEMMA PlainStep ==
  ASSUME Inv, Step, kernel # "x86"
  PROVE  v' = Rfc!RfcStep(v, m, step) /\ v' \in Regs
<1>1. step \in 0 .. 63 /\ v \in Regs /\ m \in Block /\ TypeOK
  BY SMT DEF Step, Inv, TypeOK
<1> DEFINE r == Round(step)
           x == X(v, step)
           y == Y(v, step)
           z == Z(v, step)
<1>9. r \in 0 .. 3 /\ x \in Word /\ y \in Word /\ z \in Word
  BY <1>1, Operands, Cycle
<1> HIDE DEF r, x, y, z
<1>2. /\ TextbookMix(r, x, y, z) = Rfc!RfcMix(r, x, y, z)
      /\ InTreeMix(r, x, y, z) = Rfc!RfcMix(r, x, y, z)
  BY <1>9, Mixes
<1>3. \/ v' = TableStep(v, step, Rfc!RfcMix(r, x, y, z))
      \/ v' = WideStep(kernel, v, step)
      \/ v' = AarchStep(v, step)
  <2>1. \/ v' = TableStep(v, step, TextbookMix(r, x, y, z))
        \/ v' = TableStep(v, step, InTreeMix(r, x, y, z))
        \/ v' = WideStep(kernel, v, step)
        \/ v' = AarchStep(v, step)
    BY <1>1 DEF Step, TypeOK, KernelNames, r, x, y, z
  <2> QED BY <1>2, <2>1
<1>4. v' = Rfc!RfcStep(v, m, step)
  BY <1>1, <1>3, TableSteps, WideSteps, AarchSteps DEF r, x, y, z
<1> QED BY <1>1, <1>4, RfcSteps

(* The x86 kernel, in an action.                                           *)
LEMMA PipelinedStep ==
  ASSUME Inv, Step, kernel = "x86"
  PROVE  /\ v' \in Regs /\ t1' \in Word
         /\ HandOver'
         /\ Unloaded' = Rfc!RfcStep(Unloaded, m, step)
<1> DEFINE w == Unloaded
           new == Rfc!RfcStep(w, m, step)
           ahead == IF step < 63 THEN Plus(w[Ahead(step)], m[MsgWord(step + 1)])
                                 ELSE w[Ahead(step)]
<1>1. /\ step \in 0 .. 63 /\ v \in Regs /\ m \in Block /\ Pipelining
      /\ t1 = Z(v, step) /\ m' = m /\ step' = step + 1 /\ busy' /\ kernel' = "x86"
      /\ t1' = Y(v, step) /\ v' = X86Round(v, step)
  BY SMT DEF Step, Inv, TypeOK, HandOver, Pipelining
<1>2. /\ w \in Regs
      /\ v = [w EXCEPT ![Dest(step)] = Plus(w[Dest(step)], m[MsgWord(step)])]
  BY <1>1, Unloading
<1> HIDE DEF w
<1>3. v' = [new EXCEPT ![Ahead(step)] = ahead]
  BY <1>1, <1>2, X86Rounds
<1>4. new \in Regs
  BY <1>1, <1>2, RfcSteps
<1>5. /\ new[Ahead(step)] = w[Ahead(step)]
      /\ new[(Dest(step) + 2) % 4] = w[(Dest(step) + 2) % 4]
      /\ v[(Dest(step) + 2) % 4] = w[(Dest(step) + 2) % 4]
      /\ w[Ahead(step)] \in Word
  <2>1. new = [w EXCEPT ![Dest(step)] = RfcValue(w, m, step)]
    BY <1>1, <1>2, RfcSteps
  <2>2. /\ Dest(step) # Ahead(step) /\ Dest(step) # (Dest(step) + 2) % 4
        /\ Ahead(step) \in Reg /\ (Dest(step) + 2) % 4 \in Reg
    BY <1>1, Cycle
  <2> HIDE DEF new
  <2> QED BY <1>2, <2>1, <2>2 DEF Regs
<1>6. /\ ahead \in Word
      /\ step < 63 => Minus(ahead, m[MsgWord(step + 1)]) = w[Ahead(step)]
  <2>1. CASE step < 63
    <3>1. step + 1 \in 0 .. 63
      BY <1>1, <2>1, SMT
    <3>2. m[MsgWord(step + 1)] \in Word
      BY <1>1, <3>1, Tables DEF Block
    <3> QED BY <2>1, <3>2, <1>5, Closed, Cancel
  <2>2. CASE ~(step < 63)
    BY <2>2, <1>5
  <2> QED BY <2>1, <2>2
<1> HIDE DEF new, ahead
<1>7. v' \in Regs
  BY <1>3, <1>4, <1>6 DEF Regs
<1>8. t1' \in Word
  BY <1>1, Operands
<1>9. HandOver'
  <2> SUFFICES ASSUME step < 63 PROVE t1' = Z(v', step + 1)
    BY <1>1, SMT DEF HandOver, Pipelining, Z
  <2>1. Z(v', step + 1) = v'[(Dest(step) + 2) % 4]
    BY <1>1, Cycle DEF Z
  <2>2. v'[(Dest(step) + 2) % 4] = new[(Dest(step) + 2) % 4]
    BY <1>1, <1>3, <1>4, Cycle DEF Regs
  <2> QED BY <1>1, <1>5, <2>1, <2>2 DEF Y
<1>10. Unloaded' = new
  <2>1. CASE step < 63
    <3>1. Unloaded' = [v' EXCEPT ![Ahead(step)] = Minus(v'[Ahead(step)], m[MsgWord(step + 1)])]
      <4>1. Pipelining'
        BY <1>1, <2>1, SMT DEF Pipelining
      <4> QED BY <1>1, <4>1, Cycle DEF Unloaded
    <3>2. v'[Ahead(step)] = ahead
      BY <1>1, <1>3, <1>4, Cycle DEF Regs
    <3> QED BY <1>1, <1>3, <1>4, <1>5, <1>6, <2>1, <3>1, <3>2, Cycle DEF Regs
  <2>2. CASE ~(step < 63)
    <3>1. ~Pipelining'
      BY <1>1, <2>2, SMT DEF Pipelining
    <3>2. ahead = new[Ahead(step)]
      BY <1>5, <2>2 DEF ahead
    <3> QED BY <1>1, <1>3, <1>4, <3>1, <3>2, Cycle DEF Unloaded, Regs
  <2> QED BY <2>1, <2>2
<1> QED BY <1>7, <1>8, <1>9, <1>10 DEF new, w

LEMMA NextInv == Inv /\ [Next]_vars => Inv'
<1> SUFFICES ASSUME Inv, [Next]_vars PROVE Inv'
  OBVIOUS
<1>1. CASE Begin
  <2>1. Head(todo) \in Block /\ Tail(todo) \in Seq(Block)
    BY <1>1, SMT DEF Begin, Inv, TypeOK
  <2>2. /\ m' = Head(todo) /\ todo' = Tail(todo) /\ t1' = chain[3] /\ step' = 0
        /\ chain' = chain /\ kernel' = kernel /\ chain \in Regs
        /\ v' = IF kernel = "x86" THEN X86Preamble(chain, m') ELSE chain
    BY <1>1 DEF Begin, Inv, TypeOK
  <2>3. Plus(chain[0], Head(todo)[X86Msg[1]]) \in Word
    <3>1. X86Msg[1] = 0
      BY SMT DEF X86Msg
    <3>2. chain[0] \in Word /\ Head(todo)[0] \in Word
      BY <2>1, <2>2 DEF Block, Regs, Reg
    <3> QED BY <3>1, <3>2, Closed
  <2>4. v' \in Regs /\ t1' \in Word /\ (kernel = "x86" => v'[3] = chain[3])
    BY <2>2, <2>3 DEF X86Preamble, Regs, Reg
  <2>5. TypeOK'
    <3>1. kernel' \in KernelNames /\ busy' \in BOOLEAN
      BY <1>1, Zenon DEF Begin, Inv, TypeOK
    <3>2. step' \in 0 .. 64
      BY <2>2, SMT
    <3> QED BY <2>1, <2>2, <2>4, <3>1, <3>2, Zenon DEF TypeOK
  <2>6. HandOver'
    <3>1. Z(v', 0) = v'[3]
      BY SMT DEF Z, Dest, DEST
    <3> QED BY <2>2, <2>4, <3>1 DEF HandOver, Pipelining
  <2> QED BY <2>5, <2>6 DEF Inv
<1>2. CASE Step
  <2>1. /\ v' \in Regs /\ t1' \in Word /\ HandOver'
    <3>1. CASE kernel = "x86"
      BY <1>2, <3>1, PipelinedStep
    <3>2. CASE kernel # "x86"
      <4>1. t1' = t1 /\ kernel' = kernel
        BY <1>2, <3>2 DEF Step
      <4> QED BY <1>2, <3>2, <4>1, PlainStep DEF Inv, TypeOK, HandOver, Pipelining
    <3> QED BY <3>1, <3>2
  <2>2. step' \in 0 .. 64
    <3>1. step' = step + 1 /\ step < 64 /\ step \in 0 .. 64
      BY <1>2, Zenon DEF Step, Inv, TypeOK
    <3> QED BY <3>1, SMT
  <2> QED BY <1>2, <2>1, <2>2, Zenon DEF Step, Inv, TypeOK
<1>3. CASE Finish
  <2>1. chain' \in Regs
    BY <1>3, Closed DEF Finish, Inv, TypeOK, Regs
  <2>2. HandOver'
    BY <1>3 DEF Finish, HandOver, Pipelining
  <2>3. busy' \in BOOLEAN
    BY <1>3, Zenon DEF Finish
  <2> QED BY <1>3, <2>1, <2>2, <2>3, Zenon DEF Finish, Inv, TypeOK
<1>4. CASE UNCHANGED vars
  BY <1>4, Zenon DEF vars, Inv, TypeOK, HandOver, Pipelining, Z, Dest
<1> QED BY <1>1, <1>2, <1>3, <1>4 DEF Next

LEMMA AlwaysInv == Spec => []Inv
<1> QED BY InitInv, NextInv, PTL DEF Spec

(* Registers, words, message and scratch register are of their types,      *)
(* whatever the kernel, the blocks and the words (TypeOK).                 *)
THEOREM KernelTypeCorrect == Spec => []TypeOK
<1>1. Inv => TypeOK
  BY DEF Inv
<1> QED BY <1>1, AlwaysInv, PTL

(* The x86 rounds find in the scratch register the operand they count on.  *)
THEOREM KernelHandOver == Spec => []HandOver
<1>1. Inv => HandOver
  BY DEF Inv
<1> QED BY <1>1, AlwaysInv, PTL

(***************************************************************************)
(* The kernels implement the compression function.                         *)
(***************************************************************************)
LEMMA RfcInit == Init => Rfc!Init
<1> SUFFICES ASSUME Init PROVE Rfc!Init
  OBVIOUS
<1>1. chain \in Rfc!Regs
  BY InputAssumption, Zenon DEF Init, Regs, Rfc!Regs, Reg, Rfc!Reg
<1>2. Unloaded = v
  BY DEF Init, Unloaded, Pipelining
<1>3. Blank = Rfc!Blank
  BY DEF Blank, Rfc!Blank
<1> QED BY <1>1, <1>2, <1>3, Zenon DEF Init, Rfc!Init

LEMMA RfcNext == Inv /\ [Next]_vars => [Rfc!Next]_Rfc!vars
<1> SUFFICES ASSUME Inv, [Next]_vars PROVE [Rfc!Next]_Rfc!vars
  OBVIOUS
<1>1. CASE Begin
  <2>1. Unloaded' = chain
    <3>1. CASE kernel = "x86"
      <4>1. /\ m' = Head(todo) /\ m' \in Block /\ chain \in Regs
            /\ v' = X86Preamble(chain, m')
            /\ Pipelining' /\ step' = 0
        BY <1>1, <3>1, SMT DEF Begin, Inv, TypeOK, Pipelining
      <4>2. Unloaded' = [v' EXCEPT ![0] = Minus(v'[0], m'[0])]
        BY <4>1, SMT DEF Unloaded, Dest, DEST, MsgWord, MSG
      <4>3. v' = [chain EXCEPT ![0] = Plus(chain[0], m'[0])]
        BY <4>1, SMT DEF X86Preamble, X86Msg
      <4>4. Minus(Plus(chain[0], m'[0]), m'[0]) = chain[0]
        BY <4>1, Cancel DEF Regs, Reg, Block
      <4> QED BY <4>1, <4>2, <4>3, <4>4 DEF Regs, Reg
    <3>2. CASE kernel # "x86"
      BY <1>1, <3>2 DEF Begin, Unloaded, Pipelining
    <3> QED BY <3>1, <3>2
  <2>2. Rfc!Begin
    BY <1>1, <2>1, Zenon DEF Begin, Rfc!Begin
  <2> QED BY <2>2 DEF Rfc!Next
<1>2. CASE Step
  <2>1. Unloaded' = Rfc!RfcStep(Unloaded, m, step)
    <3>1. CASE kernel = "x86"
      BY <1>2, <3>1, PipelinedStep
    <3>2. CASE kernel # "x86"
      <4>1. Unloaded = v /\ Unloaded' = v'
        BY <1>2, <3>2 DEF Unloaded, Pipelining, Step
      <4> QED BY <1>2, <3>2, <4>1, PlainStep
    <3> QED BY <3>1, <3>2
  <2>2. Rfc!Step
    BY <1>2, <2>1, Zenon DEF Step, Rfc!Step
  <2> QED BY <2>2 DEF Rfc!Next
<1>3. CASE Finish
  <2>1. Unloaded = v /\ Unloaded' = v'
    BY <1>3, SMT DEF Finish, Unloaded, Pipelining
  <2>2. Rfc!Finish
    BY <1>3, <2>1, Zenon DEF Finish, Rfc!Finish, Reg, Rfc!Reg
  <2> QED BY <2>2 DEF Rfc!Next
<1>4. CASE UNCHANGED vars
  BY <1>4, Zenon DEF vars, Rfc!vars, Unloaded, Pipelining
<1> QED BY <1>1, <1>2, <1>3, <1>4 DEF Next

(* Each kernel goes through the steps of RFC 1321 on each block, and       *)
(* leaves the chaining values that RFC 1321 gives.                         *)
THEOREM KernelRefinement == Spec => ImplementsRfcCompression
<1> QED BY AlwaysInv, RfcInit, RfcNext, PTL DEF Spec, ImplementsRfcCompression, Rfc!Spec

(***************************************************************************)
(* The choice of a kernel: module Platform.                                *)
(***************************************************************************)
(***************************************************************************)
(* What the probes should answer.                                          *)
(***************************************************************************)
Truth(c) == "avx2" \in cpu /\ (c = "avx512" => "avx512f" \in cpu)
Yes(c)   == std /\ Truth(c)

World == cpu \in SUBSET {"avx512f", "avx2"} /\ std \in BOOLEAN

LEMMA FixedFacts ==
  ASSUME World
  PROVE  /\ Yes("avx512") => Fixed = "avx512"
         /\ ~Yes("avx512") /\ Yes("avx2") => Fixed = "avx2"
         /\ ~Yes("avx2") => Fixed = "none"
         /\ Yes("avx512") => Yes("avx2")
<1>1. /\ cpu = {"avx512f", "avx2"} <=> "avx512f" \in cpu /\ "avx2" \in cpu
      /\ cpu = {"avx2"} <=> "avx512f" \notin cpu /\ "avx2" \in cpu
  BY DEF World
<1>2. {"avx512f", "avx2"} # {"avx2"}
  OBVIOUS
<1> QED BY <1>1, <1>2 DEF World, Yes, Truth, Fixed

LEMMA LanesFacts ==
  ASSUME World
  PROVE  /\ Yes("avx512") => D!Lanes = 16
         /\ ~Yes("avx512") /\ Yes("avx2") => D!Lanes = 8
         /\ ~Yes("avx2") => D!Lanes = 1
BY FixedFacts DEF D!Lanes

LEMMA SizeFacts ==
  ASSUME NEW left0 \in Nat, NEW w \in {1, 8, 16}
  PROVE  /\ D!PickBatch(left0, w, 64) \in 0 .. left0
         /\ D!PickBatch(left0, w, 64) > 0 => D!PickBatch(left0, w, 64) \in 4 .. 4 * w
BY SMT DEF D!PickBatch, D!LesserOf, D!MaxGroups

(***************************************************************************)
(* The inductive invariant.                                                *)
(***************************************************************************)
Probing == {"lanes", "lanes2", "small", "equal", "equal2"}
Probed(p) == IF p \in {"lanes", "equal"} THEN "avx512" ELSE "avx2"

Typed ==
  /\ at \in [Threads -> {"call", "ask", "fill", "filled"}]
  /\ on \in [Threads -> Cells]
  /\ nested \in [Threads -> BOOLEAN] /\ answer \in [Threads -> BOOLEAN]
  /\ pc \in [Threads -> Probing \cup {"idle", "batch", "run"}]
  /\ left \in [Threads -> Nat] /\ width \in [Threads -> {0, 1, 8, 16}]
  /\ chosen \in [Threads -> {"none", "avx2", "avx512"}]
  /\ cell \in [Cells -> {"empty", "ready"} \cup Threads]
  /\ value \in [Cells -> BOOLEAN]

(* A cell that can be read holds the truth. *)
Published == \A c \in Cells : cell[c] = "ready" => value[c] = Truth(c)

(* One thread in its probe: which cell it asks for, and what it has heard. *)
ProbeInv(t) ==
  /\ \A c \in Cells : Filling(t, c) <=> cell[c] = t
  /\ nested[t] => at[t] # "call" /\ on[t] = "avx2" /\ "avx512f" \in cpu
  /\ nested[t] \/ at[t] \in {"fill", "filled"} => std
  /\ at[t] = "filled" => answer[t] = Truth(on[t])
  /\ at[t] # "call" =>
       pc[t] \in Probing /\ Probed(pc[t]) = (IF nested[t] THEN "avx512" ELSE on[t])
  /\ at[t] = "call" /\ pc[t] \in Probing => answer[t] = Yes(Probed(pc[t]))

(* One thread in its call: its place, the messages left, the lane count    *)
(* and the kernel fit the one platform there is.                           *)
CallOK(p, n, w, k) ==
  LET size == D!PickBatch(n, w, 64) IN
  /\ p \in {"lanes", "lanes2"} => w = 0
  /\ p \in {"lanes2", "equal2"} => ~Yes("avx512")
  /\ p \in {"batch", "small", "equal", "equal2", "run"} => w = D!Lanes /\ w # 1
  /\ p = "idle" => w \in {0, D!Lanes} /\ (k # "none" => k = Fixed)
  /\ p \notin {"idle", "run"} => k = "none"
  /\ p \in {"small", "run"} => n > 0
  /\ p \in {"small", "equal", "equal2", "run"} /\ n > 0 => size > 0
  /\ p = "small" => size <= 8
  /\ p = "equal" /\ n > 0 => size > 8
  /\ p = "run" => k = D!KernelFor(size)
CallInv(t) == CallOK(pc[t], left[t], width[t], chosen[t])

PlatformInv ==
  /\ World /\ Typed /\ Published
  /\ \A t \in Threads : ProbeInv(t) /\ CallInv(t)

LEMMA PlatformInitInv == PlatformInit => PlatformInv
<1> SUFFICES ASSUME PlatformInit PROVE PlatformInv
  OBVIOUS
<1>1. World /\ Published
  BY DEF PlatformInit, World, Published
<1>2. Typed
  BY DEF PlatformInit, Typed, Cells, Probing
<1>3. ASSUME NEW t \in Threads PROVE ProbeInv(t) /\ CallInv(t)
  <2>1. "empty" # t
    BY ThreadAssumption
  <2> QED BY <2>1 DEF PlatformInit, ProbeInv, CallInv, CallOK, Filling, Probing, Probed, Cells
<1> QED BY <1>1, <1>2, <1>3 DEF PlatformInv

(* A step of t leaves the other threads where they are.                    *)
Alone(t) ==
  \A u \in Threads \ {t} :
    /\ at'[u] = at[u] /\ on'[u] = on[u] /\ nested'[u] = nested[u]
    /\ answer'[u] = answer[u] /\ pc'[u] = pc[u] /\ left'[u] = left[u]
    /\ width'[u] = width[u] /\ chosen'[u] = chosen[u]
    /\ \A c \in Cells : cell'[c] = u <=> cell[c] = u

(* What a call makes of the answers depends on the platform alone. *)
LEMMA CallSame ==
  ASSUME UNCHANGED <<cpu, std>>, NEW t \in Threads,
         CallOK(pc'[t], left'[t], width'[t], chosen'[t])
  PROVE  CallInv(t)'
<1>1. Fixed' = Fixed
  BY DEF Fixed
<1>2. D!Lanes' = D!Lanes /\ Yes("avx512")' = Yes("avx512")
  BY <1>1 DEF D!Lanes, Yes, Truth
<1> QED
  BY <1>1, <1>2 DEF CallInv, CallOK, D!KernelFor, D!PickBatch, D!LesserOf, D!MaxGroups

LEMMA AloneFacts ==
  ASSUME PlatformInv, NEW t \in Threads, Alone(t), UNCHANGED <<cpu, std>>,
         Typed', Published', ProbeInv(t)', CallInv(t)'
  PROVE  PlatformInv'
<1>1. World'
  BY DEF PlatformInv, World
<1>2. ASSUME NEW u \in Threads \ {t} PROVE ProbeInv(u)'
  BY <1>2 DEF PlatformInv, Alone, ProbeInv, Filling, Yes, Truth
<1>3. ASSUME NEW u \in Threads \ {t} PROVE CallInv(u)'
  <2>1. CallOK(pc'[u], left'[u], width'[u], chosen'[u])
    BY <1>3 DEF Alone, PlatformInv, CallInv
  <2> QED BY <2>1, CallSame
<1> QED BY <1>1, <1>2, <1>3 DEF PlatformInv

(* The call of t does not change while its probe runs. *)
LEMMA SameCall ==
  ASSUME PlatformInv, NEW t \in Threads, UNCHANGED <<cpu, std, calls>>
  PROVE  CallInv(t)'
<1>1. CallOK(pc'[t], left'[t], width'[t], chosen'[t])
  BY DEF PlatformInv, CallInv, calls
<1> QED BY <1>1, CallSame

(***************************************************************************)
(* The probes.                                                             *)
(***************************************************************************)
(* A probe that returns the truth. *)
LEMMA ReturnFacts ==
  ASSUME PlatformInv, NEW t \in Threads, NEW yes \in BOOLEAN, Return(t, yes),
         at[t] # "call", UNCHANGED <<cpu, std, calls>>,
         yes = (IF nested[t] THEN Truth(on[t]) ELSE Yes(on[t])),
         \A c \in Cells : cell'[c] = t <=> cell[c] = t /\ c # on[t],
         \A u \in Threads \ {t}, c \in Cells : cell'[c] = u <=> cell[c] = u,
         cell' \in [Cells -> {"empty", "ready"} \cup Threads],
         value' \in [Cells -> BOOLEAN], Published'
  PROVE  PlatformInv'
<1>1. Typed /\ ProbeInv(t)
  BY DEF PlatformInv
<1>2. /\ answer' = [answer EXCEPT ![t] = yes]
      /\ at' = [at EXCEPT ![t] = IF nested[t] THEN "filled" ELSE "call"]
      /\ on' = [on EXCEPT ![t] = IF nested[t] THEN "avx512" ELSE @]
      /\ nested' = [nested EXCEPT ![t] = FALSE]
  BY <1>1 DEF Return, ProbeInv
<1>3. Typed'
  BY <1>1, <1>2 DEF Typed, calls, Cells
<1>4. Alone(t)
  BY <1>1, <1>2 DEF Typed, Alone, calls
<1>5. ProbeInv(t)'
  <2>1. CASE nested[t]
    <3>1. /\ at'[t] = "filled" /\ on'[t] = "avx512" /\ nested'[t] = FALSE
          /\ answer'[t] = yes /\ on[t] = "avx2" /\ "avx512f" \in cpu /\ std
          /\ pc'[t] = pc[t] /\ pc[t] \in Probing /\ Probed(pc[t]) = "avx512"
      BY <1>1, <1>2, <2>1 DEF Typed, ProbeInv, calls
    <3>2. yes = Truth("avx512")'
      BY <2>1, <3>1 DEF Truth
    <3>3. \A c \in Cells : cell'[c] = t <=> c = "avx512"
      BY <1>1, <2>1, <3>1 DEF ProbeInv, Filling, Cells
    <3> QED BY <3>1, <3>2, <3>3 DEF ProbeInv, Filling
  <2>2. CASE ~nested[t]
    <3>1. /\ at'[t] = "call" /\ nested'[t] = FALSE /\ answer'[t] = yes
          /\ pc'[t] = pc[t] /\ pc[t] \in Probing /\ Probed(pc[t]) = on[t]
      BY <1>1, <1>2, <2>2 DEF Typed, ProbeInv, calls
    <3>2. yes = Yes(Probed(pc[t]))'
      BY <2>2, <3>1 DEF Truth, Yes, Probed, calls
    <3>3. \A c \in Cells : cell'[c] # t
      BY <1>1, <2>2, <3>1 DEF ProbeInv, Filling, Cells
    <3> QED BY <3>1, <3>2, <3>3 DEF ProbeInv, Filling, Probed, Yes
  <2> QED BY <2>1, <2>2
<1> QED BY <1>3, <1>4, <1>5, SameCall, AloneFacts

LEMMA ReadInv ==
  ASSUME PlatformInv, NEW t \in Threads, Read(t)
  PROVE  PlatformInv'
<1>1. /\ at[t] = "ask" /\ Return(t, std /\ value[on[t]])
      /\ UNCHANGED <<cpu, std, cell, value, calls>>
      /\ std => cell[on[t]] = "ready"
      /\ on[t] \in Cells /\ std \in BOOLEAN
      /\ nested[t] => std
  BY DEF Read, cells, PlatformInv, Typed, World, ProbeInv
<1> DEFINE yes == std /\ value[on[t]]
<1>2. yes \in BOOLEAN /\ yes = Yes(on[t]) /\ (nested[t] => yes = Truth(on[t]))
  <2>1. std => value[on[t]] = Truth(on[t]) /\ value[on[t]] \in BOOLEAN
    BY <1>1 DEF PlatformInv, Published, Typed
  <2>2. Truth(on[t]) \in BOOLEAN
    BY DEF Truth
  <2> QED BY <1>1, <2>1, <2>2 DEF Yes
<1>3. yes = (IF nested[t] THEN Truth(on[t]) ELSE Yes(on[t]))
  BY <1>2
<1>4. Return(t, yes)
  BY <1>1
<1> HIDE DEF yes
<1>5. \A c \in Cells : cell[c] = t => c # on[t]
  BY <1>1 DEF PlatformInv, ProbeInv, Filling
<1>6. Published' /\ cell \in [Cells -> {"empty", "ready"} \cup Threads]
      /\ value \in [Cells -> BOOLEAN]
  BY <1>1 DEF PlatformInv, Published, Truth, Typed
<1> QED BY <1>1, <1>2, <1>3, <1>4, <1>5, <1>6, ReturnFacts

LEMMA PublishInv ==
  ASSUME PlatformInv, NEW t \in Threads, Publish(t)
  PROVE  PlatformInv'
<1>1. /\ at[t] = "filled" /\ Return(t, answer[t]) /\ UNCHANGED <<cpu, std, calls>>
      /\ cell' = [cell EXCEPT ![on[t]] = "ready"]
      /\ value' = [value EXCEPT ![on[t]] = answer[t]]
      /\ on[t] \in Cells /\ answer[t] \in BOOLEAN /\ std = TRUE
      /\ answer[t] = Truth(on[t])
      /\ cell \in [Cells -> {"empty", "ready"} \cup Threads]
      /\ value \in [Cells -> BOOLEAN]
  BY DEF Publish, PlatformInv, Typed, World, ProbeInv
<1>2. answer[t] = (IF nested[t] THEN Truth(on[t]) ELSE Yes(on[t]))
  BY <1>1 DEF Yes
<1>3. cell[on[t]] = t /\ \A u \in Threads : u # "ready"
  BY <1>1, ThreadAssumption DEF PlatformInv, ProbeInv, Filling
<1>4. /\ \A c \in Cells : cell'[c] = t <=> cell[c] = t /\ c # on[t]
      /\ \A u \in Threads \ {t}, c \in Cells : cell'[c] = u <=> cell[c] = u
  BY <1>1, <1>3
<1>5. /\ cell' \in [Cells -> {"empty", "ready"} \cup Threads]
      /\ value' \in [Cells -> BOOLEAN]
  BY <1>1
<1>6. Published'
  BY <1>1 DEF PlatformInv, Published, Truth
<1> QED BY <1>1, <1>2, <1>4, <1>5, <1>6, ReturnFacts

LEMMA EnterInv ==
  ASSUME PlatformInv, NEW t \in Threads, Enter(t)
  PROVE  PlatformInv'
<1>1. /\ at[t] = "ask" /\ std /\ cell[on[t]] = "empty"
      /\ cell' = [cell EXCEPT ![on[t]] = t] /\ at' = [at EXCEPT ![t] = "fill"]
      /\ UNCHANGED <<cpu, std, value, on, nested, answer, calls>>
      /\ Typed /\ Published /\ ProbeInv(t) /\ on[t] \in Cells
  BY DEF Enter, PlatformInv, Typed
<1>2. Typed'
  BY <1>1 DEF Typed, calls
<1>3. "empty" # t /\ "ready" # t /\ \A u \in Threads : u # "empty" /\ u # "ready"
  BY ThreadAssumption
<1>4. Published'
  BY <1>1, <1>3 DEF Published, Truth, Typed
<1>5. Alone(t)
  BY <1>1, <1>3 DEF Alone, Typed, calls
<1>6. ProbeInv(t)'
  BY <1>1, <1>3 DEF ProbeInv, Typed, Filling, Probed, calls
<1> QED BY <1>1, <1>2, <1>4, <1>5, <1>6, SameCall, AloneFacts

LEMMA FillInv ==
  ASSUME PlatformInv, NEW t \in Threads, FillAvx2(t) \/ FillAvx512(t)
  PROVE  PlatformInv'
<1>1. /\ at[t] = "fill" /\ on[t] \in Cells /\ UNCHANGED <<cpu, std, cell, value, calls>>
      /\ Typed /\ Published /\ ProbeInv(t)
  BY DEF FillAvx2, FillAvx512, cells, PlatformInv, Typed
<1>2. Published'
  BY <1>1 DEF Published, Truth
<1>3. CASE FillAvx2(t) \/ (FillAvx512(t) /\ "avx512f" \notin cpu)
  <2>1. /\ at' = [at EXCEPT ![t] = "filled"] /\ on' = on /\ nested' = nested
        /\ \/ on[t] = "avx2" /\ answer' = [answer EXCEPT ![t] = "avx2" \in cpu]
           \/ /\ on[t] = "avx512" /\ "avx512f" \notin cpu
              /\ answer' = [answer EXCEPT ![t] = FALSE]
    BY <1>3 DEF FillAvx2, FillAvx512
  <2>2. Typed' /\ answer'[t] = Truth(on[t])
    <3>1. PICK yes \in BOOLEAN : answer' = [answer EXCEPT ![t] = yes] /\ yes = Truth(on[t])
      <4>1. CASE on[t] = "avx2"
        <5>1. on[t] # "avx512" /\ ("avx2" \in cpu) \in BOOLEAN
          BY <4>1
        <5>2. answer' = [answer EXCEPT ![t] = "avx2" \in cpu]
          BY <2>1, <5>1
        <5>3. ("avx2" \in cpu) = Truth(on[t])
          BY <5>1 DEF Truth
        <5> QED BY <5>1, <5>2, <5>3, Zenon
      <4>2. CASE on[t] = "avx512"
        BY <2>1, <4>2 DEF Truth
      <4> QED BY <1>1, <4>1, <4>2 DEF Cells
    <3>2. Typed'
      BY <1>1, <2>1, <3>1 DEF Typed, calls
    <3> QED BY <1>1, <3>1, <3>2 DEF Typed
  <2>3. Alone(t)
    BY <1>1, <2>1 DEF Alone, Typed, calls
  <2>4. ProbeInv(t)'
    BY <1>1, <2>1, <2>2 DEF ProbeInv, Typed, Filling, Probed, calls, Truth
  <2> QED BY <1>1, <1>2, <2>2, <2>3, <2>4, SameCall, AloneFacts
<1>4. CASE FillAvx512(t) /\ "avx512f" \in cpu
  <2>1. /\ at' = [at EXCEPT ![t] = "ask"] /\ on' = [on EXCEPT ![t] = "avx2"]
        /\ nested' = [nested EXCEPT ![t] = TRUE] /\ answer' = answer
        /\ on[t] = "avx512"
    BY <1>4 DEF FillAvx512
  <2>2. Typed'
    BY <1>1, <2>1 DEF Typed, calls, Cells
  <2>3. Alone(t)
    BY <1>1, <2>1 DEF Alone, Typed, calls
  <2>4. ProbeInv(t)'
    BY <1>1, <1>4, <2>1 DEF ProbeInv, Typed, Filling, Probed, calls, Cells
  <2> QED BY <1>1, <1>2, <2>2, <2>3, <2>4, SameCall, AloneFacts
<1> QED BY <1>3, <1>4

(***************************************************************************)
(* The calls.                                                              *)
(***************************************************************************)
(* A step of the program between two probes: t goes to p, to ask there for *)
(* what p needs, or to a place without a probe.                            *)
Moves(t, p, n, w, k) ==
  /\ at[t] = "call" /\ UNCHANGED <<cpu, std, cells>>
  /\ \/ p \in Probing /\ Ask(t, p, Probed(p))
     \/ p \in {"idle", "batch", "run"} /\ Goto(t, p)
  /\ n \in Nat /\ left' = [left EXCEPT ![t] = n]
  /\ w \in {0, 1, 8, 16} /\ width' = [width EXCEPT ![t] = w]
  /\ k \in {"none", "avx2", "avx512"} /\ chosen' = [chosen EXCEPT ![t] = k]
  /\ CallOK(p, n, w, k)

LEMMA MovesInv ==
  ASSUME PlatformInv, NEW t \in Threads, NEW p, NEW n, NEW w, NEW k, Moves(t, p, n, w, k)
  PROVE  PlatformInv'
<1>0. /\ at[t] = "call" /\ UNCHANGED <<cpu, std, cells>>
      /\ \/ p \in Probing /\ Ask(t, p, Probed(p))
         \/ p \in {"idle", "batch", "run"} /\ Goto(t, p)
      /\ n \in Nat /\ left' = [left EXCEPT ![t] = n]
      /\ w \in {0, 1, 8, 16} /\ width' = [width EXCEPT ![t] = w]
      /\ k \in {"none", "avx2", "avx512"} /\ chosen' = [chosen EXCEPT ![t] = k]
      /\ CallOK(p, n, w, k)
  BY DEF Moves
<1>1. Typed /\ Published /\ ProbeInv(t) /\ ~nested[t]
  BY <1>0 DEF PlatformInv, ProbeInv
<1>2. /\ pc' = [pc EXCEPT ![t] = p] /\ nested' = nested /\ answer' = answer
      /\ \/ /\ p \in Probing /\ at' = [at EXCEPT ![t] = "ask"]
            /\ on' = [on EXCEPT ![t] = Probed(p)]
         \/ p \in {"idle", "batch", "run"} /\ at' = at /\ on' = on
  BY <1>0 DEF Ask, Goto, probes
<1>3. Probed(p) \in Cells
  BY DEF Probed, Cells
<1>4. Typed'
  BY <1>0, <1>1, <1>2, <1>3 DEF Typed, cells
<1>5. Published'
  BY <1>0, <1>1 DEF Published, Truth, cells
<1>6. Alone(t)
  BY <1>0, <1>1, <1>2 DEF Alone, Typed, cells
<1>7. ProbeInv(t)'
  BY <1>0, <1>1, <1>2 DEF ProbeInv, Typed, Filling, Probing, cells
<1>8. CallInv(t)'
  <2>1. CallOK(pc'[t], left'[t], width'[t], chosen'[t])
    BY <1>0, <1>1, <1>2 DEF Typed
  <2> QED BY <1>0, <2>1, CallSame
<1> QED BY <1>0, <1>4, <1>5, <1>6, <1>7, <1>8, AloneFacts

LEMMA StepFacts ==
  ASSUME PlatformInv, NEW t \in Threads, at[t] = "call", UNCHANGED <<cpu, std, cells>>,
         NEW p, \/ p \in Probing /\ Ask(t, p, Probed(p))
                \/ p \in {"idle", "batch", "run"} /\ Goto(t, p),
         NEW n \in Nat, left' = [left EXCEPT ![t] = n],
         NEW w \in {0, 1, 8, 16}, width' = [width EXCEPT ![t] = w],
         NEW k \in {"none", "avx2", "avx512"}, chosen' = [chosen EXCEPT ![t] = k],
         CallOK(p, n, w, k)
  PROVE  PlatformInv'
BY MovesInv DEF Moves

(* Where a thread is when its probe has returned. *)
LEMMA HeardFacts ==
  ASSUME PlatformInv, NEW t \in Threads
  PROVE  /\ World /\ Yes("avx512") \in BOOLEAN /\ Yes("avx2") \in BOOLEAN
         /\ pc[t] \in {"idle", "batch", "run"} => at[t] = "call"
         /\ at[t] = "call" /\ pc[t] \in {"lanes", "equal"} =>
              answer[t] = Yes("avx512")
         /\ at[t] = "call" /\ pc[t] \in {"lanes2", "small", "equal2"} =>
              answer[t] = Yes("avx2")
         /\ left[t] \in Nat /\ width[t] \in {0, 1, 8, 16}
         /\ chosen[t] \in {"none", "avx2", "avx512"}
         /\ left = [left EXCEPT ![t] = left[t]]
         /\ width = [width EXCEPT ![t] = width[t]]
         /\ chosen = [chosen EXCEPT ![t] = chosen[t]]
         /\ CallOK(pc[t], left[t], width[t], chosen[t])
         /\ pc[t] \in Probing \cup {"idle", "batch", "run"}
<1>1. World /\ Typed /\ ProbeInv(t) /\ CallInv(t)
  BY DEF PlatformInv
<1>2. Yes("avx512") \in BOOLEAN /\ Yes("avx2") \in BOOLEAN
  BY <1>1 DEF Yes, Truth, World
<1>3. /\ pc[t] \in {"idle", "batch", "run"} => at[t] = "call"
      /\ at[t] = "call" /\ pc[t] \in {"lanes", "equal"} =>
           answer[t] = Yes("avx512")
      /\ at[t] = "call" /\ pc[t] \in {"lanes2", "small", "equal2"} =>
           answer[t] = Yes("avx2")
  BY <1>1 DEF ProbeInv, Probing, Probed
<1> QED BY <1>1, <1>2, <1>3 DEF Typed, CallInv

LEMMA MakeCallInv ==
  ASSUME PlatformInv, NEW t \in Threads, Call(t), UNCHANGED <<cpu, std, cells>>
  PROVE  PlatformInv'
<1>1. PICK n \in Counts \cup {0} : left' = [left EXCEPT ![t] = n]
  BY DEF Call
<1>2. /\ width' = [width EXCEPT ![t] = 0] /\ chosen' = [chosen EXCEPT ![t] = "none"]
      /\ Ask(t, "lanes", Probed("lanes")) /\ at[t] = "call" /\ n \in Nat
  BY HeardFacts, ThreadAssumption DEF Call, Probed
<1>3. "lanes" \in Probing /\ CallOK("lanes", n, 0, "none")
  BY DEF CallOK, Probing
<1> QED BY <1>1, <1>2, <1>3, StepFacts

LEMMA LanesAreInv ==
  ASSUME PlatformInv, NEW t \in Threads, LanesAre(t, D!Lanes), at[t] = "call",
         pc[t] \in {"lanes", "lanes2"}, UNCHANGED <<cpu, std, cells>>
  PROVE  PlatformInv'
<1> DEFINE w == D!Lanes
           n == left[t]
<1>1. /\ w \in {1, 8, 16} /\ n \in Nat /\ chosen[t] = "none"
      /\ width' = [width EXCEPT ![t] = w]
      /\ left' = [left EXCEPT ![t] = n] /\ chosen' = [chosen EXCEPT ![t] = "none"]
  BY HeardFacts, LanesFacts DEF LanesAre, CallOK
<1>2. CASE w = 1 /\ Goto(t, "idle")
  <2>1. CallOK("idle", n, w, "none")
    BY DEF CallOK
  <2> HIDE DEF w, n
  <2> QED BY <1>1, <1>2, <2>1, StepFacts
<1>3. CASE w > 1 /\ n > 0 /\ Goto(t, "batch")
  <2>1. CallOK("batch", n, w, "none")
    BY <1>3, <1>1 DEF CallOK
  <2> HIDE DEF w, n
  <2> QED BY <1>1, <1>3, <2>1, StepFacts
<1>4. CASE w > 1 /\ n = 0 /\ Ask(t, "equal", "avx512")
  <2>1. CallOK("equal", n, w, "none")
    BY <1>4, <1>1 DEF CallOK
  <2>2. "equal" \in Probing /\ Probed("equal") = "avx512"
    BY DEF Probing, Probed
  <2> HIDE DEF w, n
  <2> QED BY <1>1, <1>4, <2>1, <2>2, StepFacts
<1> QED BY <1>2, <1>3, <1>4 DEF LanesAre

LEMMA LanesInv ==
  ASSUME PlatformInv, NEW t \in Threads, Lanes(t), UNCHANGED <<cpu, std, cells>>
  PROVE  PlatformInv'
<1>1. at[t] = "call" /\ World
  BY HeardFacts DEF Lanes
<1>2. CASE pc[t] = "lanes" /\ answer[t] /\ LanesAre(t, 16)
  <2>1. D!Lanes = 16
    BY <1>1, <1>2, HeardFacts, LanesFacts
  <2> QED BY <1>1, <1>2, <2>1, LanesAreInv
<1>3. CASE pc[t] = "lanes" /\ ~answer[t] /\ Ask(t, "lanes2", "avx2")
           /\ UNCHANGED <<left, width, chosen>>
  <2>1. CallOK("lanes2", left[t], width[t], chosen[t])
    BY <1>1, <1>3, HeardFacts DEF CallOK
  <2>2. "lanes2" \in Probing /\ Probed("lanes2") = "avx2"
    BY DEF Probing, Probed
  <2> QED BY <1>1, <1>3, <2>1, <2>2, HeardFacts, StepFacts
<1>4. CASE pc[t] = "lanes2" /\ LanesAre(t, IF answer[t] THEN 8 ELSE 1)
  <2>1. ~Yes("avx512")
    BY <1>4, HeardFacts DEF CallOK
  <2>2. D!Lanes = IF answer[t] THEN 8 ELSE 1
    BY <1>1, <1>4, <2>1, HeardFacts, LanesFacts
  <2> QED BY <1>1, <1>4, <2>2, LanesAreInv
<1> QED BY <1>2, <1>3, <1>4 DEF Lanes

(* The size of the next fused call fits what is left and the lane count.   *)
LEMMA SizeOK ==
  ASSUME PlatformInv, NEW t \in Threads, pc[t] \in {"batch", "small", "equal", "equal2", "run"}
  PROVE  /\ Size(t) \in 0 .. left[t]
         /\ Size(t) > 0 => Size(t) \in 4 .. 4 * D!Lanes
         /\ D!Lanes \in {8, 16} /\ width[t] = D!Lanes
<1>1. width[t] = D!Lanes /\ width[t] # 1 /\ World /\ left[t] \in Nat
  BY HeardFacts DEF CallOK
<1>2. D!Lanes \in {8, 16}
  BY <1>1, HeardFacts, LanesFacts
<1> QED BY <1>1, <1>2, SizeFacts DEF Size

LEMMA EqualInv ==
  ASSUME PlatformInv, NEW t \in Threads, Equal(t), UNCHANGED <<cpu, std, cells>>
  PROVE  PlatformInv'
<1>1. /\ pc[t] = "batch" /\ Size(t) > 0 /\ at[t] = "call"
      /\ UNCHANGED <<left, width, chosen>>
      /\ width[t] = D!Lanes /\ width[t] # 1 /\ chosen[t] = "none"
  BY HeardFacts DEF Equal, CallOK
<1>2. /\ Size(t) \in 0 .. left[t] /\ left[t] \in Nat
  BY <1>1, SizeOK, HeardFacts
<1>3. left[t] > 0
  BY <1>1, <1>2, SMT
<1>4. CASE Size(t) <= 8 /\ Ask(t, "small", "avx2")
  <2>1. CallOK("small", left[t], width[t], chosen[t])
    BY <1>1, <1>3, <1>4 DEF CallOK, Size
  <2>2. "small" \in Probing /\ Probed("small") = "avx2"
    BY DEF Probing, Probed
  <2> QED BY <1>1, <1>4, <2>1, <2>2, HeardFacts, StepFacts
<1>5. CASE ~(Size(t) <= 8) /\ Ask(t, "equal", "avx512")
  <2>1. Size(t) > 8
    BY <1>2, <1>5, SMT
  <2>2. CallOK("equal", left[t], width[t], chosen[t])
    BY <1>1, <2>1 DEF CallOK, Size
  <2>3. "equal" \in Probing /\ Probed("equal") = "avx512"
    BY DEF Probing, Probed
  <2> QED BY <1>1, <1>5, <2>2, <2>3, HeardFacts, StepFacts
<1> QED BY <1>4, <1>5 DEF Equal

LEMMA UseInv ==
  ASSUME PlatformInv, NEW t \in Threads, NEW k \in {"none", "avx2", "avx512"}, Use(t, k),
         at[t] = "call", pc[t] \in {"small", "equal", "equal2"},
         left[t] > 0 => k = D!KernelFor(Size(t)),
         left[t] = 0 => k = Fixed,
         UNCHANGED <<left, width>>, UNCHANGED <<cpu, std, cells>>
  PROVE  PlatformInv'
<1>1. /\ width[t] = D!Lanes /\ width[t] # 1 /\ left[t] \in Nat
      /\ left[t] > 0 => Size(t) > 0
      /\ chosen' = [chosen EXCEPT ![t] = k]
      /\ left' = [left EXCEPT ![t] = left[t]]
      /\ width' = [width EXCEPT ![t] = width[t]] /\ width[t] \in {0, 1, 8, 16}
  BY HeardFacts DEF Use, CallOK, Size
<1>2. CASE left[t] > 0
  <2>1. CallOK("run", left[t], width[t], k)
    BY <1>1, <1>2 DEF CallOK, Size
  <2>2. Goto(t, "run") /\ "run" \in {"idle", "batch", "run"}
    BY <1>2 DEF Use
  <2>3. Moves(t, "run", left[t], width[t], k)
    BY <1>1, <2>1, <2>2 DEF Moves
  <2> QED BY <2>3, MovesInv
<1>3. CASE left[t] = 0
  <2>1. CallOK("idle", left[t], width[t], k)
    BY <1>1, <1>3 DEF CallOK
  <2>2. Goto(t, "idle") /\ "idle" \in {"idle", "batch", "run"}
    BY <1>3 DEF Use
  <2>3. Moves(t, "idle", left[t], width[t], k)
    BY <1>1, <2>1, <2>2 DEF Moves
  <2> QED BY <2>3, MovesInv
<1>4. left[t] > 0 \/ left[t] = 0
  BY <1>1, SMT
<1> QED BY <1>2, <1>3, <1>4

LEMMA ChooseInv ==
  ASSUME PlatformInv, NEW t \in Threads, Choose(t), UNCHANGED <<cpu, std, cells>>
  PROVE  PlatformInv'
<1>1. at[t] = "call" /\ UNCHANGED <<left, width>> /\ World /\ left[t] \in Nat
  BY HeardFacts DEF Choose
<1>2. pc[t] \in {"small", "equal", "equal2"}
  BY DEF Choose
<1>3. /\ D!Lanes \in {8, 16} /\ width[t] = D!Lanes /\ chosen[t] = "none" /\ width[t] # 1
      /\ left[t] > 0 => Size(t) > 0
      /\ Size(t) \in 0 .. left[t]
      /\ pc[t] = "small" => left[t] > 0 /\ Size(t) <= 8
      /\ pc[t] = "equal" /\ left[t] > 0 => Size(t) > 8
      /\ pc[t] = "equal2" => ~Yes("avx512")
  BY <1>2, SizeOK, HeardFacts DEF CallOK, Size
<1>4. Yes("avx2") = TRUE
  BY <1>1, <1>3, HeardFacts, LanesFacts
<1>5. CASE pc[t] = "small" /\ answer[t] /\ Use(t, "avx2")
  <2>1. D!KernelFor(Size(t)) = "avx2"
    BY <1>1, <1>3, <1>4, <1>5, HeardFacts, FixedFacts DEF D!KernelFor
  <2>2. ~(left[t] = 0)
    BY <1>1, <1>3, <1>5, SMT
  <2> QED BY <1>1, <1>2, <1>5, <2>1, <2>2, UseInv
<1>6. CASE pc[t] = "small" /\ ~answer[t]
  BY <1>1, <1>4, <1>6, HeardFacts
<1>7. CASE pc[t] = "equal" /\ answer[t] /\ Use(t, "avx512")
  <2>1. Fixed = "avx512"
    BY <1>1, <1>7, HeardFacts, FixedFacts
  <2>2. left[t] > 0 => D!KernelFor(Size(t)) = "avx512"
    <3>1. left[t] > 0 => ~(Size(t) <= 8)
      BY <1>1, <1>3, <1>7, SMT
    <3> QED BY <2>1, <3>1 DEF D!KernelFor
  <2> QED BY <1>1, <1>2, <1>7, <2>1, <2>2, UseInv
<1>8. CASE pc[t] = "equal" /\ ~answer[t] /\ Ask(t, "equal2", "avx2")
           /\ UNCHANGED chosen
  <2>1. CallOK("equal2", left[t], width[t], chosen[t])
    BY <1>1, <1>3, <1>8, HeardFacts DEF CallOK, Size
  <2>2. "equal2" \in Probing /\ Probed("equal2") = "avx2"
    BY DEF Probing, Probed
  <2> QED BY <1>1, <1>8, <2>1, <2>2, HeardFacts, StepFacts
<1>9. CASE pc[t] = "equal2" /\ Use(t, IF answer[t] THEN "avx2" ELSE "none")
  <2>1. answer[t] = TRUE /\ Fixed = "avx2"
    BY <1>1, <1>3, <1>4, <1>9, HeardFacts, FixedFacts
  <2>2. D!KernelFor(Size(t)) = "avx2"
    BY <2>1 DEF D!KernelFor
  <2>3. Use(t, "avx2")
    BY <1>9, <2>1
  <2> QED BY <1>1, <1>2, <2>1, <2>2, <2>3, UseInv
<1> QED BY <1>5, <1>6, <1>7, <1>8, <1>9 DEF Choose

LEMMA RunInv ==
  ASSUME PlatformInv, NEW t \in Threads, Run(t) \/ Done(t), UNCHANGED <<cpu, std, cells>>
  PROVE  PlatformInv'
<1>1. /\ pc[t] \in {"batch", "run"} /\ at[t] = "call" /\ left[t] \in Nat
      /\ width[t] = D!Lanes /\ width[t] # 1
      /\ Size(t) \in 0 .. left[t] /\ UNCHANGED width
  BY HeardFacts, SizeOK DEF Run, Done, CallOK
<1>2. CASE Run(t)
  <2>1. PICK n \in Nat : left' = [left EXCEPT ![t] = n]
    <3>1. left[t] - Size(t) \in Nat /\ (left[t] > 0 => left[t] - 1 \in Nat)
      BY <1>1, SMT
    <3> QED BY <1>2, <3>1 DEF Run
  <2>2. chosen' = [chosen EXCEPT ![t] = "none"] /\ Goto(t, "batch")
    BY <1>2 DEF Run
  <2>3. CallOK("batch", n, width[t], "none")
    BY <1>1 DEF CallOK
  <2>4. width' = [width EXCEPT ![t] = width[t]] /\ width[t] \in {0, 1, 8, 16}
    BY <1>1, HeardFacts
  <2>5. "none" \in {"none", "avx2", "avx512"} /\ "batch" \in {"idle", "batch", "run"}
    OBVIOUS
  <2>6. Moves(t, "batch", n, width[t], "none")
    BY <1>1, <2>1, <2>2, <2>3, <2>4, <2>5 DEF Moves
  <2> QED BY <2>6, MovesInv
<1>3. CASE Done(t)
  <2>1. chosen[t] = "none" /\ Goto(t, "idle") /\ UNCHANGED <<left, chosen>>
    BY <1>3, HeardFacts DEF Done, CallOK
  <2>2. CallOK("idle", left[t], width[t], chosen[t])
    BY <1>1, <2>1 DEF CallOK
  <2> QED BY <1>1, <2>1, <2>2, HeardFacts, StepFacts
<1> QED BY <1>2, <1>3

LEMMA PlatformNextInv == PlatformInv /\ [PlatformNext]_platformVars => PlatformInv'
<1> SUFFICES ASSUME PlatformInv, [PlatformNext]_platformVars PROVE PlatformInv'
  OBVIOUS
<1>1. CASE UNCHANGED platformVars
  <2>1. /\ UNCHANGED <<cpu, std, cell, value, at, on, nested, answer>>
        /\ UNCHANGED calls
    BY <1>1 DEF platformVars, cells, probes
  <2>2. World' /\ Typed' /\ Published'
    BY <2>1 DEF PlatformInv, World, Typed, Published, Truth, calls
  <2>3. \A t \in Threads : ProbeInv(t)'
    BY <2>1 DEF PlatformInv, ProbeInv, Filling, Yes, Truth, calls
  <2> QED BY <2>1, <2>2, <2>3, SameCall DEF PlatformInv
<1>2. ASSUME NEW t \in Threads, Program(t) PROVE PlatformInv'
  BY <1>2, MakeCallInv, LanesInv, EqualInv, ChooseInv, RunInv DEF Program
<1>3. ASSUME NEW t \in Threads, Probe(t) PROVE PlatformInv'
  BY <1>3, ReadInv, EnterInv, FillInv, PublishInv DEF Probe
<1> QED BY <1>1, <1>2, <1>3 DEF PlatformNext

LEMMA PlatformSpecInv == PlatformSpec => []PlatformInv
BY PlatformInitInv, PlatformNextInv, PTL DEF PlatformSpec

(***************************************************************************)
(* The theorems.                                                           *)
(***************************************************************************)
(* A cell belongs to the one thread that fills it.                         *)
THEOREM PlatformTypeCorrect == PlatformSpec => []PlatformTypeOK
<1>1. PlatformInv => PlatformTypeOK
  BY DEF PlatformInv, Typed, ProbeInv, PlatformTypeOK, Probing
<1> QED BY <1>1, PlatformSpecInv, PTL

LEMMA KernelFacts ==
  ASSUME PlatformInv, NEW t \in Threads, pc[t] = "run"
  PROVE  /\ chosen[t] = "avx512" => Fixed = "avx512" /\ Size(t) \in 9 .. 64
         /\ chosen[t] = "avx2" => Fixed \in {"avx2", "avx512"} /\ Size(t) \in 4 .. 32
         /\ chosen[t] \in {"avx2", "avx512"}
<1>1. /\ World /\ left[t] \in Nat /\ chosen[t] = D!KernelFor(Size(t))
      /\ Size(t) > 0 /\ width[t] = D!Lanes /\ width[t] # 1
  BY HeardFacts DEF CallOK, Size
<1>2. /\ Size(t) \in 4 .. 4 * D!Lanes /\ D!Lanes \in {8, 16}
  BY <1>1, SizeOK
<1>3. Yes("avx2") /\ Yes("avx512") \in BOOLEAN
  BY <1>1, <1>2, HeardFacts, LanesFacts
<1>4. CASE Yes("avx512")
  <2>1. Fixed = "avx512" /\ D!Lanes = 16
    BY <1>1, <1>4, FixedFacts, LanesFacts
  <2>2. chosen[t] = IF Size(t) <= 8 THEN "avx2" ELSE "avx512"
    BY <1>1, <2>1 DEF D!KernelFor
  <2>3. /\ Size(t) <= 8 => Size(t) \in 4 .. 32
        /\ ~(Size(t) <= 8) => Size(t) \in 9 .. 64
    BY <1>2, <2>1, SMT
  <2> QED BY <2>1, <2>2, <2>3
<1>5. CASE ~Yes("avx512")
  <2>1. Fixed = "avx2" /\ D!Lanes = 8
    BY <1>1, <1>3, <1>5, FixedFacts, LanesFacts
  <2>2. chosen[t] = "avx2"
    BY <1>1, <2>1 DEF D!KernelFor
  <2>3. Size(t) \in 4 .. 32
    BY <1>2, <2>1, SMT
  <2> QED BY <2>1, <2>2, <2>3
<1> QED BY <1>3, <1>4, <1>5

LEMMA InvSafe == PlatformInv => KernelSafe
<1> SUFFICES ASSUME PlatformInv, NEW t \in Threads, pc[t] = "run"
             PROVE  /\ chosen[t] = "avx512" => {"avx512f", "avx2"} \subseteq cpu
                    /\ chosen[t] = "avx2"   => "avx2" \in cpu
                    /\ chosen[t] # "none"   =>
                         D!Ceil(Size(t), D!LanesIn(chosen[t])) <= D!MaxGroups
  BY DEF KernelSafe
<1>1. /\ Fixed = "avx512" => {"avx512f", "avx2"} \subseteq cpu
      /\ Fixed = "avx2" => "avx2" \in cpu
  BY DEF Fixed
<1>2. D!LanesIn("avx2") = 8 /\ D!LanesIn("avx512") = 16
  BY DEF D!LanesIn, D!LanesOf
<1>3. /\ chosen[t] = "avx512" => (Size(t) + 16 - 1) \div 16 <= 4
      /\ chosen[t] = "avx2"   => (Size(t) + 8 - 1) \div 8 <= 4
  <2>1. \A n \in 9 .. 64 : (n + 16 - 1) \div 16 <= 4
    BY SMT
  <2>2. \A n \in 4 .. 32 : (n + 8 - 1) \div 8 <= 4
    BY SMT
  <2> QED BY <2>1, <2>2, KernelFacts
<1> QED BY <1>1, <1>2, <1>3, KernelFacts DEF D!Ceil, D!MaxGroups

(* No thread runs a kernel that the processor lacks or that its groups     *)
(* overflow, whoever initialised the cells.                                *)
THEOREM AlwaysKernelSafe == PlatformSpec => []KernelSafe
BY PlatformSpecInv, InvSafe, PTL

(* All probes of all threads agree with one platform that never changes.   *)
THEOREM AlwaysOnePlatform == PlatformSpec => []OnePlatform
<1>1. ASSUME PlatformInv, NEW t \in Threads
      PROVE  /\ width[t] # 0 => width[t] = D!Lanes
             /\ pc[t] = "run" => chosen[t] = D!KernelFor(Size(t))
             /\ pc[t] = "idle" /\ width[t] # 0 /\ chosen[t] # "none" => chosen[t] = Fixed
  BY <1>1, HeardFacts DEF CallOK, Size, Probing
<1>2. PlatformInv => OnePlatform
  BY <1>1 DEF OnePlatform
<1> QED BY <1>2, PlatformSpecInv, PTL

(* No thread waits for itself, and no two for each other.                  *)
THEOREM NeverCircularWait == PlatformSpec => []NoCircularWait
<1>1. ASSUME PlatformInv, NEW t \in Threads, NEW u \in Threads, Waits(t, u)
      PROVE  u # t /\ ~Waits(u, t)
  <2>1. /\ on[t] \in Cells /\ on[u] \in Cells /\ ProbeInv(t) /\ ProbeInv(u)
        /\ at[t] = "ask" /\ cell[on[t]] = u
    BY <1>1 DEF PlatformInv, Typed, Waits
  <2>2. nested[u] \/ at[u] # "ask"
    BY <2>1 DEF ProbeInv, Filling
  <2>3. ASSUME at[u] = "ask" PROVE on[t] = "avx512" /\ nested[u]
    BY <2>1, <2>2, <2>3 DEF ProbeInv, Filling
  <2>4. u # t
    BY <2>1, <2>3 DEF ProbeInv
  <2>5. ~Waits(u, t)
    BY <2>1, <2>3 DEF Waits, ProbeInv, Filling
  <2> QED BY <2>4, <2>5
<1>2. PlatformInv => NoCircularWait
  BY <1>1 DEF NoCircularWait
<1> QED BY <1>2, PlatformSpecInv, PTL

(* A thread that waits may find that the one it waits for waits too, but   *)
(* then the third is filling its cell: there are no longer chains, and at  *)
(* the end of each is a thread that has a step to take.                    *)
THEOREM WaitingEnds ==
  PlatformSpec => [](\A t, u, w \in Threads :
                       Waits(t, u) /\ Waits(u, w) => at[w] \in {"fill", "filled"})
<1>1. ASSUME PlatformInv, NEW t \in Threads, NEW u \in Threads, NEW w \in Threads,
             Waits(t, u), Waits(u, w)
      PROVE  at[w] \in {"fill", "filled"}
  <2>1. /\ on[t] \in Cells /\ on[u] \in Cells /\ ProbeInv(u) /\ ProbeInv(w)
        /\ at[u] = "ask" /\ cell[on[t]] = u /\ cell[on[u]] = w
    BY <1>1 DEF PlatformInv, Typed, Waits
  <2>2. nested[u] /\ on[u] = "avx2"
    BY <2>1 DEF ProbeInv, Filling
  <2> QED BY <2>1, <2>2 DEF ProbeInv, Filling
<1>2. PlatformInv => \A t, u, w \in Threads :
                       Waits(t, u) /\ Waits(u, w) => at[w] \in {"fill", "filled"}
  BY <1>1
<1> QED BY <1>2, PlatformSpecInv, PTL

(***************************************************************************)
(* Termination: a call takes no more than 40 * left + 106 steps of its     *)
(* thread, the initialisers it may have to run included.                   *)
(***************************************************************************)
(* The steps left of a probe at a for cell c, and of a call at p.          *)
ProbeLeft(a, c, inner) ==
  CASE a = "call"   -> 0
    [] a = "filled" -> IF inner THEN 2 ELSE 1
    [] a = "fill"   -> IF inner THEN 3 ELSE IF c = "avx2" THEN 2 ELSE 5
    [] a = "ask"    -> IF inner THEN 4 ELSE IF c = "avx2" THEN 3 ELSE 6
PlaceLeft(p, n) ==
  CASE p = "idle"   -> 0
    [] p = "run"    -> 40 * n + 22
    [] p = "equal2" -> 40 * n + 30
    [] p = "equal"  -> 40 * n + 40
    [] p = "small"  -> 40 * n + 50
    [] p = "batch"  -> 40 * n + 61
    [] p = "lanes2" -> 40 * n + 80
    [] p = "lanes"  -> 40 * n + 100
ThreadLeft(t) == PlaceLeft(pc[t], left[t]) + ProbeLeft(at[t], on[t], nested[t])

LEMMA ProbeLeftFacts ==
  /\ \A c, b : ProbeLeft("call", c, b) = 0
  /\ \A c : /\ ProbeLeft("filled", c, TRUE) = 2 /\ ProbeLeft("filled", c, FALSE) = 1
            /\ ProbeLeft("fill", c, TRUE) = 3 /\ ProbeLeft("ask", c, TRUE) = 4
  /\ ProbeLeft("fill", "avx2", FALSE) = 2 /\ ProbeLeft("ask", "avx2", FALSE) = 3
  /\ ProbeLeft("fill", "avx512", FALSE) = 5 /\ ProbeLeft("ask", "avx512", FALSE) = 6
BY DEF ProbeLeft

LEMMA PlaceLeftFacts ==
  ASSUME NEW n
  PROVE  /\ PlaceLeft("idle", n) = 0 /\ PlaceLeft("run", n) = 40 * n + 22
         /\ PlaceLeft("equal2", n) = 40 * n + 30 /\ PlaceLeft("equal", n) = 40 * n + 40
         /\ PlaceLeft("small", n) = 40 * n + 50 /\ PlaceLeft("batch", n) = 40 * n + 61
         /\ PlaceLeft("lanes2", n) = 40 * n + 80 /\ PlaceLeft("lanes", n) = 40 * n + 100
BY DEF PlaceLeft

LEMMA LeftTypes ==
  ASSUME PlatformInv, NEW t \in Threads
  PROVE  /\ PlaceLeft(pc[t], left[t]) \in Nat
         /\ ProbeLeft(at[t], on[t], nested[t]) \in 0 .. 6
         /\ ThreadLeft(t) \in Nat
<1>1. /\ at[t] \in {"call", "ask", "fill", "filled"} /\ on[t] \in {"avx2", "avx512"}
      /\ nested[t] \in BOOLEAN /\ left[t] \in Nat
      /\ pc[t] \in Probing \cup {"idle", "batch", "run"}
  BY DEF PlatformInv, Typed, Cells
<1>2. ProbeLeft(at[t], on[t], nested[t]) \in {0, 1, 2, 3, 4, 5, 6}
  <2>1. nested[t] = TRUE \/ nested[t] = FALSE
    BY <1>1
  <2>2. CASE nested[t] = TRUE
    BY <1>1, <2>2 DEF ProbeLeft
  <2>3. CASE nested[t] = FALSE
    BY <1>1, <2>3 DEF ProbeLeft
  <2> QED BY <2>1, <2>2, <2>3
<1>3. PlaceLeft(pc[t], left[t]) \in Nat
  BY <1>1, PlaceLeftFacts DEF Probing
<1> QED BY <1>2, <1>3, SMT DEF ThreadLeft

(* A step of a probe. *)
LEMMA ProbeShrinks ==
  ASSUME PlatformInv, NEW t \in Threads, Probe(t)
  PROVE  /\ ProbeLeft(at'[t], on'[t], nested'[t]) < ProbeLeft(at[t], on[t], nested[t])
         /\ UNCHANGED <<pc, left>>
<1>1. /\ Typed /\ on[t] \in {"avx2", "avx512"} /\ nested[t] \in BOOLEAN
      /\ nested[t] => on[t] = "avx2"
      /\ at[t] \in {"call", "ask", "fill", "filled"}
  BY DEF PlatformInv, Typed, ProbeInv, Cells
<1>2. UNCHANGED <<pc, left>>
  BY DEF Probe, Read, Enter, FillAvx2, FillAvx512, Publish, calls
<1>3. ASSUME NEW yes, Return(t, yes)
      PROVE  \/ nested[t] /\ at'[t] = "filled" /\ nested'[t] = FALSE
             \/ ~nested[t] /\ at'[t] = "call"
  BY <1>1, <1>3 DEF Return, Typed
<1>4. CASE Read(t) \/ Publish(t)
  <2>1. /\ at[t] = "ask" \/ at[t] = "filled"
        /\ \/ nested[t] = TRUE /\ at'[t] = "filled" /\ nested'[t] = FALSE
           \/ nested[t] = FALSE /\ at'[t] = "call"
    BY <1>1, <1>3, <1>4 DEF Read, Publish
  <2>2. CASE nested[t] = TRUE
    <3>1. ProbeLeft(at'[t], on'[t], nested'[t]) = 1
      BY <2>1, <2>2, ProbeLeftFacts
    <3>2. ProbeLeft(at[t], on[t], nested[t]) \in {2, 4}
      BY <2>1, <2>2, ProbeLeftFacts
    <3> QED BY <1>2, <3>1, <3>2, SMT
  <2>3. CASE nested[t] = FALSE
    <3>1. ProbeLeft(at'[t], on'[t], nested'[t]) = 0
      BY <2>1, <2>3, ProbeLeftFacts
    <3>2. ProbeLeft(at[t], on[t], nested[t]) \in {1, 3, 6}
      BY <1>1, <2>1, <2>3, ProbeLeftFacts
    <3> QED BY <1>2, <3>1, <3>2, SMT
  <2> QED BY <2>1, <2>2, <2>3
<1>5. CASE Enter(t)
  <2>1. at[t] = "ask" /\ at'[t] = "fill" /\ on'[t] = on[t] /\ nested'[t] = nested[t]
    BY <1>1, <1>5 DEF Enter, Typed
  <2>2. \/ ProbeLeft(at[t], on[t], nested[t]) = 4 /\ ProbeLeft(at'[t], on'[t], nested'[t]) = 3
        \/ ProbeLeft(at[t], on[t], nested[t]) = 3 /\ ProbeLeft(at'[t], on'[t], nested'[t]) = 2
        \/ ProbeLeft(at[t], on[t], nested[t]) = 6 /\ ProbeLeft(at'[t], on'[t], nested'[t]) = 5
    BY <1>1, <2>1, ProbeLeftFacts
  <2> QED BY <1>2, <2>2, SMT
<1>6. CASE FillAvx2(t)
  <2>1. /\ at[t] = "fill" /\ on[t] = "avx2" /\ at'[t] = "filled" /\ on'[t] = on[t]
        /\ nested'[t] = nested[t]
    BY <1>1, <1>6 DEF FillAvx2, Typed
  <2>2. \/ ProbeLeft(at[t], on[t], nested[t]) = 3 /\ ProbeLeft(at'[t], on'[t], nested'[t]) = 2
        \/ ProbeLeft(at[t], on[t], nested[t]) = 2 /\ ProbeLeft(at'[t], on'[t], nested'[t]) = 1
    BY <1>1, <2>1, ProbeLeftFacts
  <2> QED BY <1>2, <2>2, SMT
<1>7. CASE FillAvx512(t)
  <2>1. /\ at[t] = "fill" /\ on[t] = "avx512" /\ nested[t] = FALSE
        /\ \/ at'[t] = "ask" /\ nested'[t] = TRUE
           \/ at'[t] = "filled" /\ nested'[t] = FALSE
    BY <1>1, <1>7 DEF FillAvx512, Typed
  <2>2. /\ ProbeLeft(at[t], on[t], nested[t]) = 5
        /\ ProbeLeft(at'[t], on'[t], nested'[t]) \in {4, 1}
    BY <2>1, ProbeLeftFacts
  <2> QED BY <1>2, <2>2, SMT
<1> QED BY <1>4, <1>5, <1>6, <1>7 DEF Probe

(* A step of the program, from the end of a probe to the next one. *)
LEMMA AskFacts ==
  ASSUME PlatformInv, NEW t \in Threads, NEW p, NEW c \in Cells, Ask(t, p, c),
         at[t] = "call"
  PROVE  /\ pc'[t] = p
         /\ ProbeLeft(at'[t], on'[t], nested'[t]) \in 0 .. 6
<1>1. /\ Typed /\ nested[t] = FALSE /\ c \in {"avx2", "avx512"}
  BY DEF PlatformInv, ProbeInv, Typed, Cells
<1>2. pc'[t] = p /\ at'[t] = "ask" /\ on'[t] = c /\ nested'[t] = FALSE
  BY <1>1 DEF Ask, Typed
<1>3. ProbeLeft(at'[t], on'[t], nested'[t]) \in {3, 6}
  BY <1>1, <1>2, ProbeLeftFacts
<1> QED BY <1>2, <1>3, SMT

LEMMA GotoFacts ==
  ASSUME PlatformInv, NEW t \in Threads, NEW p, Goto(t, p), at[t] = "call"
  PROVE  /\ pc'[t] = p
         /\ ProbeLeft(at'[t], on'[t], nested'[t]) = 0
BY ProbeLeftFacts DEF PlatformInv, Typed, Goto, probes

(* From place p, with n messages, to a later place of the same round.      *)
LEMMA PlaceShrinks ==
  ASSUME NEW n \in Nat, NEW r \in 0 .. 6
  PROVE  /\ PlaceLeft("lanes2", n) + r < PlaceLeft("lanes", n)
         /\ \A p \in {"lanes", "lanes2", "batch", "small", "equal", "equal2"} :
              PlaceLeft("idle", n) < PlaceLeft(p, n)
         /\ \A p \in {"lanes", "lanes2"} :
              /\ PlaceLeft("batch", n) < PlaceLeft(p, n)
              /\ PlaceLeft("equal", n) + r < PlaceLeft(p, n)
         /\ \A p \in {"batch", "small"} : PlaceLeft("equal", n) + r < PlaceLeft(p, n)
         /\ PlaceLeft("small", n) + r < PlaceLeft("batch", n)
         /\ PlaceLeft("equal2", n) + r < PlaceLeft("equal", n)
         /\ \A p \in {"small", "equal", "equal2"} : PlaceLeft("run", n) < PlaceLeft(p, n)
<1>1. 40 * n \in Nat
  BY SMT
<1> DEFINE base == 40 * n
<1>2. /\ PlaceLeft("idle", n) = 0 /\ PlaceLeft("run", n) = base + 22
      /\ PlaceLeft("equal2", n) = base + 30 /\ PlaceLeft("equal", n) = base + 40
      /\ PlaceLeft("small", n) = base + 50 /\ PlaceLeft("batch", n) = base + 61
      /\ PlaceLeft("lanes2", n) = base + 80 /\ PlaceLeft("lanes", n) = base + 100
  BY PlaceLeftFacts
<1>3. base \in Nat
  BY <1>1
<1> HIDE DEF base
<1> QED BY <1>2, <1>3

LEMMA ProgramShrinks ==
  ASSUME PlatformInv, NEW t \in Threads, Program(t), pc[t] # "idle"
  PROVE  ThreadLeft(t)' < ThreadLeft(t)
<1> DEFINE n == left[t]
           r == ProbeLeft(at'[t], on'[t], nested'[t])
<1>1. /\ n \in Nat /\ UNCHANGED <<cpu, std, cells>>
      /\ "avx2" \in Cells /\ "avx512" \in Cells
  BY HeardFacts DEF Program, Cells
<1>2. ASSUME at[t] = "call" PROVE ThreadLeft(t) = PlaceLeft(pc[t], n)
  <2>1. ProbeLeft(at[t], on[t], nested[t]) = 0
    BY <1>2, ProbeLeftFacts
  <2>2. PlaceLeft(pc[t], n) \in Nat
    BY LeftTypes
  <2> QED BY <2>1, <2>2 DEF ThreadLeft
<1>3. ThreadLeft(t)' = PlaceLeft(pc'[t], left'[t]) + r
  BY DEF ThreadLeft
<1>4. ASSUME NEW p, at[t] = "call", left' = left, Goto(t, p),
             PlaceLeft(p, n) \in Nat, PlaceLeft(p, n) < PlaceLeft(pc[t], n)
      PROVE  ThreadLeft(t)' < ThreadLeft(t)
  <2>1. pc'[t] = p /\ r = 0
    BY <1>4, GotoFacts
  <2> HIDE DEF r
  <2>2. ThreadLeft(t)' = PlaceLeft(p, n) + 0
    BY <1>3, <1>4, <2>1
  <2> QED BY <1>2, <1>4, <2>2
<1>5. ASSUME NEW p, NEW c \in Cells, at[t] = "call", left' = left, Ask(t, p, c),
             \A q \in 0 .. 6 : PlaceLeft(p, n) + q < PlaceLeft(pc[t], n)
      PROVE  ThreadLeft(t)' < ThreadLeft(t)
  <2>1. pc'[t] = p /\ r \in 0 .. 6
    BY <1>5, AskFacts
  <2> HIDE DEF r
  <2>2. ThreadLeft(t)' = PlaceLeft(p, n) + r
    BY <1>3, <1>5, <2>1
  <2> QED BY <1>2, <1>5, <2>1, <2>2
<1>6. /\ PlaceLeft("idle", n) \in Nat /\ PlaceLeft("batch", n) \in Nat
      /\ PlaceLeft("run", n) \in Nat
  BY <1>1, PlaceLeftFacts
<1>7. 0 \in 0 .. 6
  OBVIOUS
<1> HIDE DEF n, r
<1>8. CASE Lanes(t)
  <2>1. at[t] = "call"
    BY <1>8 DEF Lanes
  <2>2. CASE pc[t] = "lanes" /\ Ask(t, "lanes2", "avx2") /\ UNCHANGED left
    BY <1>1, <1>5, <2>1, <2>2, PlaceShrinks
  <2>3. ASSUME NEW w, LanesAre(t, w), pc[t] \in {"lanes", "lanes2"}
        PROVE  ThreadLeft(t)' < ThreadLeft(t)
    <3>1. /\ left' = left
          /\ Goto(t, "idle") \/ Goto(t, "batch") \/ Ask(t, "equal", "avx512")
      BY <2>3 DEF LanesAre
    <3>2. CASE Goto(t, "idle")
      BY <1>1, <1>4, <1>6, <1>7, <2>1, <2>3, <3>1, <3>2, PlaceShrinks
    <3>3. CASE Goto(t, "batch")
      BY <1>1, <1>4, <1>6, <1>7, <2>1, <2>3, <3>1, <3>3, PlaceShrinks
    <3>4. CASE Ask(t, "equal", "avx512")
      BY <1>1, <1>5, <2>1, <2>3, <3>1, <3>4, PlaceShrinks
    <3> QED BY <3>1, <3>2, <3>3, <3>4
  <2> QED BY <1>8, <2>2, <2>3 DEF Lanes
<1>9. CASE Equal(t)
  <2>1. pc[t] = "batch" /\ at[t] = "call" /\ left' = left
    BY <1>9, HeardFacts DEF Equal
  <2>2. Ask(t, "small", "avx2") \/ Ask(t, "equal", "avx512")
    BY <1>9 DEF Equal
  <2> QED BY <1>1, <1>5, <2>1, <2>2, PlaceShrinks
<1>10. CASE Choose(t)
  <2>1. at[t] = "call" /\ left' = left /\ pc[t] \in {"small", "equal", "equal2"}
    BY <1>10 DEF Choose
  <2>2. ASSUME NEW k, Use(t, k) PROVE ThreadLeft(t)' < ThreadLeft(t)
    <3>1. Goto(t, "run") \/ Goto(t, "idle")
      BY <2>2 DEF Use
    <3> QED BY <1>1, <1>4, <1>6, <1>7, <2>1, <3>1, PlaceShrinks
  <2>3. CASE pc[t] = "small" /\ Ask(t, "equal", "avx512")
    BY <1>1, <1>5, <2>1, <2>3, PlaceShrinks
  <2>4. CASE pc[t] = "equal" /\ Ask(t, "equal2", "avx2")
    BY <1>1, <1>5, <2>1, <2>4, PlaceShrinks
  <2> QED BY <1>10, <2>2, <2>3, <2>4 DEF Choose
<1>11. CASE Run(t)
  <2>1. /\ pc[t] \in {"batch", "run"} /\ at[t] = "call" /\ Goto(t, "batch")
    BY <1>11, HeardFacts DEF Run
  <2>2. PICK rest \in Nat : left'[t] = rest /\ rest < n /\ n > 0
    <3>1. CASE pc[t] = "run"
      <4>1. left'[t] = n - Size(t)
        BY <1>11, <3>1 DEF Run, n, PlatformInv, Typed
      <4>2. Size(t) \in 0 .. n /\ Size(t) > 0 /\ n > 0
        BY <3>1, SizeOK, HeardFacts DEF n, CallOK, Size
      <4> QED BY <1>1, <4>1, <4>2
    <3>2. CASE pc[t] = "batch"
      <4>1. left'[t] = n - 1 /\ n > 0
        BY <1>11, <3>2 DEF Run, n, PlatformInv, Typed
      <4> QED BY <1>1, <4>1
    <3> QED BY <2>1, <3>1, <3>2
  <2>3. pc'[t] = "batch" /\ r = 0
    BY <2>1, GotoFacts DEF r
  <2>4. ThreadLeft(t)' = 40 * rest + 61 + 0
    BY <1>3, <2>2, <2>3, PlaceLeftFacts
  <2>5. ThreadLeft(t) = 40 * n + 61 \/ ThreadLeft(t) = 40 * n + 22
    BY <1>2, <2>1, PlaceLeftFacts
  <2> QED BY <1>1, <2>2, <2>4, <2>5, SMT
<1>12. CASE Done(t)
  <2>1. pc[t] = "batch" /\ at[t] = "call" /\ left' = left /\ Goto(t, "idle")
    BY <1>12, HeardFacts DEF Done
  <2> QED BY <1>1, <1>4, <1>6, <1>7, <2>1, PlaceShrinks
<1>13. ~Call(t)
  BY DEF Call
<1> QED BY <1>8, <1>9, <1>10, <1>11, <1>12, <1>13 DEF Program

(* The other threads keep what they have left. *)
LEMMA OthersKeep ==
  ASSUME PlatformInv, NEW t \in Threads, Program(t) \/ Probe(t), NEW u \in Threads \ {t}
  PROVE  ThreadLeft(u)' = ThreadLeft(u)
<1>1. Typed
  BY DEF PlatformInv
<1>2. /\ at'[u] = at[u] /\ on'[u] = on[u] /\ nested'[u] = nested[u]
      /\ pc'[u] = pc[u] /\ left'[u] = left[u]
  <2>1. CASE Probe(t)
    BY <1>1, <2>1 DEF Probe, Read, Enter, FillAvx2, FillAvx512, Publish, Return, calls, Typed
  <2>2. ASSUME NEW p, NEW c, Ask(t, p, c) \/ Goto(t, p)
        PROVE  /\ at'[u] = at[u] /\ on'[u] = on[u] /\ nested'[u] = nested[u]
               /\ pc'[u] = pc[u]
    BY <1>1, <2>2 DEF Ask, Goto, probes, Typed
  <2>3. ASSUME Program(t)
        PROVE  left'[u] = left[u] /\ \E p, c : Ask(t, p, c) \/ Goto(t, p)
    <3>1. CASE Call(t)
      BY <1>1, <3>1 DEF Call, Typed
    <3>2. CASE Lanes(t)
      BY <3>2 DEF Lanes, LanesAre
    <3>3. CASE Equal(t)
      BY <3>3 DEF Equal
    <3>4. CASE Choose(t)
      BY <3>4 DEF Choose, Use
    <3>5. CASE Run(t)
      BY <1>1, <3>5 DEF Run, Typed
    <3>6. CASE Done(t)
      BY <3>6 DEF Done
    <3> QED BY <2>3, <3>1, <3>2, <3>3, <3>4, <3>5, <3>6 DEF Program
  <2> QED BY <2>1, <2>2, <2>3
<1> QED BY <1>2 DEF ThreadLeft

(* A step of one thread, which begins a call or lowers its bound.          *)
ThreadsLeft == \A u \in Threads : ThreadLeft(u) \in Nat

ThreadSteps(t) == /\ pc[t] # "idle" => ThreadLeft(t)' < ThreadLeft(t)
                  /\ \A u \in Threads \ {t} : ThreadLeft(u)' = ThreadLeft(u)

OneThreadSteps == ThreadsLeft /\ ThreadsLeft' /\ \E t \in Threads : ThreadSteps(t)

(* Every step is a step of one thread, which begins a call or lowers the   *)
(* natural number that bounds the steps left to its call; what the others  *)
(* do, the cells they fill included, adds nothing to it.                   *)
THEOREM ThreadsShrink == PlatformSpec => [][OneThreadSteps]_platformVars
<1>1. PlatformInv => ThreadsLeft
  BY LeftTypes DEF ThreadsLeft
<1>2. PlatformInv' => ThreadsLeft'
  BY <1>1, PTL
<1>3. ASSUME PlatformInv, NEW t \in Threads, Program(t) \/ Probe(t) PROVE ThreadSteps(t)
  <2>1. ASSUME pc[t] # "idle", Program(t) PROVE ThreadLeft(t)' < ThreadLeft(t)
    BY <1>3, <2>1, ProgramShrinks
  <2>2. ASSUME Probe(t) PROVE ThreadLeft(t)' < ThreadLeft(t)
    <3>1. /\ ProbeLeft(at'[t], on'[t], nested'[t]) < ProbeLeft(at[t], on[t], nested[t])
          /\ UNCHANGED <<pc, left>>
      BY <1>3, <2>2, ProbeShrinks
    <3>2. PlatformInv' /\ PlatformInv
      BY <1>3, <2>2, PlatformNextInv DEF PlatformNext
    <3>3. ProbeLeft(at'[t], on'[t], nested'[t]) \in Nat
      BY <3>2 DEF PlatformInv, Typed, ProbeLeft
    <3>4. /\ PlaceLeft(pc[t], left[t]) \in Nat
          /\ ProbeLeft(at[t], on[t], nested[t]) \in 0 .. 6
      BY <3>2, LeftTypes
    <3>5. ThreadLeft(t)' = PlaceLeft(pc[t], left[t]) + ProbeLeft(at'[t], on'[t], nested'[t])
      BY <3>1 DEF ThreadLeft
    <3> QED BY <3>1, <3>3, <3>4, <3>5, SMT DEF ThreadLeft
  <2> QED BY <1>3, <2>1, <2>2, OthersKeep DEF ThreadSteps
<1>4. PlatformInv /\ PlatformInv' /\ [PlatformNext]_platformVars =>
        [OneThreadSteps]_platformVars
  BY <1>1, <1>2, <1>3 DEF PlatformNext, OneThreadSteps
<1> QED BY <1>4, PlatformSpecInv, PTL DEF PlatformSpec
=============================================================================
