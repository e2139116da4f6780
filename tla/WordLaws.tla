------------------------------- MODULE WordLaws ----------------------------
(***************************************************************************)
(* What the kernels rely on in their words: addition is that of a          *)
(* commutative group, a rotate to the right undoes one to the left, two    *)
(* shifts make a rotate, a xor with ones negates, and three identities let *)
(* F and G be computed in fewer instructions.                              *)
(***************************************************************************)
EXTENDS Words

ASSUME WordAssumption ==
  /\ Unset \in Word
  /\ \A x \in Word : Not(x) \in Word
  /\ \A x, y \in Word : And(x, y) \in Word /\ Or(x, y) \in Word /\ Xor(x, y) \in Word
  /\ \A s \in 0 .. 63 : Const(s) \in Word

ASSUME PlusAssumption ==
  /\ \A x, y \in Word : Plus(x, y) \in Word /\ Minus(x, y) \in Word
  /\ \A x, y \in Word : Plus(x, y) = Plus(y, x)
  /\ \A x, y \in Word : Minus(Plus(x, y), y) = x /\ Plus(Minus(x, y), y) = x
  /\ \A x, y, z \in Word : Plus(Plus(x, y), z) = Plus(x, Plus(y, z))

ASSUME LogicAssumption ==
  /\ \A x, y \in Word :
       And(x, y) = And(y, x) /\ Or(x, y) = Or(y, x) /\ Xor(x, y) = Xor(y, x)
  /\ \A x, y, z \in Word : Xor(Xor(x, y), z) = Xor(x, Xor(y, z))

(* The last identity is about an addition: the masks z and ~z are          *)
(* disjoint, so nothing is carried (src/compress.rs:34-37).                *)
ASSUME MixAssumption ==
  \A x, y, z \in Word :
    /\ Xor(z, And(x, Xor(y, z))) = Or(And(x, y), And(Not(x), z))
    /\ Xor(y, And(z, Xor(x, y))) = Or(And(x, z), And(y, Not(z)))
    /\ Plus(And(x, z), And(y, Not(z))) = Or(And(x, z), And(y, Not(z)))

ASSUME RotateAssumption ==
  \A x \in Word, r \in 4 .. 23 :
    Rotl(x, r) \in Word /\ Ror(x, WordBits - r) = Rotl(x, r)

(* What the vector adapters have instead of a rotate and, on x86, of a     *)
(* negation (src/simd/avx2.rs:120-131).                                    *)
ASSUME LaneAssumption ==
  \A x \in Word :
    /\ Xor(x, Ones) = Not(x)
    /\ \A r \in 4 .. 23 : Or(Shl(x, r), Shr(x, WordBits - r)) = Rotl(x, r)
=============================================================================
