-------------------------------- MODULE Words ------------------------------
(***************************************************************************)
(* The machine words of the compression function.  The code has 32-bit     *)
(* words; a model may have any word with these operations.                 *)
(***************************************************************************)
EXTENDS Schedule

CONSTANTS
  Word,          \* the values of a word
  WordBits,      \* its width
  Plus(_, _),    \* wrapping_add
  Minus(_, _),   \* its inverse
  And(_, _), Or(_, _), Xor(_, _), Not(_),
  Rotl(_, _),    \* rotate_left
  Ror(_, _),     \* the `ror' instruction
  Shl(_, _), Shr(_, _),  \* the logical shifts of a lane
  Ones,          \* the word of set1_epi32(-1)
  Const(_),      \* the word of an entry of K
  Unset          \* any word: what m holds before the first block

Reg == 0 .. 3                       \* a, b, c, d
Regs == [Reg -> Word]
Block == [0 .. 15 -> Word]          \* load_m: the words of a block
Blank == [i \in 0 .. 15 |-> Unset]   \* before the first

(* The registers of a step: the one it writes, and its operands x, y, z.   *)
X(v, s) == v[(Dest(s) + 1) % 4]
Y(v, s) == v[(Dest(s) + 2) % 4]
Z(v, s) == v[(Dest(s) + 3) % 4]
=============================================================================
