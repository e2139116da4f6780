-------------------------------- MODULE Lanes ------------------------------
(***************************************************************************)
(* The gathers of the vector adapters (src/simd/avx2.rs, avx512.rs,        *)
(* neon.rs, neon8.rs): one block is loaded from each message, a row per    *)
(* message, and transposed into one register per message word, a lane per  *)
(* message.  A register is a function from lanes; what a lane holds here   *)
(* is the address its word was loaded from, so that a gather is correct    *)
(* when every address is where it should be.  Lanes, words and rows count  *)
(* from 0, as in the code.                                                 *)
(***************************************************************************)
EXTENDS Integers, FusedCall

CONSTANT WordBytes      \* bytes of a u32

BlockWords == 16

(***************************************************************************)
(* The shuffles.  AVX unpacks work inside each half of four words.         *)
(***************************************************************************)
Half(l)  == 4 * (l \div 4)
Place(l) == l % 4

UnpackLo32(a, b) == [l \in 0 .. 7 |-> (IF l % 2 = 0 THEN a ELSE b)[Half(l) + Place(l) \div 2]]
UnpackHi32(a, b) == [l \in 0 .. 7 |-> (IF l % 2 = 0 THEN a ELSE b)[Half(l) + 2 + Place(l) \div 2]]
UnpackLo64(a, b) == [l \in 0 .. 7 |-> IF Place(l) < 2 THEN a[l] ELSE b[l - 2]]
UnpackHi64(a, b) == [l \in 0 .. 7 |-> IF Place(l) < 2 THEN a[l + 2] ELSE b[l]]

(* The low halves (0x20) or the high halves (0x31) of two registers. *)
PermuteLo(a, b) == [l \in 0 .. 7 |-> IF l < 4 THEN a[l] ELSE b[l - 4]]
PermuteHi(a, b) == [l \in 0 .. 7 |-> IF l < 4 THEN a[l + 4] ELSE b[l]]

(* Rows q .. q + 3 after the 32-bit and the 64-bit unpacks.  Each result    *)
(* holds words w and w + 4 of the rows, w in a half of its own; the code    *)
(* numbers them u0, u1, u2, u3, which is not the order of w.                *)
Quad(r, q) ==
  LET t0 == UnpackLo32(r[q], r[q + 1])
      t1 == UnpackHi32(r[q], r[q + 1])
      t2 == UnpackLo32(r[q + 2], r[q + 3])
      t3 == UnpackHi32(r[q + 2], r[q + 3])
  IN  [u0 |-> UnpackLo64(t0, t2), u1 |-> UnpackLo64(t1, t3),
       u2 |-> UnpackHi64(t0, t2), u3 |-> UnpackHi64(t1, t3)]

(* Mutation: the registers are stored in the order of their numbers.       *)
UOfWordInOrder(u, w) ==
  CASE w % 4 = 0 -> u.u0 [] w % 4 = 1 -> u.u1 [] w % 4 = 2 -> u.u2 [] w % 4 = 3 -> u.u3

UOfWord(u, w) ==
  CASE w % 4 = 0 -> u.u0 [] w % 4 = 1 -> u.u2 [] w % 4 = 2 -> u.u1 [] w % 4 = 3 -> u.u3

(* transpose8: row i and column w become register w and lane i. *)
Transpose8(r) ==
  [w \in 0 .. 7 |->
     LET a == UOfWord(Quad(r, 0), w)
         b == UOfWord(Quad(r, 4), w)
     IN  IF w < 4 THEN PermuteLo(a, b) ELSE PermuteHi(a, b)]

(* vtrnq_u32: even words of both rows, odd words of both rows. *)
TrnEven(a, b) == [l \in 0 .. 3 |-> IF l % 2 = 0 THEN a[l] ELSE b[l - 1]]
TrnOdd(a, b)  == [l \in 0 .. 3 |-> IF l % 2 = 0 THEN a[l + 1] ELSE b[l]]
CombineLow(a, b)  == [l \in 0 .. 3 |-> IF l < 2 THEN a[l] ELSE b[l - 2]]
CombineHigh(a, b) == [l \in 0 .. 3 |-> IF l < 2 THEN a[l + 2] ELSE b[l]]

(* transpose4. *)
Transpose4(r) ==
  LET even(i) == TrnEven(r[i], r[i + 1])
      odd(i)  == TrnOdd(r[i], r[i + 1])
  IN  [w \in 0 .. 3 |->
         CASE w = 0 -> CombineLow(even(0), even(2)) [] w = 1 -> CombineLow(odd(0), odd(2))
           [] w = 2 -> CombineHigh(even(0), even(2)) [] w = 3 -> CombineHigh(odd(0), odd(2))]

(* A register of twice the width from two: Pair4, inserti64x4. *)
Join(lo, hi, width) == [l \in 0 .. 2 * width - 1 |->
                          IF l < width THEN lo[l] ELSE hi[l - width]]

(***************************************************************************)
(* The gathers.  A pointer is a buffer and an offset.                      *)
(***************************************************************************)
Word(p, w) == [src |-> p.src, at |-> p.start + w * WordBytes]

(* Unused lanes reuse the last valid pointer. *)
LanePtr(ptrs, n, l) == IF l < n THEN ptrs[l] ELSE ptrs[n - 1]

(* Rows of 8 or 4 words, from word w on of the messages lo, lo + 1, ...    *)
Rows(ptrs, n, lo, width, w) ==
  [r \in 0 .. width - 1 |-> [c \in 0 .. width - 1 |->
     Word(LanePtr(ptrs, n, lo + r), w + c)]]

(* Two transposes of eight words each, or four of four. *)
Octet(ptrs, n, lo) ==
  [w \in 0 .. 15 |-> Transpose8(Rows(ptrs, n, lo, 8, 8 * (w \div 8)))[w % 8]]
Quartet(ptrs, n, lo) ==
  [w \in 0 .. 15 |-> Transpose4(Rows(ptrs, n, lo, 4, 4 * (w \div 4)))[w % 4]]

(* gather_block of each adapter. *)
Gather(kernel, ptrs, n) ==
  CASE kernel = "neon4"  -> Quartet(ptrs, n, 0)
    [] kernel = "neon8"  -> LET lt == Quartet(ptrs, n, 0)
                                ht == Quartet(ptrs, n, 4)
                            IN  [w \in 0 .. 15 |-> Join(lt[w], ht[w], 4)]
    [] kernel = "avx2"   -> Octet(ptrs, n, 0)
    [] kernel = "avx512" -> LET lo == Octet(ptrs, n, 0)
                                hi == Octet(ptrs, n, 8)
                            IN  [w \in 0 .. 15 |-> Join(lo[w], hi[w], 8)]
=============================================================================
