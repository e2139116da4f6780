------------------------------ MODULE WideProofs ----------------------------
(***************************************************************************)
(* The hand-written shuffles of every vector adapter transpose, and a      *)
(* fused call of any number of messages of any length gives every message  *)
(* the RFC 1321 digest.                                                    *)
(***************************************************************************)
EXTENDS Wide, RawProofs

(***************************************************************************)
(* The shuffles, lane by lane.                                             *)
(***************************************************************************)
LEMMA Lane8 ==
  /\ 0 \div 4 = 0 /\ 1 \div 4 = 0 /\ 2 \div 4 = 0 /\ 3 \div 4 = 0
  /\ 4 \div 4 = 1 /\ 5 \div 4 = 1 /\ 6 \div 4 = 1 /\ 7 \div 4 = 1
  /\ 0 % 4 = 0 /\ 1 % 4 = 1 /\ 2 % 4 = 2 /\ 3 % 4 = 3
  /\ 4 % 4 = 0 /\ 5 % 4 = 1 /\ 6 % 4 = 2 /\ 7 % 4 = 3
  /\ 0 % 2 = 0 /\ 1 % 2 = 1 /\ 2 % 2 = 0 /\ 3 % 2 = 1
  /\ 4 % 2 = 0 /\ 5 % 2 = 1 /\ 6 % 2 = 0 /\ 7 % 2 = 1
  /\ 0 \div 2 = 0 /\ 1 \div 2 = 0 /\ 2 \div 2 = 1 /\ 3 \div 2 = 1
BY SMT

LEMMA UnpackFacts ==
  ASSUME NEW a, NEW b
  PROVE  /\ LET v == UnpackLo32(a, b) IN
              /\ v[0] = a[0] /\ v[1] = b[0] /\ v[2] = a[1] /\ v[3] = b[1]
              /\ v[4] = a[4] /\ v[5] = b[4] /\ v[6] = a[5] /\ v[7] = b[5]
         /\ LET v == UnpackHi32(a, b) IN
              /\ v[0] = a[2] /\ v[1] = b[2] /\ v[2] = a[3] /\ v[3] = b[3]
              /\ v[4] = a[6] /\ v[5] = b[6] /\ v[6] = a[7] /\ v[7] = b[7]
         /\ LET v == UnpackLo64(a, b) IN
              /\ v[0] = a[0] /\ v[1] = a[1] /\ v[2] = b[0] /\ v[3] = b[1]
              /\ v[4] = a[4] /\ v[5] = a[5] /\ v[6] = b[4] /\ v[7] = b[5]
         /\ LET v == UnpackHi64(a, b) IN
              /\ v[0] = a[2] /\ v[1] = a[3] /\ v[2] = b[2] /\ v[3] = b[3]
              /\ v[4] = a[6] /\ v[5] = a[7] /\ v[6] = b[6] /\ v[7] = b[7]
<1>1. LET v == UnpackLo32(a, b) IN
        /\ v[0] = a[0] /\ v[1] = b[0] /\ v[2] = a[1] /\ v[3] = b[1]
        /\ v[4] = a[4] /\ v[5] = b[4] /\ v[6] = a[5] /\ v[7] = b[5]
  BY Lane8, SMT DEF UnpackLo32, Half, Place
<1>2. LET v == UnpackHi32(a, b) IN
        /\ v[0] = a[2] /\ v[1] = b[2] /\ v[2] = a[3] /\ v[3] = b[3]
        /\ v[4] = a[6] /\ v[5] = b[6] /\ v[6] = a[7] /\ v[7] = b[7]
  BY Lane8, SMT DEF UnpackHi32, Half, Place
<1>3. LET v == UnpackLo64(a, b) IN
        /\ v[0] = a[0] /\ v[1] = a[1] /\ v[2] = b[0] /\ v[3] = b[1]
        /\ v[4] = a[4] /\ v[5] = a[5] /\ v[6] = b[4] /\ v[7] = b[5]
  BY Lane8, SMT DEF UnpackLo64, Half, Place
<1>4. LET v == UnpackHi64(a, b) IN
        /\ v[0] = a[2] /\ v[1] = a[3] /\ v[2] = b[2] /\ v[3] = b[3]
        /\ v[4] = a[6] /\ v[5] = a[7] /\ v[6] = b[6] /\ v[7] = b[7]
  BY Lane8, SMT DEF UnpackHi64, Half, Place
<1> QED BY <1>1, <1>2, <1>3, <1>4

(* The registers of four rows: words w and w + 4 of rows q .. q + 3.       *)
LEMMA QuadFacts ==
  ASSUME NEW r, NEW q \in {0, 4}, NEW w \in 0 .. 3
  PROVE  LET v == UOfWord(Quad(r, q), w) IN
         /\ v[0] = r[q][w] /\ v[1] = r[q + 1][w]
         /\ v[2] = r[q + 2][w] /\ v[3] = r[q + 3][w]
         /\ v[4] = r[q][w + 4] /\ v[5] = r[q + 1][w + 4]
         /\ v[6] = r[q + 2][w + 4] /\ v[7] = r[q + 3][w + 4]
<1> DEFINE a == r[q]
           b == r[q + 1]
           c == r[q + 2]
           d == r[q + 3]
           t0 == UnpackLo32(a, b)
           t1 == UnpackHi32(a, b)
           t2 == UnpackLo32(c, d)
           t3 == UnpackHi32(c, d)
           Holds(v, n) == /\ v[0] = a[n] /\ v[1] = b[n] /\ v[2] = c[n] /\ v[3] = d[n]
                          /\ v[4] = a[n + 4] /\ v[5] = b[n + 4]
                          /\ v[6] = c[n + 4] /\ v[7] = d[n + 4]
<1>1. /\ Holds(UnpackLo64(t0, t2), 0) /\ Holds(UnpackHi64(t0, t2), 1)
      /\ Holds(UnpackLo64(t1, t3), 2) /\ Holds(UnpackHi64(t1, t3), 3)
  <2> HIDE DEF a, b, c, d
  <2>0. /\ 0 + 4 = 4 /\ 1 + 4 = 5 /\ 2 + 4 = 6 /\ 3 + 4 = 7
    OBVIOUS
  <2>1. /\ t0[0] = a[0] /\ t0[1] = b[0] /\ t0[2] = a[1] /\ t0[3] = b[1]
        /\ t0[4] = a[4] /\ t0[5] = b[4] /\ t0[6] = a[5] /\ t0[7] = b[5]
        /\ t1[0] = a[2] /\ t1[1] = b[2] /\ t1[2] = a[3] /\ t1[3] = b[3]
        /\ t1[4] = a[6] /\ t1[5] = b[6] /\ t1[6] = a[7] /\ t1[7] = b[7]
    BY UnpackFacts
  <2>2. /\ t2[0] = c[0] /\ t2[1] = d[0] /\ t2[2] = c[1] /\ t2[3] = d[1]
        /\ t2[4] = c[4] /\ t2[5] = d[4] /\ t2[6] = c[5] /\ t2[7] = d[5]
        /\ t3[0] = c[2] /\ t3[1] = d[2] /\ t3[2] = c[3] /\ t3[3] = d[3]
        /\ t3[4] = c[6] /\ t3[5] = d[6] /\ t3[6] = c[7] /\ t3[7] = d[7]
    BY UnpackFacts
  <2> HIDE DEF t0, t1, t2, t3
  <2>3. Holds(UnpackLo64(t0, t2), 0)
    BY <2>0, <2>1, <2>2, UnpackFacts
  <2>4. Holds(UnpackHi64(t0, t2), 1)
    BY <2>0, <2>1, <2>2, UnpackFacts
  <2>5. Holds(UnpackLo64(t1, t3), 2)
    BY <2>0, <2>1, <2>2, UnpackFacts
  <2>6. Holds(UnpackHi64(t1, t3), 3)
    BY <2>0, <2>1, <2>2, UnpackFacts
  <2> QED BY <2>3, <2>4, <2>5, <2>6
<1>2. /\ UOfWord(Quad(r, q), 0) = UnpackLo64(t0, t2)
      /\ UOfWord(Quad(r, q), 1) = UnpackHi64(t0, t2)
      /\ UOfWord(Quad(r, q), 2) = UnpackLo64(t1, t3)
      /\ UOfWord(Quad(r, q), 3) = UnpackHi64(t1, t3)
  BY Lane8 DEF UOfWord, Quad
<1>3. w = 0 \/ w = 1 \/ w = 2 \/ w = 3
  OBVIOUS
<1> QED BY <1>1, <1>2, <1>3

LEMMA QuadHigh ==
  ASSUME NEW u, NEW w \in 0 .. 3 PROVE UOfWord(u, w + 4) = UOfWord(u, w)
<1>1. (w + 4) % 4 = w % 4
  OBVIOUS
<1> QED BY <1>1 DEF UOfWord

(* The same with the rows by their numbers. *)
LEMMA QuadRows ==
  ASSUME NEW r, NEW w \in 0 .. 3
  PROVE  /\ LET v == UOfWord(Quad(r, 0), w) IN
              /\ v[0] = r[0][w] /\ v[1] = r[1][w] /\ v[2] = r[2][w] /\ v[3] = r[3][w]
              /\ v[4] = r[0][w + 4] /\ v[5] = r[1][w + 4]
              /\ v[6] = r[2][w + 4] /\ v[7] = r[3][w + 4]
         /\ LET v == UOfWord(Quad(r, 4), w) IN
              /\ v[0] = r[4][w] /\ v[1] = r[5][w] /\ v[2] = r[6][w] /\ v[3] = r[7][w]
              /\ v[4] = r[4][w + 4] /\ v[5] = r[5][w + 4]
              /\ v[6] = r[6][w + 4] /\ v[7] = r[7][w + 4]
<1> DEFINE Holds(v, a, b, c, d) ==
             /\ v[0] = a[w] /\ v[1] = b[w] /\ v[2] = c[w] /\ v[3] = d[w]
             /\ v[4] = a[w + 4] /\ v[5] = b[w + 4] /\ v[6] = c[w + 4] /\ v[7] = d[w + 4]
<1>1. Holds(UOfWord(Quad(r, 0), w), r[0], r[0 + 1], r[0 + 2], r[0 + 3])
  BY QuadFacts
<1>2. Holds(UOfWord(Quad(r, 4), w), r[4], r[4 + 1], r[4 + 2], r[4 + 3])
  BY QuadFacts
<1>3. /\ 0 + 1 = 1 /\ 0 + 2 = 2 /\ 0 + 3 = 3 /\ 4 + 1 = 5 /\ 4 + 2 = 6 /\ 4 + 3 = 7
  OBVIOUS
<1> QED BY <1>1, <1>2, <1>3

LEMMA Transpose8Facts ==
  ASSUME NEW r, NEW w \in 0 .. 7, NEW l \in 0 .. 7
  PROVE  Transpose8(r)[w][l] = r[l][w]
<1> DEFINE a == UOfWord(Quad(r, 0), w)
           b == UOfWord(Quad(r, 4), w)
<1>1. Transpose8(r)[w] = IF w < 4 THEN PermuteLo(a, b) ELSE PermuteHi(a, b)
  BY DEF Transpose8
<1>2. l = 0 \/ l = 1 \/ l = 2 \/ l = 3 \/ l = 4 \/ l = 5 \/ l = 6 \/ l = 7
  OBVIOUS
<1>3. CASE w < 4
  <2>1. w \in 0 .. 3
    BY <1>3
  <2>2. /\ a[0] = r[0][w] /\ a[1] = r[1][w] /\ a[2] = r[2][w] /\ a[3] = r[3][w]
        /\ b[0] = r[4][w] /\ b[1] = r[5][w] /\ b[2] = r[6][w] /\ b[3] = r[7][w]
    BY <2>1, QuadRows
  <2> HIDE DEF a, b
  <2>3. PermuteLo(a, b)[l] = r[l][w]
    BY <1>2, <2>2 DEF PermuteLo
  <2> QED BY <1>1, <1>3, <2>3
<1>4. CASE ~(w < 4)
  <2>1. PICK v \in 0 .. 3 : w = v + 4
    <3>1. w - 4 \in 0 .. 3 /\ w = (w - 4) + 4
      BY <1>4
    <3> QED BY <3>1
  <2>2. /\ a[4] = r[0][w] /\ a[5] = r[1][w] /\ a[6] = r[2][w] /\ a[7] = r[3][w]
        /\ b[4] = r[4][w] /\ b[5] = r[5][w] /\ b[6] = r[6][w] /\ b[7] = r[7][w]
    <3>1. a = UOfWord(Quad(r, 0), v) /\ b = UOfWord(Quad(r, 4), v)
      BY <2>1, QuadHigh
    <3>2. LET x == UOfWord(Quad(r, 0), v) IN
            x[4] = r[0][v + 4] /\ x[5] = r[1][v + 4] /\ x[6] = r[2][v + 4] /\ x[7] = r[3][v + 4]
      BY QuadRows
    <3>3. LET x == UOfWord(Quad(r, 4), v) IN
            x[4] = r[4][v + 4] /\ x[5] = r[5][v + 4] /\ x[6] = r[6][v + 4] /\ x[7] = r[7][v + 4]
      BY QuadRows
    <3> HIDE DEF a, b
    <3> QED BY <2>1, <3>1, <3>2, <3>3
  <2> HIDE DEF a, b
  <2>3. PermuteHi(a, b)[l] = r[l][w]
    BY <1>2, <2>2 DEF PermuteHi
  <2> QED BY <1>1, <1>4, <2>3
<1> QED BY <1>3, <1>4

(* vtrnq_u32 and the halves, and the transpose of four words. *)
LEMMA Transpose4Facts ==
  ASSUME NEW r, NEW w \in 0 .. 3, NEW l \in 0 .. 3
  PROVE  Transpose4(r)[w][l] = r[l][w]
<1> DEFINE e0 == TrnEven(r[0], r[1])
           e2 == TrnEven(r[2], r[3])
           o0 == TrnOdd(r[0], r[1])
           o2 == TrnOdd(r[2], r[3])
<1>1. 0 + 1 = 1 /\ 2 + 1 = 3
  OBVIOUS
<1>2. /\ Transpose4(r)[0] = CombineLow(e0, e2) /\ Transpose4(r)[1] = CombineLow(o0, o2)
      /\ Transpose4(r)[2] = CombineHigh(e0, e2) /\ Transpose4(r)[3] = CombineHigh(o0, o2)
  BY <1>1 DEF Transpose4
<1>3. /\ e0[0] = r[0][0] /\ e0[1] = r[1][0] /\ e0[2] = r[0][2] /\ e0[3] = r[1][2]
      /\ e2[0] = r[2][0] /\ e2[1] = r[3][0] /\ e2[2] = r[2][2] /\ e2[3] = r[3][2]
  BY Lane8, SMT DEF TrnEven
<1>4. /\ o0[0] = r[0][1] /\ o0[1] = r[1][1] /\ o0[2] = r[0][3] /\ o0[3] = r[1][3]
      /\ o2[0] = r[2][1] /\ o2[1] = r[3][1] /\ o2[2] = r[2][3] /\ o2[3] = r[3][3]
  BY Lane8, SMT DEF TrnOdd
<1> HIDE DEF e0, e2, o0, o2
<1>5. ASSUME NEW a, NEW b
      PROVE  /\ LET v == CombineLow(a, b) IN
                  v[0] = a[0] /\ v[1] = a[1] /\ v[2] = b[0] /\ v[3] = b[1]
             /\ LET v == CombineHigh(a, b) IN
                  v[0] = a[2] /\ v[1] = a[3] /\ v[2] = b[2] /\ v[3] = b[3]
  BY SMT DEF CombineLow, CombineHigh
<1>6. (w = 0 \/ w = 1 \/ w = 2 \/ w = 3) /\ (l = 0 \/ l = 1 \/ l = 2 \/ l = 3)
  OBVIOUS
<1> QED BY <1>2, <1>3, <1>4, <1>5, <1>6

(***************************************************************************)
(* The gathers.                                                            *)
(***************************************************************************)
LEMMA OctetFacts ==
  ASSUME NEW ptrs, NEW n, NEW lo \in {0, 8}, NEW w \in 0 .. 15, NEW l \in 0 .. 7
  PROVE  Octet(ptrs, n, lo)[w][l] = Word(LanePtr(ptrs, n, lo + l), w)
<1> DEFINE k == 8 * (w \div 8)
           c == w % 8
           r == Rows(ptrs, n, lo, 8, k)
<1>1. c \in 0 .. 7 /\ k + c = w
  BY SMT
<1>2. Octet(ptrs, n, lo)[w][l] = Transpose8(r)[c][l]
  BY DEF Octet
<1> HIDE DEF k, c
<1>3. 8 - 1 = 7
  OBVIOUS
<1>4. r[l][c] = Word(LanePtr(ptrs, n, lo + l), k + c)
  BY <1>1, <1>3 DEF Rows
<1> HIDE DEF r
<1>5. Transpose8(r)[c][l] = r[l][c]
  BY <1>1, Transpose8Facts
<1> QED BY <1>1, <1>2, <1>4, <1>5

LEMMA QuartetFacts ==
  ASSUME NEW ptrs, NEW n, NEW lo \in {0, 4}, NEW w \in 0 .. 15, NEW l \in 0 .. 3
  PROVE  Quartet(ptrs, n, lo)[w][l] = Word(LanePtr(ptrs, n, lo + l), w)
<1> DEFINE k == 4 * (w \div 4)
           c == w % 4
           r == Rows(ptrs, n, lo, 4, k)
<1>1. c \in 0 .. 3 /\ k + c = w
  BY SMT
<1>2. Quartet(ptrs, n, lo)[w][l] = Transpose4(r)[c][l]
  BY DEF Quartet
<1> HIDE DEF k, c
<1>3. 4 - 1 = 3
  OBVIOUS
<1>4. r[l][c] = Word(LanePtr(ptrs, n, lo + l), k + c)
  BY <1>1, <1>3 DEF Rows
<1> HIDE DEF r
<1>5. Transpose4(r)[c][l] = r[l][c]
  BY <1>1, Transpose4Facts
<1> QED BY <1>1, <1>2, <1>4, <1>5

LEMMA JoinFacts ==
  ASSUME NEW lo, NEW hi, NEW width \in {4, 8}, NEW l \in 0 .. 2 * width - 1
  PROVE  Join(lo, hi, width)[l] = IF l < width THEN lo[l] ELSE hi[l - width]
BY DEF Join

(* gather_block of every adapter: lane l of register w holds word w of the *)
(* message of lane l; an unused lane holds that of the last message.       *)
THEOREM GatherTransposes ==
  ASSUME NEW k \in Kernels, NEW ptrs, NEW n,
         NEW w \in 0 .. BlockWords - 1, NEW l \in 0 .. LanesOf(k) - 1
  PROVE  Gather(k, ptrs, n)[w][l] = Word(LanePtr(ptrs, n, l), w)
<1>1. w \in 0 .. 15
  BY DEF BlockWords
<1>2. CASE k = "neon4"
  <2>1. l \in 0 .. 3 /\ 0 + l = l
    BY <1>2 DEF LanesOf
  <2>2. Gather(k, ptrs, n)[w][l] = Quartet(ptrs, n, 0)[w][l]
    BY <1>2 DEF Gather
  <2> QED BY <1>1, <2>1, <2>2, QuartetFacts
<1>3. CASE k = "avx2"
  <2>1. l \in 0 .. 7 /\ 0 + l = l
    BY <1>3 DEF LanesOf
  <2>2. Gather(k, ptrs, n)[w][l] = Octet(ptrs, n, 0)[w][l]
    BY <1>3 DEF Gather
  <2>3. Octet(ptrs, n, 0)[w][l] = Word(LanePtr(ptrs, n, 0 + l), w)
    BY <1>1, <2>1, OctetFacts
  <2> QED BY <2>1, <2>2, <2>3
<1>4. CASE k = "neon8"
  <2>1. l \in 0 .. 7 /\ l \in 0 .. 2 * 4 - 1
    BY <1>4 DEF LanesOf
  <2>2. Gather(k, ptrs, n)[w] = Join(Quartet(ptrs, n, 0)[w], Quartet(ptrs, n, 4)[w], 4)
    BY <1>1, <1>4 DEF Gather
  <2>3. CASE l < 4
    <3>1. l \in 0 .. 3 /\ 0 + l = l
      BY <2>1, <2>3
    <3>2. Gather(k, ptrs, n)[w][l] = Quartet(ptrs, n, 0)[w][l]
      BY <2>1, <2>2, <2>3, JoinFacts
    <3>3. Quartet(ptrs, n, 0)[w][l] = Word(LanePtr(ptrs, n, 0 + l), w)
      BY <1>1, <3>1, QuartetFacts
    <3> QED BY <3>1, <3>2, <3>3
  <2>4. CASE ~(l < 4)
    <3>1. l - 4 \in 0 .. 3 /\ 4 + (l - 4) = l
      BY <2>1, <2>4
    <3>2. Gather(k, ptrs, n)[w][l] = Quartet(ptrs, n, 4)[w][l - 4]
      BY <2>1, <2>2, <2>4, JoinFacts
    <3>3. Quartet(ptrs, n, 4)[w][l - 4] = Word(LanePtr(ptrs, n, 4 + (l - 4)), w)
      BY <1>1, <3>1, QuartetFacts
    <3> QED BY <3>1, <3>2, <3>3
  <2> QED BY <2>3, <2>4
<1>5. CASE k = "avx512"
  <2>1. l \in 0 .. 15 /\ l \in 0 .. 2 * 8 - 1
    BY <1>5 DEF LanesOf
  <2>2. Gather(k, ptrs, n)[w] = Join(Octet(ptrs, n, 0)[w], Octet(ptrs, n, 8)[w], 8)
    BY <1>1, <1>5 DEF Gather
  <2>3. CASE l < 8
    <3>1. l \in 0 .. 7 /\ 0 + l = l
      BY <2>1, <2>3
    <3>2. Gather(k, ptrs, n)[w][l] = Octet(ptrs, n, 0)[w][l]
      BY <2>1, <2>2, <2>3, JoinFacts
    <3>3. Octet(ptrs, n, 0)[w][l] = Word(LanePtr(ptrs, n, 0 + l), w)
      BY <1>1, <3>1, OctetFacts
    <3> QED BY <3>1, <3>2, <3>3
  <2>4. CASE ~(l < 8)
    <3>1. l - 8 \in 0 .. 7 /\ 8 + (l - 8) = l
      BY <2>1, <2>4
    <3>2. Gather(k, ptrs, n)[w][l] = Octet(ptrs, n, 8)[w][l - 8]
      BY <2>1, <2>2, <2>4, JoinFacts
    <3>3. ASSUME NEW j \in 0 .. 7
          PROVE  Octet(ptrs, n, 8)[w][j] = Word(LanePtr(ptrs, n, 8 + j), w)
      BY <1>1, OctetFacts
    <3> QED BY <3>1, <3>2, <3>3
  <2> QED BY <2>3, <2>4
<1> QED BY <1>2, <1>3, <1>4, <1>5 DEF Kernels

(***************************************************************************)
(* Groups and lanes.                                                       *)
(***************************************************************************)
(* The message in lane l of group q; unused lanes repeat the last one.     *)
Slot(q, l) == q * LANES + (IF l < GroupSize(q) THEN l ELSE GroupSize(q) - 1) + 1

Called ==
  /\ kernel \in Kernels /\ inputs \in Batches /\ MayCall(kernel, inputs)

LEMMA GroupFacts ==
  ASSUME Called
  PROVE  /\ LANES \in {4, 8, 16} /\ N \in Nat \ {0}
         /\ NGroups \in 1 .. MaxGroups
         /\ \A q \in 0 .. NGroups - 1 :
              /\ GroupSize(q) \in 1 .. LANES
              /\ \A l \in Lane : Slot(q, l) \in q * LANES + 1 .. q * LANES + GroupSize(q)
              /\ \A k \in q * LANES + 1 .. q * LANES + GroupSize(q) : k \in 1 .. N
              /\ \A k \in 1 .. N : k > q * LANES /\ k <= (q + 1) * LANES
                                <=> k \in q * LANES + 1 .. q * LANES + GroupSize(q)
         /\ N <= NGroups * LANES
<1> DEFINE L == LANES
           n == N
<1>1. L \in {4, 8, 16}
  BY DEF Called, LanesOf, Kernels, LANES
<1>2. n \in Nat \ {0}
  <2>1. inputs \in Seq(Seq(Byte)) /\ Len(inputs) >= 1
    BY BatchAssumption DEF Called, MayCall
  <2> QED BY <2>1, LenProperties, SMT DEF N
<1>3. (n + L - 1) \div L <= 4
  BY DEF Called, MayCall, Ceil, MaxGroups, N, LANES
<1>4. NGroups = (n + L - 1) \div L
  BY DEF NGroups, Ceil
<1>5. \A q : GroupSize(q) = IF (q + 1) * L <= n THEN L ELSE n - q * L
  BY DEF GroupSize
<1>6. Lane = 0 .. L - 1
  BY DEF Lane
<1>7. \A q, l : Slot(q, l) = q * L + (IF l < GroupSize(q) THEN l ELSE GroupSize(q) - 1) + 1
  BY DEF Slot
<1> HIDE DEF L, n
<1>8. NGroups \in 1 .. 4 /\ n <= NGroups * L /\ (NGroups - 1) * L < n
  <2>1. ASSUME L = 4 PROVE NGroups \in 1 .. 4 /\ n <= NGroups * L /\ (NGroups - 1) * L < n
    BY <1>2, <1>3, <1>4, <2>1, SMT
  <2>2. ASSUME L = 8 PROVE NGroups \in 1 .. 4 /\ n <= NGroups * L /\ (NGroups - 1) * L < n
    BY <1>2, <1>3, <1>4, <2>2, SMT
  <2>3. ASSUME L = 16 PROVE NGroups \in 1 .. 4 /\ n <= NGroups * L /\ (NGroups - 1) * L < n
    BY <1>2, <1>3, <1>4, <2>3, SMT
  <2> QED BY <1>1, <2>1, <2>2, <2>3
<1>9. ASSUME NEW q \in 0 .. NGroups - 1
      PROVE  /\ GroupSize(q) \in 1 .. L
             /\ \A l \in Lane : Slot(q, l) \in q * L + 1 .. q * L + GroupSize(q)
             /\ \A k \in q * L + 1 .. q * L + GroupSize(q) : k \in 1 .. n
             /\ \A k \in 1 .. n : k > q * L /\ k <= (q + 1) * L
                               <=> k \in q * L + 1 .. q * L + GroupSize(q)
  <2> DEFINE s == GroupSize(q)
  <2>1. q \in {0, 1, 2, 3} /\ q * L < n
    BY <1>1, <1>2, <1>8, SMT
  <2>2. s = IF (q + 1) * L <= n THEN L ELSE n - q * L
    BY <1>5
  <2>3. \A l : Slot(q, l) = q * L + (IF l < s THEN l ELSE s - 1) + 1
    BY <1>7
  <2> HIDE DEF s
  <2>4. s \in 1 .. L
    BY <1>1, <1>2, <2>1, <2>2, SMT
  <2>5. \A l \in Lane : Slot(q, l) \in q * L + 1 .. q * L + s
    BY <1>1, <1>6, <2>1, <2>3, <2>4, SMT
  <2>6. \A k \in q * L + 1 .. q * L + s : k \in 1 .. n
    BY <1>1, <1>2, <2>1, <2>2, SMT
  <2>7. \A k \in 1 .. n : k > q * L /\ k <= (q + 1) * L <=> k \in q * L + 1 .. q * L + s
    BY <1>1, <1>2, <2>1, <2>2, SMT
  <2> QED BY <2>4, <2>5, <2>6, <2>7 DEF s
<1>10. MaxGroups = 4
  BY DEF MaxGroups
<1> QED BY <1>1, <1>2, <1>8, <1>9, <1>10 DEF L, n

LEMMA SlotActive ==
  ASSUME NEW q, NEW l \in 0 .. GroupSize(q) - 1, GroupSize(q) \in Nat
  PROVE  Slot(q, l) = q * LANES + l + 1
BY DEF Slot

(* The messages of a call, and their complete blocks. *)
LEMMA MessageFacts ==
  ASSUME Called
  PROVE  /\ MessageLen \in Nat /\ NFull \in Nat
         /\ NFull * BlockSize = FullLen(MessageLen)
         /\ \A b \in 0 .. NFull : b * BlockSize \in 0 .. MessageLen
                               /\ (b * BlockSize) % BlockSize = 0
         /\ \A b \in 0 .. NFull - 1 : b * BlockSize + BlockSize = (b + 1) * BlockSize
                                   /\ (b + 1) * BlockSize <= MessageLen
         /\ \A k \in 1 .. N : inputs[k] \in Seq(Byte) /\ Len(inputs[k]) = MessageLen
<1>1. \A k \in 1 .. N : inputs[k] \in Seq(Byte) /\ Len(inputs[k]) = MessageLen
  <2>1. inputs \in Seq(Seq(Byte))
    BY BatchAssumption DEF Called
  <2>2. \A k \in 1 .. N : inputs[k] \in Seq(Byte)
    BY <2>1, ElementOfSeq DEF N
  <2>3. \A k \in 1 .. Len(inputs) : Len(inputs[k]) = Len(inputs[1])
    BY DEF Called, MayCall
  <2> QED BY <2>2, <2>3 DEF MessageLen, N
<1>2. MessageLen \in Nat
  <2>1. 1 \in 1 .. N
    BY GroupFacts
  <2> QED BY <1>1, <2>1, LenProperties
<1> DEFINE m == MessageLen
           B == BlockSize
           f == NFull
<1>3. B \in Nat \ {0}
  BY SizeAssumption
<1>4. f = m \div B
  BY DEF NFull
<1>5. FullLen(m) = m - (m % B)
  BY DEF FullLen
<1> HIDE DEF m, B, f
<1>6. m \in Nat
  BY <1>2 DEF m
<1>7. /\ f \in Int /\ m = B * f + (m % B) /\ m % B \in 0 .. B - 1
  BY <1>3, <1>4, <1>6, DivMod
<1>8. f \in Nat
  <2>1. f < 0 => B * f <= 0 - B
    BY <1>3, <1>7, SMT
  <2> QED BY <1>3, <1>6, <1>7, <2>1, SMT
<1>9. f * B = FullLen(m)
  BY <1>3, <1>5, <1>7, SMT
<1>10. ASSUME NEW b \in 0 .. f PROVE b * B \in 0 .. m /\ (b * B) % B = 0
  <2>1. b * B \in Nat /\ b * B <= f * B /\ b \in Int
    BY <1>3, <1>8, SMT
  <2>2. (0 + B * b) % B = 0 % B
    <3>1. 0 \in Int
      OBVIOUS
    <3>2. \A n \in Int, q \in Int : (n + B * q) % B = n % B
      BY <1>3, ModAddMultiple
    <3> QED BY <2>1, <3>1, <3>2
  <2>3. 0 % B = 0
    BY <1>3, ModSmall, SMT
  <2>4. b * B = 0 + B * b
    BY <1>3, <2>1, SMT
  <2>5. f * B <= m
    BY <1>3, <1>6, <1>7, SMT
  <2> QED BY <1>6, <2>1, <2>2, <2>3, <2>4, <2>5, <1>3, <1>8, SMT
<1>11. ASSUME NEW b \in 0 .. f - 1
       PROVE  b * B + B = (b + 1) * B /\ (b + 1) * B <= m
  <2>1. b + 1 \in 0 .. f
    BY <1>8
  <2> QED BY <1>3, <1>6, <1>10, <2>1, SMT
<1> QED BY <1>1, <1>6, <1>8, <1>9, <1>10, <1>11 DEF m, B, f

(***************************************************************************)
(* One block of every lane.                                                *)
(***************************************************************************)
(* What a gather from byte `start' on holds, group by group.               *)
Gathered(m, q, start) ==
  \A w \in 0 .. BlockWords - 1, l \in Lane :
    m[w][l] = [src |-> Slot(q, l), at |-> start + w * WordBytes]

LEMMA GatherGroupFacts ==
  ASSUME Called, NEW q \in 0 .. NGroups - 1, NEW start
  PROVE  Gathered(GatherGroup(q, start), q, start)
<1> DEFINE s == GroupSize(q)
           p == Pointers(q, start)
<1>1. s \in 1 .. LANES /\ LANES \in {4, 8, 16}
  BY GroupFacts
<1> SUFFICES ASSUME NEW w \in 0 .. BlockWords - 1, NEW l \in Lane
             PROVE  GatherGroup(q, start)[w][l]
                      = [src |-> Slot(q, l), at |-> start + w * WordBytes]
  BY DEF Gathered
<1>2. GatherGroup(q, start)[w][l] = Word(LanePtr(p, s, l), w)
  <2>1. kernel \in Kernels /\ l \in 0 .. LanesOf(kernel) - 1
    BY DEF Called, Lane, LANES
  <2>2. GatherGroup(q, start) = Gather(kernel, p, s)
    BY DEF GatherGroup
  <2> HIDE DEF p, s
  <2> QED BY <2>1, <2>2, GatherTransposes
<1>3. l \in Nat /\ (l < s => l \in 0 .. s - 1) /\ s - 1 \in 0 .. s - 1
  BY <1>1 DEF Lane
<1>4. LanePtr(p, s, l) = [src |-> Slot(q, l), start |-> start]
  BY <1>3 DEF LanePtr, Pointers, Slot
<1> HIDE DEF p, s
<1> QED BY <1>2, <1>4 DEF Word

(* The bytes that a lane loads are one block of its message.               *)
BlockAt(mem, k, start) == [j \in 1 .. BlockSize |-> mem[k][start + j]]

LEMMA LaneBlockFacts ==
  ASSUME NEW mem, NEW m, NEW q, NEW start \in Nat, Gathered(m, q, start), NEW l \in Lane
  PROVE  LaneBlock(mem, m, l) = BlockAt(mem, Slot(q, l), start)
<1> SUFFICES ASSUME NEW j \in 1 .. BlockSize
             PROVE  LET a == m[(j - 1) \div WordBytes][l]
                    IN  mem[a.src][a.at + ((j - 1) % WordBytes) + 1]
                          = mem[Slot(q, l)][start + j]
  BY DEF LaneBlock, BlockAt
<1> DEFINE W == WordBytes
           w == (j - 1) \div W
           c == (j - 1) % W
           k == Slot(q, l)
<1>1. W \in Nat \ {0} /\ BlockSize = 16 * W
  BY BlockAssumption DEF BlockWords
<1> HIDE DEF W
<1>2. j - 1 \in 0 .. 16 * W - 1
  BY <1>1, SMT
<1>3. w \in Int /\ j - 1 = W * w + c /\ c \in 0 .. W - 1
  BY <1>1, <1>2, DivMod
<1> HIDE DEF w, c, k
<1>4. w \in 0 .. 15
  <2>1. w < 0 => W * w <= 0 - W
    BY <1>1, <1>3, SMT
  <2>2. w >= 16 => W * w >= W * 16
    BY <1>1, <1>3, SMT
  <2> QED BY <1>1, <1>2, <1>3, <2>1, <2>2, SMT
<1>5. start + w * W + c + 1 = start + j
  BY <1>1, <1>3, SMT
<1>6. m[w][l] = [src |-> k, at |-> start + w * W]
  BY <1>4 DEF Gathered, BlockWords, W, k
<1>7. mem[m[w][l].src][m[w][l].at + c + 1] = mem[k][start + j]
  BY <1>5, <1>6
<1> QED BY <1>7 DEF w, c, k, W

LEMMA GroupBlockFacts ==
  ASSUME Called, NEW q \in 0 .. NGroups - 1, NEW start \in Nat, NEW mem, NEW l \in Lane
  PROVE  LaneBlock(mem, GatherGroup(q, start), l) = BlockAt(mem, Slot(q, l), start)
BY GatherGroupFacts, LaneBlockFacts

(* Absorbing the next block of a message. *)
LEMMA NextBlock ==
  ASSUME NEW s \in Seq(Byte), NEW n \in Nat, n + BlockSize <= Len(s)
  PROVE  LET block == [j \in 1 .. BlockSize |-> s[n + j]] IN
         /\ block \in Seq(Byte) /\ Len(block) = BlockSize
         /\ First(s, n) \o block = First(s, n + BlockSize)
<1> DEFINE block == [j \in 1 .. BlockSize |-> s[n + j]]
           B == BlockSize
           x == First(s, n)
           y == First(s, n + B)
<1>1. B \in Nat \ {0} /\ Len(s) \in Nat
  BY SizeAssumption, LenProperties
<1>2. block \in Seq(Byte) /\ Len(block) = B
  <2>1. \A j \in 1 .. B : s[n + j] \in Byte
    <3> SUFFICES ASSUME NEW j \in 1 .. B PROVE s[n + j] \in Byte
      OBVIOUS
    <3>1. n + j \in 1 .. Len(s)
      BY <1>1, SMT
    <3> QED BY <3>1, ElementOfSeq
  <2>2. block \in [1 .. B -> Byte]
    BY <2>1
  <2> HIDE DEF block
  <2> QED BY <1>1, <2>2, FunctionIsSeq
<1>3. \A j \in 1 .. B : block[j] = s[n + j]
  OBVIOUS
<1>4. n \in 0 .. Len(s) /\ n + B \in 0 .. Len(s)
  BY <1>1, SMT
<1>5. /\ x \in Seq(Byte) /\ Len(x) = n /\ \A i \in 1 .. n : x[i] = s[i]
      /\ y \in Seq(Byte) /\ Len(y) = n + B /\ \A i \in 1 .. n + B : y[i] = s[i]
  BY <1>4, FirstDrop
<1> HIDE DEF block, x, y, B
<1>6. /\ x \o block \in Seq(Byte) /\ Len(x \o block) = n + B
      /\ \A i \in 1 .. n + B : (x \o block)[i] = IF i <= n THEN x[i] ELSE block[i - n]
  BY <1>2, <1>5, ByteConcat
<1>7. ASSUME NEW i \in 1 .. n + B PROVE (x \o block)[i] = y[i]
  <2>1. CASE i <= n
    <3>1. i \in 1 .. n
      BY <1>1, <2>1
    <3> QED BY <1>5, <1>6, <2>1, <3>1
  <2>2. CASE ~(i <= n)
    <3>1. i - n \in 1 .. B /\ n + (i - n) = i
      BY <1>1, <2>2, SMT
    <3> QED BY <1>3, <1>5, <1>6, <2>2, <3>1
  <2> QED BY <2>1, <2>2
<1>8. x \o block = y
  BY <1>5, <1>6, <1>7, SeqEqual
<1> QED BY <1>2, <1>8 DEF x, y, block, B

LEMMA CompressFacts ==
  ASSUME NEW st \in Chain, NEW x \in Seq(Byte)
  PROVE  /\ CompressBlocks(st, x) \in Chain /\ CompressBlocks(st, x).seed = st.seed
         /\ Len(CompressBlocks(st, x).data) = Len(st.data) + Len(x)
         /\ \A y \in Seq(Byte) :
              CompressBlocks(CompressBlocks(st, x), y) = CompressBlocks(st, x \o y)
<1>1. st.data \in Seq(Byte) /\ st.seed \in {"iv", "zero"}
  BY DEF Chain
<1>2. st.data \o x \in Seq(Byte) /\ Len(st.data \o x) = Len(st.data) + Len(x)
  BY <1>1, ByteConcat
<1>3. \A y \in Seq(Byte) : (st.data \o x) \o y = st.data \o (x \o y)
  BY <1>1, ByteAssociative
<1> QED BY <1>1, <1>2, <1>3 DEF CompressBlocks, Chain

LEMMA IVFacts ==
  /\ IV \in Chain /\ IV.seed = "iv" /\ Len(IV.data) = 0
  /\ \A x \in Seq(Byte) : CompressBlocks(IV, x).data = x
<1>1. << >> \in Seq(Byte) /\ Len(<< >>) = 0
  BY EmptySeq
<1>2. \A x \in Seq(Byte) : << >> \o x = x
  BY ByteConcat
<1> QED BY <1>1, <1>2 DEF IV, Chain, CompressBlocks

(***************************************************************************)
(* The final blocks of every lane.                                         *)
(***************************************************************************)
Body(k, b) == CompressBlocks(IV, First(inputs[k], b * BlockSize))
PadLen == IF MessageLen - FullLen(MessageLen) <= MaxShortTail
          THEN BlockSize ELSE 2 * BlockSize

LEMMA BodyFacts ==
  ASSUME Called, NEW k \in 1 .. N, NEW b \in 0 .. NFull
  PROVE  /\ Body(k, b) \in Chain /\ Body(k, b).seed = "iv"
         /\ Len(Body(k, b).data) % BlockSize = 0
<1> DEFINE s == inputs[k]
           n == b * BlockSize
<1>1. s \in Seq(Byte) /\ Len(s) = MessageLen /\ n \in 0 .. MessageLen /\ n % BlockSize = 0
  BY MessageFacts
<1>2. Body(k, b) = CompressBlocks(IV, First(s, n))
  BY DEF Body
<1> HIDE DEF s, n
<1>3. First(s, n) \in Seq(Byte) /\ Len(First(s, n)) = n
  BY <1>1, FirstDrop
<1> QED BY <1>1, <1>2, <1>3, IVFacts, CompressFacts

LEMMA PadFacts ==
  ASSUME Called, NEW k \in 1 .. N
  PROVE  /\ Pad(k) \in Seq(Byte) /\ Len(Pad(k)) = PadLen
         /\ PadLen \in {BlockSize, 2 * BlockSize}
         /\ StateToBytes(CompressBlocks(Body(k, NFull), Pad(k))) = RfcDigest(inputs[k])
<1> DEFINE s == inputs[k]
           n == MessageLen
           tail == Drop(s, FullLen(n))
<1>1. /\ s \in Seq(Byte) /\ Len(s) = n /\ n \in Nat
      /\ NFull * BlockSize = FullLen(n)
  BY MessageFacts
<1>2. FullLen(n) \in 0 .. n /\ n - FullLen(n) \in 0 .. BlockSize - 1
  BY <1>1, FullLenFacts
<1>3. tail \in Seq(Byte) /\ Len(tail) = n - FullLen(n)
  BY <1>1, <1>2, FirstDrop
<1>4. n % CountMod \in Nat
  BY <1>1, SizeAssumption, DivMod
<1>5. Pad(k) = FinalBlocks(n % CountMod, tail)
  BY DEF Pad
<1>6. Pad(k) \in Seq(Byte) /\ Len(Pad(k)) = PadLen
  <2> HIDE DEF tail
  <2>1. Len(tail) < BlockSize
    BY <1>2, <1>3, SizeAssumption, SMT
  <2> QED BY <1>3, <1>4, <1>5, <2>1, FinalBlocksFacts DEF PadLen
<1>7. StateToBytes(CompressBlocks(Body(k, NFull), Pad(k))) = HashOptBulk(s)
  BY <1>1 DEF Body, Pad, HashOptBulk
<1>8. HashOptBulk(s) = RfcDigest(s)
  BY <1>1, HashWithCorrect
<1> QED BY <1>6, <1>7, <1>8 DEF PadLen

(* The padding of one lane, block by block. *)
LEMMA PadBlocks ==
  ASSUME NEW p \in Seq(Byte), NEW st \in Chain
  PROVE  LET Block(i) == [j \in 1 .. BlockSize |-> p[i * BlockSize + j]]
             one == CompressBlocks(st, Block(0))
         IN  /\ Len(p) = BlockSize => one = CompressBlocks(st, p)
             /\ Len(p) = 2 * BlockSize =>
                  CompressBlocks(one, Block(1)) = CompressBlocks(st, p)
<1> DEFINE B == BlockSize
           Block(i) == [j \in 1 .. B |-> p[i * B + j]]
           a == [j \in 1 .. B |-> p[0 + j]]
           b == [j \in 1 .. B |-> p[B + j]]
<1>1. B \in Nat \ {0} /\ 0 * B = 0 /\ 1 * B = B /\ 0 + B = B /\ B + B = 2 * B
  BY SizeAssumption, SMT
<1>2. Block(0) = a /\ Block(1) = b
  BY <1>1
<1>3. First(p, 0) = << >> /\ First(p, Len(p)) = p
  <2>1. SubSeq(p, 1, 0) = << >>
    BY SubSeqEmpty, SMT
  <2> QED BY <2>1, SubSeqFull DEF First
<1>4. ASSUME Len(p) >= B PROVE a \in Seq(Byte) /\ a = First(p, B)
  <2>1. a \in Seq(Byte) /\ First(p, 0) \o a = First(p, 0 + B)
    BY <1>1, <1>4, NextBlock
  <2> HIDE DEF a
  <2>2. << >> \o a = a
    BY <2>1, ByteConcat
  <2> QED BY <1>1, <1>3, <2>1, <2>2
<1>5. ASSUME Len(p) = 2 * B PROVE b \in Seq(Byte) /\ First(p, B) \o b = p
  <2>1. B \in Nat /\ B + B <= Len(p)
    BY <1>1, <1>5
  <2>2. b \in Seq(Byte) /\ First(p, B) \o b = First(p, B + B)
    BY <2>1, NextBlock
  <2> QED BY <1>1, <1>3, <1>5, <2>2
<1> HIDE DEF a, b
<1>6. Len(p) = B => CompressBlocks(st, a) = CompressBlocks(st, p)
  BY <1>1, <1>3, <1>4
<1>7. ASSUME Len(p) = 2 * B
      PROVE  CompressBlocks(CompressBlocks(st, a), b) = CompressBlocks(st, p)
  <2>1. Len(p) >= B
    BY <1>1, <1>7
  <2>2. a \in Seq(Byte) /\ b \in Seq(Byte) /\ a \o b = p
    BY <1>4, <1>5, <1>7, <2>1
  <2> QED BY <2>2, CompressFacts
<1> QED BY <1>2, <1>6, <1>7

(***************************************************************************)
(* The inductive invariant: every lane, unused ones included, has absorbed *)
(* the first bi blocks of the message in its slot and, in groups padded    *)
(* already, the padding; what is gathered is the block that comes next.    *)
(***************************************************************************)
Absorbed(q, l, b, h) ==
  IF q < h THEN CompressBlocks(Body(Slot(q, l), b), Pad(Slot(q, l)))
  ELSE IF q < NGroups THEN Body(Slot(q, l), b) ELSE IV

StatesOK(sts, b, h) ==
  /\ sts \in [1 .. MaxGroups -> [Lane -> Chain]]
  /\ \A q \in 0 .. MaxGroups - 1, l \in Lane : sts[q + 1][l] = Absorbed(q, l, b, h)

OutputsOK(outs, h) ==
  /\ Len(outs) \in Nat /\ N <= Len(outs)
  /\ \A k \in 1 .. Len(outs) :
       outs[k] = IF k <= N /\ k <= h * LANES THEN RfcDigest(inputs[k]) ELSE Untouched

GatheredAll(c, b) ==
  /\ Len(c) = NGroups
  /\ \A q \in 0 .. NGroups - 1 : Gathered(c[q + 1], q, b * BlockSize)
CurOK(c, p, b) ==
  /\ Len(c) = 0 \/ \E a \in 0 .. NFull - 1 : GatheredAll(c, a)
  /\ p = "pipelined" => GatheredAll(c, b)

PlaceOK(p, b, h) ==
  /\ b \in 0 .. NFull /\ h \in 0 .. NGroups
  /\ \/ p = "enter" /\ b = 0 /\ h = 0
     \/ p = "sequential" /\ h = 0
     \/ p = "prefetch" /\ b = 0 /\ h = 0 /\ NFull > 0
     \/ p = "pipelined" /\ h = 0 /\ b < NFull
     \/ p = "pad" /\ b = NFull
     \/ p = "done" /\ b = NFull /\ h = NGroups

Inv ==
  /\ Called /\ PlaceOK(phase, bi, g) /\ CurOK(cur, phase, bi)
  /\ StatesOK(states, bi, g) /\ OutputsOK(outputs, g)

LEMMA SameCall ==
  ASSUME UNCHANGED <<kernel, inputs>>
  PROVE  /\ N' = N /\ LANES' = LANES /\ Lane' = Lane /\ MessageLen' = MessageLen
         /\ NFull' = NFull /\ NGroups' = NGroups
         /\ Called => Called'
<1>1. N' = N /\ LANES' = LANES /\ MessageLen' = MessageLen
  BY DEF N, LANES, MessageLen
<1> QED BY <1>1 DEF Lane, NFull, NGroups, Called

LEMMA InvKept ==
  ASSUME Inv, UNCHANGED <<kernel, inputs>>,
         PlaceOK(phase', bi', g'), CurOK(cur', phase', bi'),
         StatesOK(states', bi', g'), OutputsOK(outputs', g')
  PROVE  Inv'
<1>1. Called' /\ PlaceOK(phase, bi, g)'
  BY SameCall DEF Inv, PlaceOK
<1>2. CurOK(cur, phase, bi)'
  BY SameCall DEF CurOK, GatheredAll, Gathered, Slot, GroupSize
<1>3. StatesOK(states, bi, g)'
  BY SameCall DEF StatesOK, Absorbed, Body, Pad, Slot, GroupSize
<1>4. OutputsOK(outputs, g)'
  BY SameCall DEF OutputsOK
<1> QED BY <1>1, <1>2, <1>3, <1>4 DEF Inv

LEMMA InitInv == Init => Inv
<1> SUFFICES ASSUME Init PROVE Inv
  OBVIOUS
<1>1. Called
  BY DEF Init, Called, N
<1>2. N \in Nat /\ NFull \in Nat /\ NGroups \in 1 .. MaxGroups /\ LANES \in {4, 8, 16}
  BY <1>1, GroupFacts, MessageFacts
<1>3. PlaceOK(phase, bi, g)
  BY <1>2, SMT DEF Init, PlaceOK
<1>4. CurOK(cur, phase, bi)
  BY EmptySeq DEF Init, CurOK
<1>5. StatesOK(states, bi, g)
  <2>1. states \in [1 .. MaxGroups -> [Lane -> Chain]]
    BY IVFacts DEF Init
  <2>2. ASSUME NEW q \in 0 .. MaxGroups - 1, NEW l \in Lane
        PROVE  states[q + 1][l] = Absorbed(q, l, bi, g)
    <3>1. states[q + 1][l] = IV
      BY DEF Init, MaxGroups
    <3>2. CASE q < NGroups
      <4>1. q \in 0 .. NGroups - 1 /\ ~(q < 0)
        BY <1>2, <3>2
      <4>2. Slot(q, l) \in 1 .. N
        BY <1>1, <4>1, GroupFacts
      <4>3. Body(Slot(q, l), 0) = IV
        <5>1. 0 \in 0 .. MessageLen /\ 0 * BlockSize = 0
          BY <1>1, MessageFacts, SizeAssumption, SMT
        <5>2. inputs[Slot(q, l)] \in Seq(Byte)
          BY <1>1, <4>2, MessageFacts
        <5>3. First(inputs[Slot(q, l)], 0) = << >>
          BY SubSeqEmpty, SMT DEF First
        <5>4. << >> \o << >> = << >>
          BY EmptySeq, ByteConcat
        <5> QED BY <5>1, <5>3, <5>4 DEF Body, CompressBlocks, IV
      <4> QED BY <3>1, <3>2, <4>1, <4>3 DEF Absorbed, Init
    <3>3. CASE ~(q < NGroups)
      <4>1. ~(q < 0)
        BY SMT
      <4> QED BY <3>1, <3>3, <4>1 DEF Absorbed, Init
    <3> QED BY <3>2, <3>3
  <2> QED BY <2>1, <2>2 DEF StatesOK
<1>6. OutputsOK(outputs, g)
  <2>1. PICK s \in Slack : outputs = [k \in 1 .. N + s |-> Untouched]
    BY DEF Init, N
  <2>2. s \in Nat /\ N + s \in Nat
    BY <1>2, <2>1, BatchAssumption
  <2>3. outputs \in [1 .. N + s -> {Untouched}]
    BY <2>1
  <2>4. Len(outputs) = N + s
    BY <2>2, <2>3, FunctionIsSeq
  <2>5. ASSUME NEW k \in 1 .. Len(outputs)
        PROVE  outputs[k] = Untouched /\ ~(k <= g * LANES)
    <3>1. g * LANES = 0
      BY <1>2 DEF Init
    <3> QED BY <2>1, <2>4, <3>1, <2>2
  <2> QED BY <1>2, <2>2, <2>4, <2>5 DEF OutputsOK
<1> QED BY <1>1, <1>3, <1>4, <1>5, <1>6 DEF Inv

(***************************************************************************)
(* The steps.                                                              *)
(***************************************************************************)
LEMMA GatherGroupsFacts ==
  ASSUME Called, NEW b \in 0 .. NFull - 1
  PROVE  GatheredAll(GatherGroups(b * BlockSize), b)
<1> DEFINE c == GatherGroups(b * BlockSize)
           n == NGroups
<1>1. n \in 1 .. MaxGroups
  BY GroupFacts
<1>2. n \in Nat
  BY <1>1 DEF MaxGroups
<1>3. c = [q \in 1 .. n |-> GatherGroup(q - 1, b * BlockSize)]
  BY DEF GatherGroups
<1> HIDE DEF c, n
<1>4. Len(c) = n
  <2> DEFINE S == {c[q] : q \in 1 .. n}
  <2>1. c \in [1 .. n -> S]
    BY <1>3
  <2> HIDE DEF S
  <2> QED BY <1>2, <2>1, FunctionIsSeq
<1>5. ASSUME NEW q \in 0 .. n - 1 PROVE Gathered(c[q + 1], q, b * BlockSize)
  <2>1. q + 1 \in 1 .. n /\ (q + 1) - 1 = q
    BY <1>2
  <2>2. c[q + 1] = GatherGroup(q, b * BlockSize)
    BY <1>3, <2>1
  <2> QED BY <2>2, GatherGroupFacts DEF n
<1> QED BY <1>4, <1>5 DEF GatheredAll, c, n

(* One round of compress over all groups, by whatever loop. *)
LEMMA CompressGroupsFacts ==
  ASSUME Called, NEW b \in 0 .. NFull - 1, NEW sts, StatesOK(sts, b, 0),
         NEW c, GatheredAll(c, b)
  PROVE  StatesOK(CompressGroups(sts, c), b + 1, 0)
<1> DEFINE t == CompressGroups(sts, c)
<1>1. /\ NGroups \in 1 .. MaxGroups /\ MaxGroups = 4 /\ Len(c) = NGroups
      /\ NFull \in Nat /\ b \in 0 .. NFull /\ b + 1 \in 0 .. NFull
  BY GroupFacts, MessageFacts DEF MaxGroups, GatheredAll
<1>2. ASSUME NEW q \in 0 .. MaxGroups - 1, NEW l \in Lane
      PROVE  t[q + 1][l] = Absorbed(q, l, b + 1, 0) /\ t[q + 1][l] \in Chain
  <2>1. q + 1 \in 1 .. MaxGroups /\ ~(q < 0)
    BY <1>1
  <2>2. sts[q + 1][l] = Absorbed(q, l, b, 0) /\ sts[q + 1][l] \in Chain
    BY <2>1 DEF StatesOK
  <2>3. CASE q < NGroups
    <3> DEFINE k == Slot(q, l)
               n == b * BlockSize
               block == [j \in 1 .. BlockSize |-> inputs[k][n + j]]
    <3>1. q \in 0 .. NGroups - 1 /\ q + 1 <= Len(c)
      BY <1>1, <2>3
    <3>2. k \in 1 .. N
      BY <3>1, GroupFacts
    <3>3. t[q + 1][l] = CompressBlocks(sts[q + 1][l], LaneBlock(inputs, c[q + 1], l))
      BY <2>1, <3>1 DEF CompressGroups, CompressLanes
    <3>4. n \in Nat /\ n + BlockSize = (b + 1) * BlockSize /\ n + BlockSize <= MessageLen
      BY <1>1, MessageFacts
    <3>5. LaneBlock(inputs, c[q + 1], l) = block
      <4>1. Gathered(c[q + 1], q, n)
        BY <3>1 DEF GatheredAll
      <4>2. LaneBlock(inputs, c[q + 1], l) = BlockAt(inputs, Slot(q, l), n)
        BY <3>4, <4>1, LaneBlockFacts
      <4> QED BY <4>2 DEF BlockAt
    <3>6. /\ block \in Seq(Byte)
          /\ First(inputs[k], n) \o block = First(inputs[k], n + BlockSize)
      <4>1. inputs[k] \in Seq(Byte) /\ n + BlockSize <= Len(inputs[k])
        BY <3>2, <3>4, MessageFacts
      <4> QED BY <3>4, <4>1, NextBlock
    <3>7. First(inputs[k], n) \in Seq(Byte)
      <4>1. inputs[k] \in Seq(Byte) /\ n \in 0 .. Len(inputs[k])
        BY <1>1, <3>2, MessageFacts
      <4> QED BY <4>1, FirstDrop
    <3>8. sts[q + 1][l] = CompressBlocks(IV, First(inputs[k], n))
      BY <2>1, <2>2, <2>3 DEF Absorbed, Body
    <3>9. Absorbed(q, l, b + 1, 0) = CompressBlocks(IV, First(inputs[k], n + BlockSize))
      BY <2>1, <2>3, <3>4 DEF Absorbed, Body
    <3> HIDE DEF k, n, block
    <3>10. t[q + 1][l] = Absorbed(q, l, b + 1, 0)
      <4> DEFINE x == First(inputs[k], n)
      <4>1. CompressBlocks(CompressBlocks(IV, x), block) = CompressBlocks(IV, x \o block)
        BY <3>6, <3>7, IVFacts, CompressFacts
      <4> QED BY <3>3, <3>5, <3>6, <3>8, <3>9, <4>1
    <3>11. t[q + 1][l] \in Chain
      BY <2>2, <3>3, <3>5, <3>6, CompressFacts
    <3> QED BY <3>10, <3>11
  <2>4. CASE ~(q < NGroups)
    <3>1. ~(q + 1 <= Len(c))
      BY <1>1, <2>4
    <3>2. t[q + 1] = sts[q + 1]
      BY <2>1, <3>1 DEF CompressGroups
    <3>3. Absorbed(q, l, b + 1, 0) = Absorbed(q, l, b, 0)
      BY <2>1, <2>4 DEF Absorbed
    <3> QED BY <2>2, <3>2, <3>3
  <2> QED BY <2>3, <2>4
<1>3. t \in [1 .. MaxGroups -> [Lane -> Chain]]
  <2>1. ASSUME NEW q \in 1 .. MaxGroups PROVE t[q] \in [Lane -> Chain]
    <3>1. q - 1 \in 0 .. MaxGroups - 1 /\ (q - 1) + 1 = q
      BY <1>1
    <3>2. \A l \in Lane : t[q][l] \in Chain
      BY <1>2, <3>1
    <3>3. CASE q <= Len(c)
      <4>1. t[q] = CompressLanes(sts[q], inputs, c[q])
        BY <3>3 DEF CompressGroups
      <4>2. t[q] = [l \in Lane |-> t[q][l]]
        BY <4>1 DEF CompressLanes
      <4> HIDE DEF t
      <4> QED BY <3>2, <4>2
    <3>4. CASE ~(q <= Len(c))
      <4>1. t[q] = sts[q]
        BY <3>4 DEF CompressGroups
      <4> QED BY <4>1 DEF StatesOK
    <3> QED BY <3>3, <3>4
  <2>2. t = [q \in 1 .. MaxGroups |-> t[q]]
    BY DEF CompressGroups
  <2> HIDE DEF t
  <2> QED BY <2>1, <2>2
<1> QED BY <1>2, <1>3 DEF StatesOK

LEMMA EnterInv == ASSUME Inv, Enter PROVE Inv'
<1>1. /\ phase = "enter" /\ bi = 0 /\ g = 0 /\ Called
      /\ NFull \in Nat /\ NGroups \in 1 .. MaxGroups /\ MaxGroups = 4
  BY GroupFacts, MessageFacts DEF Inv, Enter, PlaceOK, MaxGroups
<1>2. UNCHANGED <<kernel, inputs, outputs, states, cur, bi, g>>
  BY DEF Enter
<1>3. \/ phase' = "pad" /\ NFull = 0
      \/ phase' = "sequential"
      \/ phase' = "prefetch" /\ NFull > 0
  BY <1>1 DEF Enter
<1>4. PlaceOK(phase', bi', g')
  BY <1>1, <1>2, <1>3 DEF PlaceOK
<1>5. CurOK(cur', phase', bi')
  BY <1>2, <1>3 DEF Inv, CurOK
<1> QED BY <1>2, <1>4, <1>5, InvKept DEF Inv

LEMMA SequentialInv == ASSUME Inv, Sequential \/ SequentialDone PROVE Inv'
<1>1. /\ phase = "sequential" /\ g = 0 /\ Called /\ bi \in 0 .. NFull
      /\ NFull \in Nat /\ NGroups \in 1 .. MaxGroups
      /\ UNCHANGED <<kernel, inputs, outputs, g>>
  BY GroupFacts, MessageFacts DEF Inv, Sequential, SequentialDone, PlaceOK
<1>2. CASE Sequential
  <2>1. /\ bi \in 0 .. NFull - 1 /\ bi' = bi + 1 /\ phase' = "sequential"
        /\ cur' = GatherGroups(bi * BlockSize) /\ states' = CompressGroups(states, cur')
    BY <1>1, <1>2 DEF Sequential
  <2>2. GatheredAll(cur', bi)
    BY <1>1, <2>1, GatherGroupsFacts
  <2>3. StatesOK(states', bi', g')
    BY <1>1, <2>1, <2>2, CompressGroupsFacts DEF Inv
  <2>4. CurOK(cur', phase', bi')
    BY <2>1, <2>2 DEF CurOK
  <2>5. PlaceOK(phase', bi', g')
    BY <1>1, <2>1 DEF PlaceOK, MaxGroups
  <2> QED BY <1>1, <2>3, <2>4, <2>5, InvKept DEF Inv
<1>3. CASE SequentialDone
  <2>1. phase' = "pad" /\ bi = NFull /\ UNCHANGED <<states, cur, bi>>
    BY <1>3 DEF SequentialDone
  <2>2. PlaceOK(phase', bi', g') /\ CurOK(cur', phase', bi')
    BY <1>1, <2>1 DEF Inv, PlaceOK, CurOK
  <2> QED BY <1>1, <2>1, <2>2, InvKept DEF Inv
<1> QED BY <1>2, <1>3

LEMMA PipelinedInv == ASSUME Inv, Prefetch \/ Pipelined PROVE Inv'
<1>1. /\ g = 0 /\ Called /\ NFull \in Nat /\ NGroups \in 1 .. MaxGroups
      /\ bi \in 0 .. NFull - 1 /\ UNCHANGED <<kernel, inputs, outputs, g>>
  BY GroupFacts, MessageFacts DEF Inv, Prefetch, Pipelined, PlaceOK
<1>2. CASE Prefetch
  <2>1. /\ bi = 0 /\ bi' = bi /\ phase' = "pipelined" /\ UNCHANGED states
        /\ cur' = GatherGroups(0)
    BY <1>2 DEF Inv, PlaceOK, Prefetch
  <2>2. 0 * BlockSize = 0
    BY SizeAssumption, SMT
  <2>3. GatheredAll(cur', bi)
    BY <1>1, <2>1, <2>2, GatherGroupsFacts
  <2>4. CurOK(cur', phase', bi')
    BY <1>1, <2>1, <2>3 DEF CurOK
  <2>5. PlaceOK(phase', bi', g')
    BY <1>1, <2>1 DEF Inv, PlaceOK
  <2> QED BY <1>1, <2>1, <2>4, <2>5, InvKept DEF Inv
<1>3. CASE Pipelined
  <2>1. /\ phase = "pipelined" /\ bi' = bi + 1 /\ states' = CompressGroups(states, cur)
        /\ GatheredAll(cur, bi)
    BY <1>3 DEF Pipelined, Inv, CurOK
  <2>2. StatesOK(states', bi', g')
    BY <1>1, <2>1, CompressGroupsFacts DEF Inv
  <2>3. CASE bi + 1 < NFull
    <3>1. /\ phase' = "pipelined" /\ cur' = GatherGroups((bi + 1) * BlockSize)
          /\ bi + 1 \in 0 .. NFull - 1
      BY <1>1, <1>3, <2>1, <2>3 DEF Pipelined
    <3>2. GatheredAll(cur', bi + 1)
      BY <1>1, <3>1, GatherGroupsFacts
    <3>3. CurOK(cur', phase', bi')
      BY <2>1, <3>1, <3>2 DEF CurOK
    <3>4. PlaceOK(phase', bi', g')
      BY <1>1, <2>1, <2>3, <3>1 DEF PlaceOK, MaxGroups
    <3> QED BY <1>1, <2>2, <3>3, <3>4, InvKept DEF Inv
  <2>4. CASE ~(bi + 1 < NFull)
    <3>1. phase' = "pad" /\ cur' = cur /\ bi + 1 = NFull
      BY <1>1, <1>3, <2>4 DEF Pipelined
    <3>2. CurOK(cur', phase', bi')
      BY <3>1 DEF Inv, CurOK
    <3>3. PlaceOK(phase', bi', g')
      BY <1>1, <2>1, <3>1 DEF PlaceOK, MaxGroups
    <3> QED BY <1>1, <2>2, <3>2, <3>3, InvKept DEF Inv
  <2> QED BY <2>3, <2>4
<1> QED BY <1>2, <1>3

(* Padding one group, all its lanes at once. *)
PaddedOf(pad, q, st) ==
  LET step(sts, pi) == CompressLanes(sts, pad, GatherGroup(q, pi * BlockSize))
      one == step(st, 0)
  IN  IF PadLen = BlockSize THEN one ELSE step(one, 1)

LEMMA PaddedFacts ==
  ASSUME Called, NEW q \in 0 .. NGroups - 1, NEW st \in [Lane -> Chain], NEW pad,
         \A k \in q * LANES + 1 .. q * LANES + GroupSize(q) : pad[k] = Pad(k)
  PROVE  /\ PaddedOf(pad, q, st) \in [Lane -> Chain]
         /\ \A l \in Lane :
              PaddedOf(pad, q, st)[l] = CompressBlocks(st[l], Pad(Slot(q, l)))
<1> DEFINE t == PaddedOf(pad, q, st)
           m(pi) == GatherGroup(q, pi * BlockSize)
           one == CompressLanes(st, pad, m(0))
           two == CompressLanes(one, pad, m(1))
<1>1. t = IF PadLen = BlockSize THEN one ELSE two
  BY DEF PaddedOf
<1>2. ASSUME NEW l \in Lane
      PROVE  t[l] = CompressBlocks(st[l], Pad(Slot(q, l))) /\ t[l] \in Chain
  <2> DEFINE k == Slot(q, l)
             p == Pad(k)
             Block(i) == [j \in 1 .. BlockSize |-> p[i * BlockSize + j]]
  <2>1. pad[k] = p /\ k \in 1 .. N
    BY GroupFacts
  <2>2. p \in Seq(Byte) /\ Len(p) = PadLen /\ PadLen \in {BlockSize, 2 * BlockSize}
    BY <2>1, PadFacts
  <2>3. ASSUME NEW i \in {0, 1} PROVE LaneBlock(pad, m(i), l) = Block(i)
    <3> DEFINE n == i * BlockSize
    <3>1. n \in Nat
      BY SizeAssumption, SMT
    <3> HIDE DEF n
    <3>2. LaneBlock(pad, GatherGroup(q, n), l) = BlockAt(pad, Slot(q, l), n)
      BY <3>1, GroupBlockFacts
    <3> QED BY <2>1, <3>2 DEF n, BlockAt
  <2>4. one[l] = CompressBlocks(st[l], LaneBlock(pad, m(0), l))
    BY DEF CompressLanes
  <2>5. two[l] = CompressBlocks(one[l], LaneBlock(pad, m(1), l))
    BY DEF CompressLanes
  <2>6. st[l] \in Chain
    OBVIOUS
  <2>7. /\ Len(p) = BlockSize =>
             CompressBlocks(st[l], Block(0)) = CompressBlocks(st[l], p)
        /\ Len(p) = 2 * BlockSize =>
             CompressBlocks(CompressBlocks(st[l], Block(0)), Block(1))
               = CompressBlocks(st[l], p)
    <3> HIDE DEF p
    <3> QED BY <2>2, <2>6, PadBlocks
  <2>8. /\ LaneBlock(pad, m(0), l) = Block(0) /\ LaneBlock(pad, m(1), l) = Block(1)
    BY <2>3
  <2> HIDE DEF one, two, m, p, Block, t
  <2>9. t[l] = CompressBlocks(st[l], p)
    BY <1>1, <2>2, <2>4, <2>5, <2>7, <2>8
  <2> QED BY <2>2, <2>6, <2>9, CompressFacts DEF p
<1>3. t = [l \in Lane |-> t[l]]
  <2>1. one = [l \in Lane |-> one[l]] /\ two = [l \in Lane |-> two[l]]
    BY DEF CompressLanes
  <2> HIDE DEF one, two, t
  <2> QED BY <1>1, <2>1
<1> HIDE DEF t
<1>4. t \in [Lane -> Chain]
  BY <1>2, <1>3
<1> QED BY <1>2, <1>4 DEF t

LEMMA PadGroupInv == ASSUME Inv, PadGroup PROVE Inv'
<1> DEFINE lo == g * LANES
           s == GroupSize(g)
           pad == [k \in lo + 1 .. lo + s |-> Pad(k)]
           padded == PaddedOf(pad, g, states[g + 1])
<1>1. /\ Called /\ phase = "pad" /\ bi = NFull /\ g \in 0 .. NGroups - 1 /\ g' = g + 1
      /\ NFull \in Nat /\ NGroups \in 1 .. MaxGroups /\ MaxGroups = 4
      /\ UNCHANGED <<kernel, inputs, cur, bi, phase>>
  BY GroupFacts, MessageFacts DEF Inv, PlaceOK, PadGroup, MaxGroups
<1>2. /\ LANES \in {4, 8, 16} /\ N \in Nat /\ s \in 1 .. LANES
      /\ \A k \in lo + 1 .. lo + s : k \in 1 .. N
      /\ \A k \in 1 .. N : k > lo /\ k <= (g + 1) * LANES <=> k \in lo + 1 .. lo + s
      /\ \A l \in Lane : Slot(g, l) \in lo + 1 .. lo + s
  BY <1>1, GroupFacts
<1>3. g + 1 \in 1 .. MaxGroups /\ g \in 0 .. MaxGroups - 1 /\ lo \in Nat
  BY <1>1, <1>2, SMT
<1>4. states[g + 1] \in [Lane -> Chain]
  BY <1>3 DEF Inv, StatesOK
<1>5. Len(pad[lo + 1]) = PadLen
  <2>1. lo + 1 \in lo + 1 .. lo + s
    BY <1>2, <1>3, SMT
  <2>2. pad[lo + 1] = Pad(lo + 1) /\ lo + 1 \in 1 .. N
    BY <1>2, <2>1
  <2> QED BY <1>1, <2>2, PadFacts
<1>6. /\ states' = [states EXCEPT ![g + 1] = padded]
      /\ outputs' = [k \in 1 .. Len(outputs) |->
                       IF k \in lo + 1 .. lo + s
                       THEN StateToBytes(padded[k - lo - 1]) ELSE outputs[k]]
  BY <1>5 DEF PadGroup, PaddedOf
<1>7. /\ padded \in [Lane -> Chain]
      /\ \A l \in Lane : padded[l] = CompressBlocks(states[g + 1][l], Pad(Slot(g, l)))
  <2>1. \A k \in lo + 1 .. lo + s : pad[k] = Pad(k)
    OBVIOUS
  <2> HIDE DEF pad
  <2> QED BY <1>1, <1>4, <2>1, PaddedFacts DEF s, lo
<1>8. ASSUME NEW l \in Lane
      PROVE  /\ padded[l] = CompressBlocks(Body(Slot(g, l), NFull), Pad(Slot(g, l)))
             /\ padded[l] = Absorbed(g, l, NFull, g + 1)
  <2>1. states[g + 1][l] = Absorbed(g, l, NFull, g)
    BY <1>1, <1>3 DEF Inv, StatesOK
  <2>2. ~(g < g) /\ g < g + 1 /\ g < NGroups
    BY <1>1, <1>3, SMT
  <2>3. Absorbed(g, l, NFull, g) = Body(Slot(g, l), NFull)
    BY <2>2 DEF Absorbed
  <2> HIDE DEF padded
  <2> QED BY <1>7, <2>1, <2>2, <2>3 DEF Absorbed
<1> HIDE DEF padded, pad
<1>9. StatesOK(states', bi', g')
  <2>1. states' \in [1 .. MaxGroups -> [Lane -> Chain]]
    BY <1>6, <1>7 DEF Inv, StatesOK
  <2>2. ASSUME NEW q \in 0 .. MaxGroups - 1, NEW l \in Lane
        PROVE  states'[q + 1][l] = Absorbed(q, l, bi', g')
    <3>1. CASE q = g
      <4>1. states'[q + 1] = padded
        BY <1>3, <1>6, <3>1 DEF Inv, StatesOK
      <4> QED BY <1>1, <1>8, <3>1, <4>1
    <3>2. CASE q # g
      <4>1. q + 1 # g + 1 /\ q + 1 \in 1 .. MaxGroups /\ (q < g <=> q < g + 1)
        BY <1>1, <1>3, <3>2, SMT
      <4>2. states'[q + 1] = states[q + 1]
        BY <1>6, <4>1 DEF Inv, StatesOK
      <4>3. states[q + 1][l] = Absorbed(q, l, bi, g)
        BY DEF Inv, StatesOK
      <4>4. Absorbed(q, l, bi, g) = Absorbed(q, l, bi, g + 1)
        BY <4>1 DEF Absorbed
      <4> QED BY <1>1, <4>2, <4>3, <4>4
    <3> QED BY <3>1, <3>2
  <2> QED BY <2>1, <2>2 DEF StatesOK
<1>10. OutputsOK(outputs', g')
  <2> DEFINE n == Len(outputs)
  <2>1. n \in Nat /\ N <= n
    BY DEF Inv, OutputsOK
  <2>2. Len(outputs') = n
    <3> DEFINE S == {outputs'[k] : k \in 1 .. n}
    <3>1. outputs' \in [1 .. n -> S]
      BY <1>6
    <3> HIDE DEF S, n
    <3> QED BY <2>1, <3>1, FunctionIsSeq
  <2>3. ASSUME NEW k \in 1 .. n
        PROVE  outputs'[k] = IF k <= N /\ k <= g' * LANES
                             THEN RfcDigest(inputs[k]) ELSE Untouched
    <3>1. CASE k \in lo + 1 .. lo + s
      <4>1. k - lo - 1 \in 0 .. s - 1 /\ k - lo - 1 \in Lane
        BY <1>2, <1>3, <3>1, SMT DEF Lane
      <4>2. k \in 1 .. N /\ k <= g' * LANES /\ k <= N
        <5>1. k \in 1 .. N
          BY <1>2, <3>1
        <5> QED BY <1>1, <1>2, <3>1, <5>1
      <4>3. Slot(g, k - lo - 1) = k
        <5>1. Slot(g, k - lo - 1) = lo + (k - lo - 1) + 1
          BY <1>2, <4>1, SlotActive
        <5> QED BY <1>3, <2>1, <5>1, SMT
      <4>4. outputs'[k] = StateToBytes(CompressBlocks(Body(k, NFull), Pad(k)))
        BY <1>6, <1>8, <3>1, <4>1, <4>3
      <4>5. outputs'[k] = RfcDigest(inputs[k])
        BY <1>1, <4>2, <4>4, PadFacts
      <4> QED BY <4>2, <4>5
    <3>2. CASE ~(k \in lo + 1 .. lo + s)
      <4>1. outputs'[k] = outputs[k]
        BY <1>6, <3>2
      <4>2. outputs[k] = IF k <= N /\ k <= lo THEN RfcDigest(inputs[k]) ELSE Untouched
        BY DEF Inv, OutputsOK
      <4>3. k <= N /\ k <= lo <=> k <= N /\ k <= g' * LANES
        <5>1. k <= N => k \in 1 .. N
          BY <1>2, <2>1
        <5>2. k <= N => ~(k > lo /\ k <= (g + 1) * LANES)
          BY <1>2, <3>2, <5>1
        <5>3. lo <= (g + 1) * LANES
          BY <1>1, <1>2, <1>3, SMT
        <5>4. (g + 1) * LANES \in Int
          BY <1>1, <1>2, SMT
        <5> HIDE DEF lo
        <5> QED BY <1>1, <1>3, <2>1, <5>2, <5>3, <5>4
      <4> QED BY <4>1, <4>2, <4>3
    <3> QED BY <3>1, <3>2
  <2> QED BY <2>1, <2>2, <2>3 DEF OutputsOK
<1>11. PlaceOK(phase', bi', g')
  BY <1>1 DEF PlaceOK
<1>12. CurOK(cur', phase', bi')
  BY <1>1 DEF Inv, CurOK
<1> QED BY <1>1, <1>9, <1>10, <1>11, <1>12, InvKept

LEMMA ReturnInv == ASSUME Inv, Return PROVE Inv'
<1>1. /\ phase' = "done" /\ phase = "pad" /\ g = NGroups
      /\ UNCHANGED <<kernel, inputs, outputs, states, cur, bi, g>>
  BY DEF Return
<1>2. PlaceOK(phase', bi', g') /\ CurOK(cur', phase', bi')
  BY <1>1 DEF Inv, PlaceOK, CurOK
<1> QED BY <1>1, <1>2, InvKept DEF Inv

LEMMA NextInv == Inv /\ [Next]_vars => Inv'
<1> SUFFICES ASSUME Inv, [Next]_vars PROVE Inv'
  OBVIOUS
<1>1. CASE UNCHANGED vars
  <2>1. UNCHANGED <<kernel, inputs, outputs, states, cur, bi, g, phase>>
    BY <1>1 DEF vars
  <2> QED BY <2>1, InvKept DEF Inv
<1>2. CASE Next
  BY <1>2, EnterInv, SequentialInv, PipelinedInv, PadGroupInv, ReturnInv DEF Next
<1> QED BY <1>1, <1>2

LEMMA SpecInv == Spec => []Inv
BY InitInv, NextInv, PTL DEF Spec

(***************************************************************************)
(* The theorems.                                                           *)
(***************************************************************************)
LEMMA InvTypeOK == Inv => TypeOK
<1> SUFFICES ASSUME Inv PROVE TypeOK
  OBVIOUS
<1>1. /\ Called /\ NGroups \in 1 .. MaxGroups /\ MaxGroups = 4 /\ NFull \in Nat
      /\ bi \in 0 .. NFull /\ g \in 0 .. NGroups
  BY GroupFacts, MessageFacts DEF Inv, PlaceOK, MaxGroups
<1>2. /\ phase \in {"enter", "sequential", "prefetch", "pipelined", "pad", "done"}
      /\ Len(cur) \in {0, NGroups} /\ NGroups <= MaxGroups
  BY <1>1 DEF Inv, PlaceOK, CurOK, GatheredAll
<1>3. g > 0 => bi = NFull
  BY <1>1 DEF Inv, PlaceOK
<1>4. ASSUME NEW q \in 1 .. MaxGroups, NEW l \in Lane
      PROVE  states[q][l].seed = "iv" /\ Len(states[q][l].data) % BlockSize = 0
  <2>1. q - 1 \in 0 .. MaxGroups - 1 /\ (q - 1) + 1 = q
    BY <1>1
  <2>2. states[q][l] = Absorbed(q - 1, l, bi, g)
    BY <2>1 DEF Inv, StatesOK
  <2> DEFINE k == Slot(q - 1, l)
             body == Body(k, bi)
  <2>3. CASE q - 1 < NGroups
    <3>1. q - 1 \in 0 .. NGroups - 1
      BY <1>1, <2>1, <2>3
    <3>2. k \in 1 .. N
      BY <1>1, <3>1, GroupFacts
    <3>3. body \in Chain /\ body.seed = "iv" /\ Len(body.data) % BlockSize = 0
      BY <1>1, <3>2, BodyFacts
    <3>4. CASE q - 1 < g
      <4>1. states[q][l] = CompressBlocks(body, Pad(k))
        BY <2>2, <3>4 DEF Absorbed
      <4>2. /\ Pad(k) \in Seq(Byte) /\ Len(Pad(k)) = PadLen
            /\ PadLen \in {BlockSize, 2 * BlockSize}
        BY <1>1, <3>2, PadFacts
      <4>3. /\ states[q][l].seed = "iv"
            /\ Len(states[q][l].data) = Len(body.data) + PadLen
        BY <3>3, <4>1, <4>2, CompressFacts
      <4> DEFINE n == Len(body.data)
                 B == BlockSize
      <4>4. n \in Nat /\ B \in Nat \ {0}
        BY <3>3, SizeAssumption, LenProperties DEF Chain
      <4> HIDE DEF body, n, B
      <4>5. PICK j \in Int : PadLen = B * j
        <5>1. PadLen = B * 1 \/ PadLen = B * 2
          BY <4>2, <4>4 DEF B
        <5> QED BY <5>1
      <4>6. \A i \in Int : (i + B * j) % B = i % B
        BY <4>4, ModAddMultiple
      <4>7. (n + PadLen) % B = 0
        <5>1. (n + B * j) % B = n % B
          <6>1. n \in Int
            BY <4>4
          <6> QED BY <4>6, <6>1, Zenon
        <5> QED BY <3>3, <4>5, <5>1 DEF n, B
      <4> QED BY <4>3, <4>7 DEF n, B
    <3>5. CASE ~(q - 1 < g)
      BY <2>2, <2>3, <3>3, <3>5 DEF Absorbed
    <3> QED BY <3>4, <3>5
  <2>4. CASE ~(q - 1 < NGroups)
    <3>1. ~(q - 1 < g)
      BY <1>1, <2>4
    <3>2. states[q][l] = IV
      BY <2>2, <2>4, <3>1 DEF Absorbed
    <3>3. 0 % BlockSize = 0
      BY SizeAssumption, ModSmall, SMT
    <3> QED BY <3>2, <3>3, IVFacts
  <2> QED BY <2>3, <2>4
<1> QED BY <1>1, <1>2, <1>4 DEF TypeOK

LEMMA InvInBounds == Inv => InBounds
<1> SUFFICES ASSUME Inv, NEW q \in 1 .. Len(cur),
                    NEW w \in 0 .. BlockWords - 1, NEW l \in Lane
             PROVE  LET a == cur[q][w][l] IN
                    /\ a.src \in 1 .. N
                    /\ a.at >= 0 /\ a.at + WordBytes <= Len(inputs[a.src])
  BY DEF InBounds
<1>1. /\ Called /\ NGroups \in 1 .. MaxGroups /\ MaxGroups = 4 /\ NFull \in Nat
  BY GroupFacts, MessageFacts DEF Inv, MaxGroups
<1>2. PICK b \in 0 .. NFull - 1 : GatheredAll(cur, b)
  BY DEF Inv, CurOK
<1>3. q - 1 \in 0 .. NGroups - 1 /\ (q - 1) + 1 = q
  BY <1>1, <1>2 DEF GatheredAll
<1> DEFINE k == Slot(q - 1, l)
           n == b * BlockSize
           W == WordBytes
<1>4. cur[q][w][l] = [src |-> k, at |-> n + w * W]
  BY <1>2, <1>3 DEF GatheredAll, Gathered
<1>5. k \in 1 .. N
  BY <1>1, <1>3, GroupFacts
<1>6. Len(inputs[k]) = MessageLen
  BY <1>1, <1>5, MessageFacts
<1>7. n \in Nat /\ n + BlockSize <= MessageLen /\ MessageLen \in Nat
  BY <1>1, MessageFacts
<1>8. W \in Nat \ {0} /\ BlockSize = 16 * W /\ w \in 0 .. 15
  BY BlockAssumption DEF BlockWords
<1> HIDE DEF k, n, W
<1>9. w * W \in Nat /\ w * W + W <= 16 * W
  BY <1>8, SMT
<1>10. n + w * W >= 0 /\ n + w * W + W <= MessageLen
  BY <1>7, <1>8, <1>9, SMT
<1> QED BY <1>4, <1>5, <1>6, <1>10 DEF W

LEMMA InvLanesInStep == Inv => LanesInStep
<1> SUFFICES ASSUME Inv, phase \in {"sequential", "pipelined"},
                    NEW q \in 0 .. NGroups - 1, NEW l \in 0 .. GroupSize(q) - 1
             PROVE  states[q + 1][l]
                      = CompressBlocks(IV, First(inputs[q * LANES + l + 1], bi * BlockSize))
  BY DEF LanesInStep
<1>1. /\ Called /\ NGroups \in 1 .. MaxGroups /\ MaxGroups = 4 /\ g = 0
      /\ LANES \in {4, 8, 16} /\ GroupSize(q) \in 1 .. LANES
  BY GroupFacts DEF Inv, PlaceOK, MaxGroups
<1>2. q \in 0 .. MaxGroups - 1 /\ ~(q < g) /\ q < NGroups /\ l \in Lane
  BY <1>1 DEF Lane
<1>3. states[q + 1][l] = Body(Slot(q, l), bi)
  BY <1>2 DEF Inv, StatesOK, Absorbed
<1>4. Slot(q, l) = q * LANES + l + 1
  BY <1>1, SlotActive
<1> QED BY <1>3, <1>4 DEF Body

(* The variables have their types in every state, for every adapter, every *)
(* number of messages and every length.                                    *)
THEOREM WideTypeCorrect == Spec => []TypeOK
BY SpecInv, InvTypeOK, PTL

(* No gather of any loop reads outside its message.                        *)
THEOREM AlwaysInBounds == Spec => []InBounds
BY SpecInv, InvInBounds, PTL

(* Every lane has absorbed the first bi blocks of its own message.         *)
THEOREM AlwaysInStep == Spec => []LanesInStep
BY SpecInv, InvLanesInStep, PTL

(***************************************************************************)
(* The refinement.                                                         *)
(***************************************************************************)
Want == [k \in 1 .. N |-> RfcDigest(inputs[k])]
AbsPhase == IF phase = "done" THEN phase ELSE "running"

LEMMA WantFacts ==
  ASSUME Inv
  PROVE  /\ Len(Want) = N /\ N \in Nat /\ \A k \in 1 .. N : Want[k] = RfcDigest(inputs[k])
<1> DEFINE n == N
           S == {RfcDigest(inputs[k]) : k \in 1 .. n}
<1>1. n \in Nat
  BY GroupFacts DEF Inv
<1>2. Want \in [1 .. n -> S]
  BY DEF Want
<1> HIDE DEF S, n
<1>3. Len(Want) = n
  BY <1>1, <1>2, FunctionIsSeq
<1> QED BY <1>1, <1>3 DEF Want, n

LEMMA StutterFacts ==
  ASSUME UNCHANGED <<inputs, outputs>>, AbsPhase' = AbsPhase
  PROVE  UNCHANGED Batch!vars
BY DEF Batch!vars, AbsPhase, N

LEMMA AbsInit == Init => Batch!Init
<1> SUFFICES ASSUME Init PROVE Batch!Init
  OBVIOUS
<1>1. Inv /\ g * LANES = 0 /\ phase = "enter"
  <2>1. LANES \in {4, 8, 16}
    BY InitInv, GroupFacts DEF Inv
  <2> QED BY <2>1, InitInv DEF Init
<1>2. ASSUME NEW k \in 1 .. Len(outputs) PROVE outputs[k] = Untouched
  <2>1. ~(k <= g * LANES)
    BY <1>1
  <2> QED BY <1>1, <2>1 DEF Inv, OutputsOK
<1> QED BY <1>1, <1>2 DEF Batch!Init

LEMMA AbsPad == ASSUME Inv, Inv', PadGroup PROVE Batch!Next
<1>1. /\ AbsPhase = "running" /\ AbsPhase' = "running" /\ inputs' = inputs
      /\ UNCHANGED kernel /\ g' = g + 1 /\ g \in Nat
  BY GroupFacts DEF PadGroup, AbsPhase, Inv, PlaceOK, MaxGroups
<1>2. /\ N \in Nat /\ N <= Len(outputs) /\ Len(outputs) \in Nat /\ LANES \in {4, 8, 16}
  BY WantFacts, GroupFacts DEF Inv, OutputsOK
<1>3. Len(outputs') = Len(outputs)
  <2> DEFINE n == Len(outputs)
             S == {outputs'[k] : k \in 1 .. n}
  <2>1. outputs' \in [1 .. n -> S]
    BY DEF PadGroup
  <2> HIDE DEF S, n
  <2>2. n \in Nat
    BY <1>2 DEF n
  <2>3. Len(outputs') = n
    BY <2>1, <2>2, FunctionIsSeq
  <2> QED BY <2>3 DEF n
<1>4. ASSUME NEW k \in 1 .. Len(outputs)
      PROVE  \/ outputs'[k] = outputs[k]
             \/ outputs[k] = Untouched /\ k <= Len(Want) /\ outputs'[k] = Want[k]
  <2>1. outputs[k] = IF k <= N /\ k <= g * LANES THEN RfcDigest(inputs[k]) ELSE Untouched
    BY DEF Inv, OutputsOK
  <2>2. outputs'[k] = IF k <= N /\ k <= (g + 1) * LANES
                      THEN RfcDigest(inputs[k]) ELSE Untouched
    BY <1>1, <1>3, SameCall DEF Inv, OutputsOK
  <2>3. k <= g * LANES => k <= (g + 1) * LANES
    BY <1>1, <1>2, SMT
  <2>4. k <= N => k <= Len(Want) /\ Want[k] = RfcDigest(inputs[k])
    BY <1>2, WantFacts
  <2> QED BY <2>1, <2>2, <2>3, <2>4
<1>5. Want' = Want /\ Len(Want) <= Len(outputs)
  BY <1>1, <1>2, WantFacts DEF Want, N
<1>6. \A k \in 1 .. Len(outputs) : Batch!Progress(k)
  BY <1>4 DEF Batch!Progress, Want
<1> QED BY <1>1, <1>3, <1>5, <1>6 DEF Batch!Next, Batch!Work, AbsPhase, Want

LEMMA AbsReturn == ASSUME Inv, Return PROVE Batch!Next
<1>1. /\ AbsPhase = "running" /\ AbsPhase' = "done" /\ UNCHANGED <<inputs, outputs>>
      /\ phase' = "done" /\ g = NGroups
  BY DEF Return, AbsPhase
<1>2. /\ N \in Nat /\ N <= Len(outputs) /\ N <= NGroups * LANES
      /\ LANES \in {4, 8, 16} /\ NGroups \in 1 .. 4 /\ Len(outputs) \in Nat
  BY WantFacts, GroupFacts DEF Inv, OutputsOK, MaxGroups
<1>3. ASSUME NEW k \in 1 .. Len(Want) PROVE outputs'[k] = Want[k]
  <2>1. k \in 1 .. N /\ k \in 1 .. Len(outputs) /\ k <= g * LANES
    BY <1>1, <1>2, WantFacts, SMT
  <2>2. outputs[k] = RfcDigest(inputs[k])
    BY <2>1 DEF Inv, OutputsOK
  <2> QED BY <1>1, <2>1, <2>2, WantFacts
<1>4. Want' = Want /\ Len(Want) <= Len(outputs)
  BY <1>1, <1>2, WantFacts DEF Want, N
<1>5. \A k \in 1 .. Len(outputs) : Batch!Progress(k)
  BY <1>1 DEF Batch!Progress
<1> QED BY <1>1, <1>3, <1>4, <1>5 DEF Batch!Next, Batch!Work, AbsPhase, Want

LEMMA AbsNext == Inv /\ Inv' /\ [Next]_vars => [Batch!Next]_Batch!vars
<1> SUFFICES ASSUME Inv, Inv', [Next]_vars PROVE Batch!Next \/ UNCHANGED Batch!vars
  OBVIOUS
<1>1. CASE UNCHANGED vars
  BY <1>1, StutterFacts DEF vars, AbsPhase
<1>2. CASE Enter \/ Sequential \/ SequentialDone \/ Prefetch \/ Pipelined
  <2>1. UNCHANGED <<inputs, outputs>>
    BY <1>2 DEF Enter, Sequential, SequentialDone, Prefetch, Pipelined
  <2>2. phase # "done" /\ phase' # "done"
    <3>1. NFull \in Nat /\ NGroups \in 1 .. 4
      BY GroupFacts, MessageFacts DEF Inv, MaxGroups
    <3>2. ASSUME Enter PROVE phase # "done" /\ phase' # "done"
      BY <3>1, <3>2 DEF Enter
    <3> QED BY <1>2, <3>2 DEF Sequential, SequentialDone, Prefetch, Pipelined
  <2> QED BY <2>1, <2>2, StutterFacts DEF AbsPhase
<1>3. CASE PadGroup
  BY <1>3, AbsPad
<1>4. CASE Return
  BY <1>4, AbsReturn
<1> QED BY <1>1, <1>2, <1>3, <1>4 DEF Next

(* A fused call implements the batch contract: the RFC 1321 digest of      *)
(* every message in its slot, once, and no other slot written.             *)
THEOREM WideRefinement == Spec => ImplementsBatchHash
BY AbsInit, AbsNext, SpecInv, PTL DEF Spec, Batch!Spec, ImplementsBatchHash

(***************************************************************************)
(* Termination: a fused call takes at most NFull + NGroups + 4 steps.      *)
(***************************************************************************)
StepsLeft ==
  CASE phase = "enter"      -> NFull + NGroups + 4
    [] phase = "prefetch"   -> NFull + NGroups + 3
    [] phase = "sequential" -> NFull - bi + NGroups + 2
    [] phase = "pipelined"  -> NFull - bi + NGroups + 1
    [] phase = "pad"        -> NGroups - g + 1
    [] phase = "done"       -> 0

Shrinks == StepsLeft \in Nat /\ StepsLeft' \in Nat /\ StepsLeft' < StepsLeft

LEMMA LeftFacts ==
  /\ phase = "enter" => StepsLeft = NFull + NGroups + 4
  /\ phase = "prefetch" => StepsLeft = NFull + NGroups + 3
  /\ phase = "sequential" => StepsLeft = NFull - bi + NGroups + 2
  /\ phase = "pipelined" => StepsLeft = NFull - bi + NGroups + 1
  /\ phase = "pad" => StepsLeft = NGroups - g + 1
  /\ phase = "done" => StepsLeft = 0
BY DEF StepsLeft

LEMMA LeftFactsNext ==
  ASSUME UNCHANGED <<kernel, inputs>>
  PROVE  /\ phase' = "prefetch" => StepsLeft' = NFull + NGroups + 3
         /\ phase' = "sequential" => StepsLeft' = NFull - bi' + NGroups + 2
         /\ phase' = "pipelined" => StepsLeft' = NFull - bi' + NGroups + 1
         /\ phase' = "pad" => StepsLeft' = NGroups - g' + 1
         /\ phase' = "done" => StepsLeft' = 0
<1>1. NFull' = NFull /\ NGroups' = NGroups
  BY SameCall
<1> QED BY <1>1 DEF StepsLeft

LEMMA NextShrinks == Inv /\ Next => Shrinks
<1> SUFFICES ASSUME Inv, Next PROVE Shrinks
  OBVIOUS
<1> DEFINE f == NFull
           n == NGroups
<1>1. /\ f \in Nat /\ n \in Nat /\ PlaceOK(phase, bi, g)
      /\ UNCHANGED <<kernel, inputs>>
  BY GroupFacts, MessageFacts DEF Inv, Next, Enter, Sequential, SequentialDone, Prefetch,
     Pipelined, PadGroup, Return, MaxGroups
<1>2. CASE Enter
  <2>1. phase = "enter" /\ bi' = bi /\ g' = g /\ bi = 0 /\ g = 0
    BY <1>1, <1>2 DEF Enter, PlaceOK
  <2>2. phase' \in {"pad", "sequential", "prefetch"}
    <3>1. n = 1 \/ n > 1
      BY GroupFacts DEF Inv
    <3>2. f = 0 \/ f > 0
      BY <1>1, SMT
    <3> QED BY <1>2, <3>1, <3>2 DEF Enter
  <2>3. StepsLeft = f + n + 4
    BY <2>1, LeftFacts
  <2>4. \/ StepsLeft' = n - 0 + 1 \/ StepsLeft' = f - 0 + n + 2 \/ StepsLeft' = f + n + 3
    BY <1>1, <2>1, <2>2, LeftFactsNext
  <2> HIDE DEF f, n
  <2> QED BY <1>1, <2>3, <2>4, SMT DEF Shrinks
<1>3. CASE Sequential \/ SequentialDone
  <2>1. /\ phase = "sequential" /\ bi \in 0 .. f /\ g = 0 /\ g' = g
        /\ \/ phase' = "sequential" /\ bi < f /\ bi' = bi + 1
           \/ phase' = "pad"
    BY <1>1, <1>3 DEF Sequential, SequentialDone, PlaceOK
  <2>2. StepsLeft = f - bi + n + 2
    BY <2>1, LeftFacts
  <2>3. (bi < f /\ StepsLeft' = f - (bi + 1) + n + 2) \/ StepsLeft' = n - 0 + 1
    BY <1>1, <2>1, LeftFactsNext
  <2> HIDE DEF f, n
  <2> QED BY <1>1, <2>1, <2>2, <2>3, SMT DEF Shrinks
<1>4. CASE Prefetch
  <2>1. phase = "prefetch" /\ phase' = "pipelined" /\ bi' = bi /\ bi = 0
    BY <1>1, <1>4 DEF Prefetch, PlaceOK
  <2>2. StepsLeft = f + n + 3 /\ StepsLeft' = f - 0 + n + 1
    BY <1>1, <2>1, LeftFacts, LeftFactsNext
  <2> HIDE DEF f, n
  <2> QED BY <1>1, <2>2, SMT DEF Shrinks
<1>5. CASE Pipelined
  <2>1. /\ phase = "pipelined" /\ bi \in 0 .. f /\ bi < f /\ g = 0 /\ g' = g
        /\ bi' = bi + 1 /\ phase' \in {"pipelined", "pad"}
    BY <1>1, <1>5 DEF Pipelined, PlaceOK
  <2>2. StepsLeft = f - bi + n + 1
    BY <2>1, LeftFacts
  <2>3. StepsLeft' = f - (bi + 1) + n + 1 \/ StepsLeft' = n - 0 + 1
    BY <1>1, <2>1, LeftFactsNext
  <2> HIDE DEF f, n
  <2> QED BY <1>1, <2>1, <2>2, <2>3, SMT DEF Shrinks
<1>6. CASE PadGroup \/ Return
  <2>1. /\ phase = "pad" /\ g \in 0 .. n
        /\ \/ phase' = "pad" /\ g < n /\ g' = g + 1
           \/ phase' = "done"
    BY <1>1, <1>6 DEF PadGroup, Return, PlaceOK
  <2>2. StepsLeft = n - g + 1
    BY <2>1, LeftFacts
  <2>3. (g < n /\ StepsLeft' = n - (g + 1) + 1) \/ StepsLeft' = 0
    BY <1>1, <2>1, LeftFactsNext
  <2> HIDE DEF f, n
  <2> QED BY <1>1, <2>1, <2>2, <2>3, SMT DEF Shrinks
<1> QED BY <1>2, <1>3, <1>4, <1>5, <1>6 DEF Next

(* Each step of a fused call lowers a natural number: none of the three    *)
(* loop shapes runs forever, whatever the length of the messages.          *)
THEOREM WideShrinks == Spec => [][Shrinks]_vars
<1>1. Inv /\ [Next]_vars => [Shrinks]_vars
  BY NextShrinks
<1> QED BY <1>1, SpecInv, PTL DEF Spec
=============================================================================
