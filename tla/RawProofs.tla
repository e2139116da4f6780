------------------------------ MODULE RawProofs ----------------------------
(***************************************************************************)
(* The framing of Md5Frame is the padding of RFC 1321, and the Raw of      *)
(* Md5Raw keeps its fields in step, for every message, every block size    *)
(* and every counter width.  The proofs about the streaming hasher, the    *)
(* digest adapter, the reader and the fused kernels rest on these lemmas.  *)
(***************************************************************************)
EXTENDS Md5Raw, SequenceTheorems, TLAPS

(***************************************************************************)
(* Division with remainder for a divisor that is not a literal: the facts  *)
(* behind block alignment (modulo BlockSize) and counter wraps (modulo     *)
(* CountMod).                                                              *)
(***************************************************************************)
(* What \div and % mean. *)
LEMMA DivMod ==
  ASSUME NEW n \in Int, NEW d \in Nat \ {0}
  PROVE  /\ n \div d \in Int
         /\ n = d * (n \div d) + (n % d)
         /\ n % d \in 0 .. d - 1
BY SMT

(* A number has one quotient and one remainder. *)
LEMMA QuotientUnique ==
  ASSUME NEW d \in Nat \ {0},
         NEW q \in Int, NEW r \in 0 .. d - 1,
         NEW p \in Int, NEW s \in 0 .. d - 1,
         d * q + r = d * p + s
  PROVE  q = p /\ r = s
<1>1. d * (q - p) = s - r
  BY SMT
<1>2. ~(q - p >= 1)
  <2>1. ASSUME q - p >= 1 PROVE d * (q - p) >= d
    BY <2>1, SMT
  <2> QED BY <2>1, <1>1, SMT
<1>3. ~(q - p <= -1)
  <2>1. ASSUME q - p <= -1 PROVE d * (q - p) <= -d
    BY <2>1, SMT
  <2> QED BY <2>1, <1>1, SMT
<1> QED BY <1>1, <1>2, <1>3, SMT

LEMMA ModUnique ==
  ASSUME NEW n \in Int, NEW d \in Nat \ {0}, NEW q \in Int,
         NEW r \in 0 .. d - 1, n = d * q + r
  PROVE  n % d = r
BY DivMod, QuotientUnique, SMT

(* Adding a multiple of the divisor leaves the remainder alone. *)
LEMMA ModAddMultiple ==
  ASSUME NEW n \in Int, NEW d \in Nat \ {0}, NEW q \in Int
  PROVE  (n + d * q) % d = n % d
<1> DEFINE k == n \div d
<1>1. k \in Int /\ n = d * k + (n % d) /\ n % d \in 0 .. d - 1
  BY DivMod
<1> HIDE DEF k
<1>2. n + d * q = d * (k + q) + (n % d)
  BY <1>1, SMT
<1>3. n + d * q \in Int /\ k + q \in Int
  BY <1>1, SMT
<1> QED BY <1>1, <1>2, <1>3, ModUnique

(* A multiple is added to a multiple. *)
LEMMA AlignedSum ==
  ASSUME NEW a \in Int, NEW b \in Int, NEW d \in Nat \ {0}, b % d = 0
  PROVE  (a + b) % d = a % d
<1> DEFINE k == b \div d
<1>1. k \in Int /\ b = d * k
  BY DivMod, SMT
<1> HIDE DEF k
<1> QED BY <1>1, ModAddMultiple

(* A wrapped operand of a sum may be replaced by the operand itself. *)
LEMMA ModSum ==
  ASSUME NEW a \in Int, NEW b \in Int, NEW d \in Nat \ {0}
  PROVE  ((a % d) + b) % d = (a + b) % d
<1> DEFINE k == a \div d
           r == a % d
<1>1. k \in Int /\ a = d * k + r /\ r \in Int
  BY DivMod, SMT
<1> HIDE DEF k, r
<1>2. a + b = (r + b) + d * k /\ r + b \in Int
  BY <1>1, SMT
<1>3. ((r + b) + d * k) % d = (r + b) % d
  BY <1>1, <1>2, ModAddMultiple
<1> QED BY <1>2, <1>3 DEF r

(* The same for a product. *)
LEMMA ModProduct ==
  ASSUME NEW a \in Int, NEW b \in Int, NEW d \in Nat \ {0}
  PROVE  ((a % d) * b) % d = (a * b) % d
<1> DEFINE k == a \div d
           r == a % d
<1>1. k \in Int /\ a = d * k + r /\ r \in Int
  BY DivMod, SMT
<1> HIDE DEF k, r
<1>2. a * b = r * b + d * (k * b)
  BY <1>1, SMT
<1>3. r * b \in Int /\ k * b \in Int
  BY <1>1, SMT
<1>4. (r * b + d * (k * b)) % d = (r * b) % d
  BY <1>3, ModAddMultiple
<1> QED BY <1>2, <1>4 DEF r

(* A small number is its own remainder. *)
LEMMA ModSmall ==
  ASSUME NEW d \in Nat \ {0}, NEW n \in 0 .. d - 1
  PROVE  n % d = n
<1>1. n \in Int /\ n = d * 0 + n
  BY SMT
<1> QED BY <1>1, ModUnique

(* Two multiples less than the divisor apart are equal. *)
LEMMA AlignedUnique ==
  ASSUME NEW a \in Int, NEW b \in Int, NEW d \in Nat \ {0},
         a % d = 0, b % d = 0, a - b < d, b - a < d
  PROVE  a = b
<1> DEFINE p == a \div d
           q == b \div d
<1>1. p \in Int /\ a = d * p /\ q \in Int /\ b = d * q
  BY DivMod, SMT
<1> HIDE DEF p, q
<1>2. CASE a >= b
  <2>1. a - b \in 0 .. d - 1
    BY <1>2, SMT
  <2>2. d * p + 0 = d * q + (a - b)
    BY <1>1, SMT
  <2>3. 0 \in 0 .. d - 1
    BY SMT
  <2> QED BY <1>1, <2>1, <2>2, <2>3, QuotientUnique, SMT
<1>3. CASE b > a
  <2>1. b - a \in 0 .. d - 1
    BY <1>3, SMT
  <2>2. d * p + (b - a) = d * q + 0
    BY <1>1, SMT
  <2>3. 0 \in 0 .. d - 1
    BY SMT
  <2> QED BY <1>1, <2>1, <2>2, <2>3, QuotientUnique, SMT
<1> QED BY <1>2, <1>3, SMT

(***************************************************************************)
(* Framing.                                                                *)
(***************************************************************************)
LEMMA FunctionIsSeq ==
  ASSUME NEW S, NEW n \in Nat, NEW f \in [1 .. n -> S]
  PROVE  f \in Seq(S) /\ Len(f) = n
BY SMT

LEMMA FirstDrop ==
  ASSUME NEW S, NEW s \in Seq(S), NEW n \in 0 .. Len(s)
  PROVE  /\ First(s, n) \in Seq(S) /\ Len(First(s, n)) = n
         /\ \A i \in 1 .. n : First(s, n)[i] = s[i]
         /\ Drop(s, n) \in Seq(S) /\ Len(Drop(s, n)) = Len(s) - n
         /\ \A i \in 1 .. Len(s) - n : Drop(s, n)[i] = s[n + i]
         /\ First(s, n) \o Drop(s, n) = s
<1>1. \A i \in 1 .. Len(s) : s[i] \in S
  BY ElementOfSeq
<1>2. /\ First(s, n) \in Seq(S) /\ Len(First(s, n)) = n
      /\ \A i \in 1 .. n : First(s, n)[i] = s[i]
  BY <1>1, SubSeqProperties, SMT DEF First
<1>3. /\ Drop(s, n) \in Seq(S) /\ Len(Drop(s, n)) = Len(s) - n
      /\ \A i \in 1 .. Len(s) - n : Drop(s, n)[i] = s[n + i]
  BY <1>1, SubSeqProperties, SMT DEF Drop
<1>4. First(s, n) \o Drop(s, n) = s
  <2>1. /\ 1 \in 1 .. Len(s) + 1 /\ n \in 1 - 1 .. Len(s)
        /\ Len(s) \in n .. Len(s)
    BY LenProperties, SMT
  <2>2. SubSeq(s, 1, n) \o SubSeq(s, n + 1, Len(s)) = SubSeq(s, 1, Len(s))
    BY <2>1, ConcatAdjacentSubSeq
  <2> QED BY <2>2, SubSeqFull DEF First, Drop
<1> QED BY <1>2, <1>3, <1>4

LEMMA FullLenFacts ==
  ASSUME NEW n \in Nat
  PROVE  /\ FullLen(n) \in 0 .. n
         /\ FullLen(n) % BlockSize = 0
         /\ n - FullLen(n) \in 0 .. BlockSize - 1
         /\ n < BlockSize => FullLen(n) = 0
<1> DEFINE q == n \div BlockSize
           r == n % BlockSize
<1>1. q \in Int /\ n = BlockSize * q + r /\ r \in 0 .. BlockSize - 1
  BY SizeAssumption, DivMod, SMT
<1>2. FullLen(n) = n - r
  BY DEF FullLen
<1> HIDE DEF q, r
<1>3. q >= 0
  <2>1. ASSUME q <= -1 PROVE BlockSize * q <= -BlockSize
    BY <2>1, <1>1, SizeAssumption, SMT
  <2> QED BY <2>1, <1>1, SizeAssumption, SMT
<1>4. n - r >= 0
  <2>1. BlockSize * q >= 0
    BY <1>1, <1>3, SizeAssumption, SMT
  <2> QED BY <2>1, <1>1, SizeAssumption, SMT
<1>5. (n - r) % BlockSize = 0
  <2>1. n - r = 0 + BlockSize * q /\ 0 \in 0 .. BlockSize - 1
    BY <1>1, SizeAssumption, SMT
  <2>2. (0 + BlockSize * q) % BlockSize = 0 % BlockSize
    BY <1>1, SizeAssumption, ModAddMultiple, SMT
  <2>3. 0 % BlockSize = 0
    BY <2>1, SizeAssumption, ModSmall, SMT
  <2> QED BY <2>1, <2>2, <2>3
<1>6. n < BlockSize => n - r = 0
  <2>1. ASSUME n < BlockSize PROVE n % BlockSize = n
    BY <2>1, ModSmall, SizeAssumption, SMT
  <2> QED BY <2>1 DEF r
<1> QED BY <1>1, <1>2, <1>4, <1>5, <1>6, SMT

LEMMA ByteFacts ==
  /\ 0 \in Byte /\ Mark \in Byte
  /\ \A v \in Int, i \in 0 .. LenBytes : LeByte(v, i) \in Byte
<1>1. 0 \in Byte /\ Mark \in Byte
  BY SizeAssumption, SMT DEF Byte, Mark
<1>2. ASSUME NEW v \in Int, NEW i \in 0 .. LenBytes
      PROVE  LeByte(v, i) \in Byte
  <2> DEFINE p == Radix^i
  <2>1. p \in Nat \ {0}
    BY SizeAssumption
  <2> HIDE DEF p
  <2>2. v \div p \in Int
    BY <2>1, DivMod
  <2>3. Radix \in Nat \ {0}
    BY SizeAssumption, SMT
  <2>4. (v \div p) % Radix \in 0 .. Radix - 1
    BY <2>2, <2>3, DivMod
  <2> QED BY <2>4 DEF LeByte, Byte, p
<1> QED BY <1>1, <1>2

(* The length field carries the low bits of the length, wrapped or not. *)
LEMMA BitLenWraps ==
  ASSUME NEW n \in Nat
  PROVE  BitLen(n % CountMod) = BitLen(n) /\ BitLen(n) \in Int
<1>1. n * ByteBits \in Int
  BY SizeAssumption, SMT
<1>2. ((n % CountMod) * ByteBits) % CountMod = (n * ByteBits) % CountMod
  <2>1. n \in Int /\ ByteBits \in Int /\ CountMod \in Nat \ {0}
    BY SizeAssumption, SMT
  <2> QED BY <2>1, ModProduct
<1>3. (n * ByteBits) % CountMod \in Int
  BY <1>1, SizeAssumption, DivMod, SMT
<1> QED BY <1>2, <1>3 DEF BitLen

LEMMA FinalBlocksFacts ==
  ASSUME NEW total \in Nat, NEW tail \in Seq(Byte), Len(tail) < BlockSize
  PROVE  /\ FinalBlocks(total, tail) \in Seq(Byte)
         /\ Len(FinalBlocks(total, tail))
              = IF Len(tail) <= MaxShortTail THEN BlockSize ELSE 2 * BlockSize
<1> DEFINE used == IF Len(tail) <= MaxShortTail THEN 1 ELSE 2
           field == used * BlockSize - LenBytes
           size == used * BlockSize
<1>1. BitLen(total) \in Int
  BY BitLenWraps
<1>2. /\ size = IF Len(tail) <= MaxShortTail THEN BlockSize ELSE 2 * BlockSize
      /\ size \in Nat /\ field = size - LenBytes
  BY SizeAssumption, SMT
<1> HIDE DEF used
<1>3. ASSUME NEW i \in 1 .. size
      PROVE  (CASE i <= Len(tail)    -> tail[i]
                [] i = Len(tail) + 1 -> Mark
                [] i > field         -> LeByte(BitLen(total), i - field - 1)
                [] OTHER             -> 0) \in Byte
  <2>1. i <= Len(tail) => tail[i] \in Byte
    BY <1>3, <1>2, ElementOfSeq, LenProperties, SMT
  <2>2. i > field => LeByte(BitLen(total), i - field - 1) \in Byte
    <3>1. i > field => i - field - 1 \in 0 .. LenBytes
      BY <1>2, <1>3, SizeAssumption, SMT
    <3> QED BY <3>1, <1>1, ByteFacts
  <2> QED BY <2>1, <2>2, ByteFacts
<1>4. FinalBlocks(total, tail) \in [1 .. size -> Byte]
  BY <1>3 DEF FinalBlocks, used
<1> QED BY <1>2, <1>4, FunctionIsSeq

(* Lengths that pad to complete blocks, in one way only. *)
LEMMA PaddedLenUnique ==
  ASSUME NEW len \in Nat, NEW n \in Nat, IsPaddedLen(n, len)
  PROVE  PaddedLen(len) = n
<1>1. n \in len .. len + LenBytes + BlockSize
  BY SizeAssumption, SMT DEF IsPaddedLen
<1>2. ASSUME NEW k \in len .. len + LenBytes + BlockSize, IsPaddedLen(k, len)
      PROVE  k = n
  <2>1. k \in Int /\ n \in Int /\ k - n < BlockSize /\ n - k < BlockSize
    BY <1>2, SizeAssumption, SMT DEF IsPaddedLen
  <2>2. k % BlockSize = 0 /\ n % BlockSize = 0
    BY <1>2 DEF IsPaddedLen
  <2>3. BlockSize \in Nat \ {0}
    BY SizeAssumption, SMT
  <2> QED BY <2>1, <2>2, <2>3, AlignedUnique
<1> QED BY <1>1, <1>2 DEF PaddedLen

(* Complete blocks followed by the final blocks are the padded message. *)
LEMMA Padding ==
  ASSUME NEW body \in Seq(Byte), NEW tail \in Seq(Byte),
         Len(body) % BlockSize = 0, Len(tail) < BlockSize
  PROVE  body \o FinalBlocks((Len(body) + Len(tail)) % CountMod, tail)
           = RfcPadded(body \o tail)
<1> DEFINE m == body \o tail
           total == Len(m) % CountMod
           last == FinalBlocks(total, tail)
           size == IF Len(tail) <= MaxShortTail THEN BlockSize ELSE 2 * BlockSize
           n == Len(body) + size
           bits == BitLen(Len(m))
<1>1. /\ Len(body) \in Nat /\ Len(tail) \in Nat
      /\ m \in Seq(Byte) /\ Len(m) = Len(body) + Len(tail)
      /\ \A i \in 1 .. Len(body) + Len(tail) :
           m[i] = IF i <= Len(body) THEN body[i] ELSE tail[i - Len(body)]
  BY ConcatProperties, LenProperties
<1>2. total \in Nat /\ BitLen(total) = bits
  <2>1. Len(m) \in Nat
    BY <1>1, SMT
  <2>2. total \in Nat
    BY <2>1, SizeAssumption, DivMod, SMT
  <2> QED BY <2>1, <2>2, BitLenWraps
<1>3. last \in Seq(Byte) /\ Len(last) = size
  BY <1>2, FinalBlocksFacts
<1>4. n \in Nat /\ IsPaddedLen(n, Len(m))
  <2>1. size % BlockSize = 0
    <3>1. BlockSize \in Nat \ {0} /\ 0 \in 0 .. BlockSize - 1
      BY SizeAssumption, SMT
    <3>2. BlockSize % BlockSize = 0
      BY <3>1, ModUnique, SMT
    <3>3. (2 * BlockSize) % BlockSize = 0
      BY <3>1, ModUnique, SMT
    <3> QED BY <3>2, <3>3
  <2>2. size \in Nat
    BY SizeAssumption, SMT
  <2>3. n % BlockSize = 0
    <3>1. BlockSize \in Nat \ {0} /\ Len(body) \in Int /\ size \in Int
      BY <1>1, <2>2, SizeAssumption, SMT
    <3> HIDE DEF size
    <3>2. (Len(body) + size) % BlockSize = Len(body) % BlockSize
      BY <2>1, <3>1, AlignedSum
    <3> QED BY <3>2
  <2>4. n >= Len(m) + 1 + LenBytes /\ n < Len(m) + 1 + LenBytes + BlockSize
    BY <1>1, SizeAssumption, SMT DEF MaxShortTail
  <2> QED BY <1>1, <2>2, <2>3, <2>4, SMT DEF IsPaddedLen
<1>5. PaddedLen(Len(m)) = n
  BY <1>1, <1>4, PaddedLenUnique, SMT
<1>6. RfcPadded(m) = [i \in 1 .. n |->
         CASE i <= Len(m)        -> m[i]
           [] i = Len(m) + 1     -> Mark
           [] i > n - LenBytes   -> LeByte(bits, i - (n - LenBytes) - 1)
           [] OTHER              -> 0]
  BY <1>5 DEF RfcPadded
<1>7. last = [i \in 1 .. size |->
         CASE i <= Len(tail)         -> tail[i]
           [] i = Len(tail) + 1      -> Mark
           [] i > size - LenBytes    -> LeByte(bits, i - (size - LenBytes) - 1)
           [] OTHER                  -> 0]
  <2> DEFINE used == IF Len(tail) <= MaxShortTail THEN 1 ELSE 2
  <2>1. used * BlockSize = size
    BY SizeAssumption, SMT
  <2> QED BY <2>1, <1>2 DEF FinalBlocks
<1> HIDE DEF m, total, last, size, bits
<1>8. ASSUME NEW i \in 1 .. n
      PROVE  (body \o last)[i] = RfcPadded(m)[i]
  <2>1. CASE i <= Len(body)
    <3>1. (body \o last)[i] = body[i]
      BY <1>1, <1>3, <1>8, <2>1, ConcatProperties, SMT
    <3>2. i <= Len(m) /\ i # Len(m) + 1 /\ ~(i > n - LenBytes)
      BY <1>1, <1>4, <1>8, <2>1, SizeAssumption, SMT DEF IsPaddedLen
    <3>3. RfcPadded(m)[i] = m[i]
      BY <1>6, <1>8, <3>2, Zenon
    <3>4. m[i] = body[i]
      BY <1>1, <1>4, <1>8, <2>1, SMT
    <3> QED BY <3>1, <3>3, <3>4
  <2>2. CASE i > Len(body)
    <3> DEFINE j == i - Len(body)
    <3>1. (body \o last)[i] = last[j] /\ j \in 1 .. size
      BY <1>1, <1>3, <1>8, <2>2, <1>4, ConcatProperties, SMT
    <3>2. i = Len(body) + j
      BY <1>1, SMT
    <3> HIDE DEF j
    <3>3. /\ i <= Len(m) <=> j <= Len(tail)
          /\ i = Len(m) + 1 <=> j = Len(tail) + 1
          /\ i > n - LenBytes <=> j > size - LenBytes
          /\ i - (n - LenBytes) - 1 = j - (size - LenBytes) - 1
      BY <3>1, <3>2, <1>1, <1>4, SizeAssumption, SMT DEF size
    <3>4. j <= Len(tail) => m[i] = tail[j]
      BY <3>1, <3>2, <1>1, SMT
    <3>5. RfcPadded(m)[i] =
            CASE i <= Len(m)        -> m[i]
              [] i = Len(m) + 1     -> Mark
              [] i > n - LenBytes   -> LeByte(bits, i - (n - LenBytes) - 1)
              [] OTHER              -> 0
      BY <1>6, <1>8
    <3>6. last[j] =
            CASE j <= Len(tail)         -> tail[j]
              [] j = Len(tail) + 1      -> Mark
              [] j > size - LenBytes    -> LeByte(bits, j - (size - LenBytes) - 1)
              [] OTHER                  -> 0
      BY <1>7, <3>1
    <3> QED BY <3>1, <3>3, <3>4, <3>5, <3>6
  <2>3. i <= Len(body) \/ i > Len(body)
    BY <1>1, <1>4, <1>8, SMT
  <2> QED BY <2>1, <2>2, <2>3
<1>9. body \o last = RfcPadded(m)
  <2>1. body \o last \in Seq(Byte) /\ Len(body \o last) = n
    BY <1>3, ConcatProperties
  <2>2. body \o last = [i \in 1 .. n |-> (body \o last)[i]]
    BY <2>1, LenProperties
  <2> QED BY <2>2, <1>6, <1>8, Zenon
<1> QED BY <1>9, <1>1 DEF m, total, last

(* A hasher in the state `st' that has compressed complete blocks and has  *)
(* `tail' left produces the digest of the whole.                           *)
LEMMA FinalizeWithCorrect ==
  ASSUME NEW st \in Chain, NEW tail \in Seq(Byte), st.seed = "iv",
         Len(st.data) % BlockSize = 0, Len(tail) < BlockSize
  PROVE  FinalizeWith(st, (Len(st.data) + Len(tail)) % CountMod, tail)
           = RfcDigest(st.data \o tail)
<1> DEFINE last == FinalBlocks((Len(st.data) + Len(tail)) % CountMod, tail)
           m == st.data \o tail
<1>1. st.data \in Seq(Byte)
  BY DEF Chain
<1>2. st.data \o last = RfcPadded(m)
  BY <1>1, Padding
<1>3. CompressBlocks(st, last) = [seed |-> "iv", data |-> st.data \o last]
  BY DEF CompressBlocks
<1>4. m \in Seq(Byte)
  BY <1>1, ConcatProperties
<1>5. RfcPadded(m) \in Seq(Byte)
  <2>1. Len(st.data) \in Nat /\ Len(tail) \in Nat
    BY <1>1, LenProperties
  <2>2. (Len(st.data) + Len(tail)) % CountMod \in Nat
    <3> DEFINE len == Len(st.data) + Len(tail)
    <3>1. CountMod \in Nat \ {0} /\ len \in Int
      BY <2>1, SizeAssumption, SMT
    <3> HIDE DEF len
    <3>2. len % CountMod \in 0 .. CountMod - 1
      BY <3>1, DivMod
    <3>3. len % CountMod \in Nat
      BY <3>1, <3>2, SMT
    <3> QED BY <3>3 DEF len
  <2>3. last \in Seq(Byte)
    BY <2>2, FinalBlocksFacts
  <2> QED BY <1>1, <1>2, <2>3, ConcatProperties
<1>6. CompressBlocks(IV, RfcPadded(m)) = [seed |-> "iv", data |-> RfcPadded(m)]
  BY <1>5, ConcatEmptySeq DEF CompressBlocks, IV
<1> QED BY <1>2, <1>3, <1>6 DEF FinalizeWith, RfcDigest

(* From the IV: the digest of blocks and tail. *)
LEMMA FromIV ==
  ASSUME NEW body \in Seq(Byte), NEW tail \in Seq(Byte),
         Len(body) % BlockSize = 0, Len(tail) < BlockSize
  PROVE  /\ CompressBlocks(IV, body) \in Chain
         /\ CompressBlocks(IV, body).data = body
         /\ FinalizeWith(CompressBlocks(IV, body),
                         (Len(body) + Len(tail)) % CountMod, tail)
              = RfcDigest(body \o tail)
<1>1. CompressBlocks(IV, body) = [seed |-> "iv", data |-> body]
  BY ConcatEmptySeq DEF CompressBlocks, IV
<1>2. CompressBlocks(IV, body) \in Chain
  BY <1>1 DEF Chain
<1> QED BY <1>1, <1>2, FinalizeWithCorrect

LEMMA HashWithCorrect ==
  ASSUME NEW input \in Seq(Byte)
  PROVE  HashWith(input) = RfcDigest(input) /\ HashOptBulk(input) = RfcDigest(input)
<1> DEFINE full == FullLen(Len(input))
           body == First(input, full)
           tail == Drop(input, full)
<1>1. Len(input) \in Nat
  BY LenProperties
<1>2. full \in 0 .. Len(input) /\ full % BlockSize = 0
      /\ Len(input) - full < BlockSize /\ Len(input) - full \in Nat
  BY <1>1, FullLenFacts, SizeAssumption, SMT
<1>3. /\ body \in Seq(Byte) /\ Len(body) = full
      /\ tail \in Seq(Byte) /\ Len(tail) = Len(input) - full
      /\ body \o tail = input
  BY <1>2, FirstDrop
<1>4. Len(body) + Len(tail) = Len(input)
  BY <1>1, <1>2, <1>3, SMT
<1> HIDE DEF full, body, tail
<1>5. FinalizeWith(CompressBlocks(IV, body), Len(input) % CountMod, tail)
        = RfcDigest(input)
  BY <1>2, <1>3, <1>4, FromIV
<1>6. HashOptBulk(input) = RfcDigest(input)
  BY <1>5 DEF HashOptBulk, FinalizeWith, full, body, tail
<1>7. input = << >> => FinalizeWith(IV, 0, << >>) = RfcDigest(input)
  <2>1. << >> \in Seq(Byte) /\ Len(<< >>) = 0 /\ 0 < BlockSize
        /\ 0 \in 0 .. BlockSize - 1 /\ 0 \in 0 .. CountMod - 1
    BY EmptySeq, SizeAssumption, SMT
  <2>2. 0 % BlockSize = 0 /\ (0 + 0) % CountMod = 0
    BY <2>1, SizeAssumption, ModSmall, SMT
  <2>3. << >> \o << >> = << >>
    BY <2>1, ConcatEmptySeq
  <2>4. IV \in Chain /\ IV.seed = "iv" /\ IV.data = << >>
    BY <2>1 DEF IV, Chain
  <2>5. FinalizeWith(IV, (Len(IV.data) + Len(<< >>)) % CountMod, << >>)
          = RfcDigest(IV.data \o << >>)
    BY <2>1, <2>2, <2>4, FinalizeWithCorrect
  <2> QED BY <2>1, <2>2, <2>3, <2>4, <2>5
<1> QED BY <1>5, <1>6, <1>7 DEF HashWith, full, body, tail

LEMMA EmptyDigestCorrect == EmptyDigest = RfcDigest(<< >>)
<1>1. << >> \in Seq(Byte) /\ Len(<< >>) = 0
  BY EmptySeq
<1>2. 0 % CountMod = 0 /\ 0 % BlockSize = 0 /\ 0 < BlockSize /\ 0 <= MaxShortTail
  <2>1. /\ BlockSize \in Nat \ {0} /\ CountMod \in Nat \ {0}
        /\ 0 \in 0 .. BlockSize - 1 /\ 0 \in 0 .. CountMod - 1
        /\ 0 <= MaxShortTail
    BY SizeAssumption, SMT DEF MaxShortTail
  <2> QED BY <2>1, ModSmall, SMT
<1>3. BitLen(0) = 0
  BY <1>2, SizeAssumption, SMT DEF BitLen
<1>4. ASSUME NEW i \in 0 .. LenBytes PROVE LeByte(0, i) = 0
  <2> DEFINE p == Radix^i
  <2>1. p \in Nat \ {0}
    BY SizeAssumption
  <2> HIDE DEF p
  <2>2. 0 \div p = 0
    BY <2>1, SMT
  <2>3. 0 % Radix = 0
    BY SizeAssumption, SMT
  <2> QED BY <2>2, <2>3 DEF LeByte, p
<1>5. FinalBlocks(0, << >>)
        = [i \in 1 .. BlockSize |-> IF i = 1 THEN Mark ELSE 0]
  <2> DEFINE field == BlockSize - LenBytes
  <2>1. ASSUME NEW i \in 1 .. BlockSize
        PROVE  (CASE i <= Len(<< >>)    -> << >>[i]
                  [] i = Len(<< >>) + 1 -> Mark
                  [] i > field          -> LeByte(BitLen(0), i - field - 1)
                  [] OTHER              -> 0)
                 = IF i = 1 THEN Mark ELSE 0
    <3>1. ~(i <= Len(<< >>)) /\ (i = Len(<< >>) + 1 <=> i = 1)
          /\ (i > field => i # 1 /\ i - field - 1 \in 0 .. LenBytes)
      BY <1>1, SizeAssumption, SMT
    <3>2. i > field => LeByte(BitLen(0), i - field - 1) = 0
      BY <1>3, <1>4, <3>1
    <3> QED BY <3>1, <3>2
  <2>2. Len(<< >>) <= MaxShortTail /\ 1 * BlockSize = BlockSize
    BY <1>1, <1>2, SizeAssumption, SMT
  <2> QED BY <2>1, <2>2 DEF FinalBlocks
<1>6. FinalizeWith(IV, 0, << >>) = RfcDigest(<< >>)
  BY <1>1, HashWithCorrect DEF HashWith
<1>7. CompressBlocks(IV, FinalBlocks(0, << >>))
        = [seed |-> "iv", data |-> FinalBlocks(0, << >>)]
  <2>1. FinalBlocks(0, << >>) \in Seq(Byte)
    <3>1. 0 \in Nat /\ Len(<< >>) < BlockSize
      BY <1>1, <1>2
    <3> QED BY <1>1, <3>1, FinalBlocksFacts
  <2> QED BY <2>1, ConcatEmptySeq DEF CompressBlocks, IV
<1> QED BY <1>5, <1>6, <1>7 DEF FinalizeWith, EmptyDigest

(* Every one-shot entry point returns the RFC 1321 digest of its input, on *)
(* every fast path of src/backend.rs and with or without an opt kernel.    *)
THEOREM HashCorrect ==
  ASSUME NEW input \in Seq(Byte), NEW hasOpt \in BOOLEAN
  PROVE  /\ Hash(input, hasOpt) = RfcDigest(input)
         /\ HashOracle(input) = RfcDigest(input)
<1>1. Len(input) \in Nat
  BY LenProperties
<1>2. HashWith(input) = RfcDigest(input) /\ HashOptBulk(input) = RfcDigest(input)
  BY HashWithCorrect
<1>3. input = << >> => EmptyDigest = RfcDigest(input)
  BY EmptyDigestCorrect
<1>4. ASSUME Len(input) <= MaxShortTail
      PROVE  StateToBytes(CompressBlocks(IV,
               First(FinalBlocks(Len(input) % CountMod, input), BlockSize)))
               = RfcDigest(input)
  <2> DEFINE last == FinalBlocks(Len(input) % CountMod, input)
  <2>1. /\ Len(input) < BlockSize /\ Len(input) % CountMod \in Nat
        /\ BlockSize \in Nat /\ 0 \in 0 .. BlockSize - 1
        /\ BlockSize \in Nat \ {0} /\ 0 + Len(input) = Len(input)
    <3>1. CountMod \in Nat \ {0} /\ Len(input) \in Int
      BY <1>1, SizeAssumption, SMT
    <3>2. Len(input) % CountMod \in Nat
      BY <3>1, DivMod, SMT
    <3> QED BY <1>1, <1>4, <3>2, SizeAssumption, SMT DEF MaxShortTail
  <2>2. last \in Seq(Byte) /\ Len(last) = BlockSize
    BY <1>4, <2>1, FinalBlocksFacts
  <2>3. First(last, BlockSize) = last
    BY <2>2, SubSeqFull DEF First
  <2>4. << >> \in Seq(Byte) /\ Len(<< >>) = 0
    BY EmptySeq
  <2>5. 0 % BlockSize = 0
    BY <2>1, ModSmall
  <2>6. FinalizeWith(CompressBlocks(IV, << >>),
                     (Len(<< >>) + Len(input)) % CountMod, input)
          = RfcDigest(<< >> \o input)
    BY <2>1, <2>4, <2>5, FromIV
  <2>7. CompressBlocks(IV, << >>) = IV /\ << >> \o input = input
    BY <2>4, ConcatEmptySeq DEF CompressBlocks, IV
  <2> QED BY <2>1, <2>3, <2>4, <2>6, <2>7 DEF FinalizeWith
<1> QED BY <1>2, <1>3, <1>4 DEF Hash, HashOracle

LEMMA ByteConcat ==
  ASSUME NEW s \in Seq(Byte), NEW t \in Seq(Byte)
  PROVE  /\ s \o t \in Seq(Byte) /\ Len(s \o t) = Len(s) + Len(t)
         /\ \A i \in 1 .. Len(s) + Len(t) :
              (s \o t)[i] = IF i <= Len(s) THEN s[i] ELSE t[i - Len(s)]
         /\ s \o << >> = s /\ << >> \o s = s
BY ConcatProperties, ConcatEmptySeq

LEMMA ByteAssociative ==
  ASSUME NEW s \in Seq(Byte), NEW t \in Seq(Byte), NEW u \in Seq(Byte)
  PROVE  (s \o t) \o u = s \o (t \o u)
BY ConcatAssociative

(***************************************************************************)
(* What the steps of `update' do to one Raw.                               *)
(***************************************************************************)
LEMMA RawFields ==
  ASSUME NEW r \in Raw
  PROVE  /\ r.state \in Chain /\ r.state.data \in Seq(Byte)
         /\ Len(r.state.data) \in Nat /\ r.state.seed \in {"iv", "zero"}
         /\ r.buf \in Buffer /\ r.buf \in Seq(Byte) /\ Len(r.buf) = BlockSize
         /\ r.buf_len \in 0 .. BlockSize /\ r.count \in 0 .. CountMod - 1
         /\ First(r.buf, r.buf_len) \in Seq(Byte)
         /\ Len(First(r.buf, r.buf_len)) = r.buf_len
         /\ \A i \in 1 .. r.buf_len : First(r.buf, r.buf_len)[i] = r.buf[i]
         /\ Message(r) \in Seq(Byte)
         /\ Len(Message(r)) = Len(r.state.data) + r.buf_len
<1>1. /\ r.state \in Chain /\ r.buf \in Buffer
      /\ r.buf_len \in 0 .. BlockSize /\ r.count \in 0 .. CountMod - 1
  BY DEF Raw
<1>2. r.state.data \in Seq(Byte) /\ r.state.seed \in {"iv", "zero"}
  BY <1>1 DEF Chain
<1>3. r.buf \in Seq(Byte) /\ Len(r.buf) = BlockSize
  BY <1>1, SizeAssumption, FunctionIsSeq DEF Buffer
<1>4. /\ First(r.buf, r.buf_len) \in Seq(Byte)
      /\ Len(First(r.buf, r.buf_len)) = r.buf_len
      /\ \A i \in 1 .. r.buf_len : First(r.buf, r.buf_len)[i] = r.buf[i]
  BY <1>1, <1>3, FirstDrop
<1>5. /\ Message(r) \in Seq(Byte)
      /\ Len(Message(r)) = Len(r.state.data) + r.buf_len
  BY <1>2, <1>4, ByteConcat DEF Message
<1> QED BY <1>1, <1>2, <1>3, <1>4, <1>5, LenProperties

LEMMA CopyIntoFacts ==
  ASSUME NEW buf \in Buffer, NEW at \in 0 .. BlockSize, NEW s \in Seq(Byte),
         at + Len(s) <= BlockSize
  PROVE  /\ CopyInto(buf, at, s) \in Buffer
         /\ First(CopyInto(buf, at, s), at + Len(s)) = First(buf, at) \o s
<1> DEFINE new == CopyInto(buf, at, s)
           n == at + Len(s)
<1>1. Len(s) \in Nat /\ n \in 0 .. BlockSize /\ BlockSize \in Nat
  BY LenProperties, SizeAssumption, SMT
<1>2. ASSUME NEW i \in 1 .. BlockSize
      PROVE  (IF i \in at + 1 .. at + Len(s) THEN s[i - at] ELSE buf[i]) \in Byte
  <2>1. i \in at + 1 .. at + Len(s) => i - at \in 1 .. Len(s)
    BY <1>1, SMT
  <2> QED BY <2>1, ElementOfSeq DEF Buffer
<1>3. new \in Buffer
  BY <1>2 DEF CopyInto, Buffer
<1>4. /\ buf \in Seq(Byte) /\ Len(buf) = BlockSize
      /\ new \in Seq(Byte) /\ Len(new) = BlockSize
  BY <1>1, <1>3, FunctionIsSeq DEF Buffer
<1> HIDE DEF new
<1>5. /\ First(new, n) \in Seq(Byte) /\ Len(First(new, n)) = n
      /\ \A i \in 1 .. n : First(new, n)[i] = new[i]
  BY <1>1, <1>4, FirstDrop
<1>6. /\ First(buf, at) \in Seq(Byte) /\ Len(First(buf, at)) = at
      /\ \A i \in 1 .. at : First(buf, at)[i] = buf[i]
  <2>1. at \in 0 .. Len(buf)
    BY <1>4
  <2> QED BY <1>4, <2>1, FirstDrop
<1>7. /\ First(buf, at) \o s \in Seq(Byte) /\ Len(First(buf, at) \o s) = n
      /\ \A i \in 1 .. n : (First(buf, at) \o s)[i] =
           IF i <= at THEN First(buf, at)[i] ELSE s[i - at]
  <2> DEFINE f == First(buf, at)
  <2>1. f \in Seq(Byte) /\ Len(f) = at
    BY <1>6
  <2> HIDE DEF f
  <2>2. /\ f \o s \in Seq(Byte) /\ Len(f \o s) = Len(f) + Len(s)
        /\ \A i \in 1 .. Len(f) + Len(s) :
             (f \o s)[i] = IF i <= Len(f) THEN f[i] ELSE s[i - Len(f)]
    BY <2>1, ByteConcat
  <2> QED BY <2>1, <2>2 DEF f
<1>8. ASSUME NEW i \in 1 .. n
      PROVE  First(new, n)[i] = (First(buf, at) \o s)[i]
  <2>1. i \in 1 .. BlockSize /\ (i \in at + 1 .. at + Len(s) <=> ~(i <= at))
        /\ (i <= at => i \in 1 .. at)
    BY <1>1, SMT
  <2>2. new[i] = IF i <= at THEN buf[i] ELSE s[i - at]
    BY <2>1 DEF new, CopyInto
  <2> QED BY <1>5, <1>6, <1>7, <2>1, <2>2
<1>9. First(new, n) = First(buf, at) \o s
  BY <1>5, <1>7, <1>8, SeqEqual
<1> QED BY <1>3, <1>9 DEF new

LEMMA TopUpFacts ==
  ASSUME NEW r \in Raw, NEW s \in Seq(Byte), r.buf_len + Len(s) <= BlockSize
  PROVE  /\ TopUp(r, s) \in Raw
         /\ TopUp(r, s).state = r.state /\ TopUp(r, s).count = r.count
         /\ TopUp(r, s).buf_len = r.buf_len + Len(s)
         /\ Message(TopUp(r, s)) = Message(r) \o s
<1> DEFINE t == TopUp(r, s)
           b == CopyInto(r.buf, r.buf_len, s)
<1>1. b \in Buffer /\ First(b, r.buf_len + Len(s)) = First(r.buf, r.buf_len) \o s
  BY RawFields, CopyIntoFacts
<1>2. r.buf_len + Len(s) \in 0 .. BlockSize
  BY RawFields, LenProperties, SizeAssumption, SMT
<1> HIDE DEF b
<1>3. t = [r EXCEPT !.buf = b, !.buf_len = @ + Len(s)]
  BY DEF TopUp, b
<1>4. /\ t.state = r.state /\ t.count = r.count /\ t.buf = b
      /\ t.buf_len = r.buf_len + Len(s) /\ t \in Raw
  BY <1>1, <1>2, <1>3 DEF Raw
<1> HIDE DEF t
<1>5. Message(t) = r.state.data \o (First(r.buf, r.buf_len) \o s)
  BY <1>1, <1>4 DEF Message
<1>6. Message(t) = Message(r) \o s
  <2> DEFINE f == First(r.buf, r.buf_len)
             d == r.state.data
  <2>1. f \in Seq(Byte) /\ d \in Seq(Byte)
    BY RawFields
  <2> HIDE DEF f, d
  <2>2. (d \o f) \o s = d \o (f \o s)
    BY <2>1, ByteAssociative
  <2> QED BY <1>5, <2>2 DEF Message, f, d
<1> QED BY <1>4, <1>6 DEF t

LEMMA FlushFacts ==
  ASSUME NEW r \in Raw, r.buf_len = BlockSize, Len(r.state.data) % BlockSize = 0
  PROVE  /\ Flush(r) \in Raw
         /\ Flush(r).buf_len = 0 /\ Flush(r).count = r.count
         /\ Flush(r).state.seed = r.state.seed
         /\ Flush(r).state.data = Message(r)
         /\ Len(Flush(r).state.data) % BlockSize = 0
<1> DEFINE st == CompressBlocks(r.state, r.buf)
<1>1. First(r.buf, r.buf_len) = r.buf
  BY RawFields, SubSeqFull DEF First
<1>2. /\ st.seed = r.state.seed /\ st.data = r.state.data \o r.buf /\ st \in Chain
  BY RawFields, ByteConcat DEF CompressBlocks, Chain
<1> HIDE DEF st
<1>3. Flush(r) = [r EXCEPT !.state = st, !.buf_len = 0]
  BY DEF Flush, st
<1>4. 0 \in 0 .. BlockSize
  BY SizeAssumption, SMT
<1>5. /\ Flush(r) \in Raw /\ Flush(r).state = st
      /\ Flush(r).buf_len = 0 /\ Flush(r).count = r.count
  BY <1>2, <1>3, <1>4 DEF Raw
<1>6. st.data = Message(r)
  BY <1>1, <1>2 DEF Message
<1>7. Len(Message(r)) % BlockSize = 0
  <2>1. /\ BlockSize \in Nat \ {0} /\ BlockSize \in Int
        /\ Len(r.state.data) \in Int /\ 0 \in 0 .. BlockSize - 1
        /\ BlockSize = BlockSize * 1 + 0 /\ 1 \in Int
    BY RawFields, SizeAssumption, SMT
  <2>2. BlockSize % BlockSize = 0
    BY <2>1, ModUnique
  <2>3. (Len(r.state.data) + BlockSize) % BlockSize = 0
    BY <2>1, <2>2, AlignedSum
  <2> QED BY <2>3, RawFields
<1> QED BY <1>2, <1>5, <1>6, <1>7

LEMMA AbsorbRestFacts ==
  ASSUME NEW r \in Raw, NEW data \in Seq(Byte),
         r.buf_len = 0, Len(r.state.data) % BlockSize = 0
  PROVE  /\ AbsorbRest(r, data) \in Raw
         /\ AbsorbRest(r, data).count = r.count
         /\ AbsorbRest(r, data).state.seed = r.state.seed
         /\ Len(AbsorbRest(r, data).state.data) % BlockSize = 0
         /\ AbsorbRest(r, data).buf_len < BlockSize
         /\ Message(AbsorbRest(r, data)) = r.state.data \o data
<1> DEFINE full == FullLen(Len(data))
           body == First(data, full)
           tail == Drop(data, full)
           st == CompressBlocks(r.state, body)
           b == CopyInto(r.buf, 0, tail)
           t == AbsorbRest(r, data)
<1>1. /\ full \in 0 .. Len(data) /\ full % BlockSize = 0
      /\ Len(data) - full \in 0 .. BlockSize - 1
  BY LenProperties, FullLenFacts
<1>2. /\ body \in Seq(Byte) /\ Len(body) = full
      /\ tail \in Seq(Byte) /\ Len(tail) = Len(data) - full
      /\ body \o tail = data
  BY <1>1, FirstDrop
<1> HIDE DEF full, body, tail
<1>3. st.seed = r.state.seed /\ st.data = r.state.data \o body /\ st \in Chain
  BY <1>2, RawFields, ByteConcat DEF CompressBlocks, Chain
<1>4. Len(st.data) % BlockSize = 0
  <2>1. /\ BlockSize \in Nat \ {0} /\ Len(r.state.data) \in Int /\ full \in Int
    BY <1>1, <1>2, RawFields, LenProperties, SizeAssumption, SMT
  <2>2. (Len(r.state.data) + full) % BlockSize = 0
    BY <1>1, <2>1, AlignedSum
  <2>3. Len(st.data) = Len(r.state.data) + full
    <3>1. r.state.data \in Seq(Byte)
      BY RawFields
    <3>2. Len(r.state.data \o body) = Len(r.state.data) + Len(body)
      BY <1>2, <3>1, ByteConcat
    <3> QED BY <1>2, <1>3, <3>2
  <2> QED BY <2>2, <2>3
<1>5. 0 \in 0 .. BlockSize /\ Len(tail) \in 0 .. BlockSize /\ Len(tail) < BlockSize
  BY <1>1, <1>2, SizeAssumption, SMT
<1>6. b \in Buffer /\ First(b, Len(tail)) = First(r.buf, 0) \o tail
  <2>1. 0 + Len(tail) = Len(tail) /\ 0 + Len(tail) <= BlockSize
    BY <1>5, SMT
  <2>2. r.buf \in Buffer
    BY RawFields
  <2>3. b \in Buffer /\ First(b, 0 + Len(tail)) = First(r.buf, 0) \o tail
    BY <1>2, <1>5, <2>1, <2>2, CopyIntoFacts
  <2> QED BY <2>1, <2>3
<1>7. First(r.buf, 0) = << >>
  BY RawFields
<1> HIDE DEF st, b
<1>8. CASE tail = << >>
  <2>1. t = [r EXCEPT !.state = st]
    BY <1>8 DEF AbsorbRest, st, body, tail, full
  <2>2. /\ t \in Raw /\ t.state = st /\ t.count = r.count
        /\ t.buf = r.buf /\ t.buf_len = 0
    BY <1>3, <2>1 DEF Raw
  <2>3. body = data
    BY <1>2, <1>8, ByteConcat
  <2>4. Message(t) = (r.state.data \o data) \o << >>
    BY <1>3, <1>7, <2>2, <2>3 DEF Message
  <2>5. Message(t) = r.state.data \o data
    BY <2>4, RawFields, ByteConcat
  <2>6. 0 < BlockSize
    BY SizeAssumption, SMT
  <2> QED BY <1>3, <1>4, <2>2, <2>5, <2>6
<1>9. CASE tail # << >>
  <2>1. t = [[r EXCEPT !.state = st] EXCEPT !.buf = b, !.buf_len = Len(tail)]
    BY <1>9 DEF AbsorbRest, st, b, body, tail, full
  <2>2. /\ t \in Raw /\ t.state = st /\ t.count = r.count
        /\ t.buf = b /\ t.buf_len = Len(tail)
    BY <1>3, <1>5, <1>6, <2>1 DEF Raw
  <2>3. << >> \o tail = tail
    BY <1>2, ByteConcat
  <2>4. Message(t) = (r.state.data \o body) \o tail
    BY <1>3, <1>6, <1>7, <2>2, <2>3 DEF Message
  <2>5. Message(t) = r.state.data \o data
    <3>1. r.state.data \in Seq(Byte) /\ body \in Seq(Byte) /\ tail \in Seq(Byte)
      BY <1>2, RawFields
    <3>2. (r.state.data \o body) \o tail = r.state.data \o (body \o tail)
        BY <3>1, ByteAssociative
    <3> QED BY <1>2, <2>4, <3>2
  <2> QED BY <1>3, <1>4, <1>5, <2>2, <2>5
<1> QED BY <1>8, <1>9

(* `update' appends its input to the message and keeps the Raw well formed. *)
LEMMA AbsorbFacts ==
  ASSUME NEW r \in Raw, WellFormed(r), NEW data \in Seq(Byte)
  PROVE  /\ Absorb(r, data) \in Raw /\ WellFormed(Absorb(r, data))
         /\ Absorb(r, data).state.seed = r.state.seed
         /\ Message(Absorb(r, data)) = Message(r) \o data
<1> DEFINE c == [r EXCEPT !.count = CountAdd(@, Len(data))]
           room == BlockSize - r.buf_len
           new == (Len(Message(r)) + Len(data)) % CountMod
           t == Absorb(r, data)
           Good(x) == /\ x \in Raw /\ x.count = new
                      /\ x.state.seed = r.state.seed
                      /\ Len(x.state.data) % BlockSize = 0
                      /\ x.buf_len < BlockSize
                      /\ Message(x) = Message(r) \o data
<1>1. /\ Len(data) \in Nat /\ Len(Message(r)) \in Nat /\ Message(r) \in Seq(Byte)
      /\ r.buf_len \in 0 .. BlockSize /\ r.buf_len < BlockSize
      /\ Len(r.state.data) % BlockSize = 0
      /\ BlockSize \in Nat \ {0} /\ CountMod \in Nat \ {0}
  <2>1. /\ Message(r) \in Seq(Byte) /\ r.buf_len \in 0 .. BlockSize
        /\ r.buf_len < BlockSize /\ Len(r.state.data) % BlockSize = 0
    BY RawFields DEF WellFormed
  <2>2. Len(data) \in Nat /\ Len(Message(r)) \in Nat
    BY <2>1, LenProperties
  <2>3. BlockSize \in Nat \ {0} /\ CountMod \in Nat \ {0}
    BY SizeAssumption, SMT
  <2> QED BY <2>1, <2>2, <2>3
<1>2. new \in 0 .. CountMod - 1
  <2> DEFINE n == Len(Message(r)) + Len(data)
  <2>1. n \in Int
    BY <1>1, SMT
  <2> HIDE DEF n
  <2>2. n % CountMod \in 0 .. CountMod - 1
    BY <1>1, <2>1, DivMod
  <2> QED BY <2>2 DEF n
<1>3. CountAdd(r.count, Len(data)) = new
  <2>1. r.count = Len(Message(r)) % CountMod
    BY DEF WellFormed
  <2>2. Len(Message(r)) \in Int /\ Len(data) \in Int
    BY <1>1, SMT
  <2>3. ((Len(Message(r)) % CountMod) + Len(data)) % CountMod = new
    BY <1>1, <2>2, ModSum
  <2> QED BY <2>1, <2>3 DEF CountAdd
<1> HIDE DEF new
<1>4. /\ c \in Raw /\ c.state = r.state /\ c.buf = r.buf /\ c.buf_len = r.buf_len
      /\ c.count = new
  BY <1>2, <1>3 DEF Raw
<1>5. Message(c) = Message(r)
  BY <1>4 DEF Message
<1> HIDE DEF c
<1>6. ASSUME r.buf_len = 0 PROVE Good(t)
  <2>1. t = AbsorbRest(c, data)
    BY <1>6 DEF Absorb, c
  <2>2. First(r.buf, 0) = << >> /\ r.state.data \in Seq(Byte)
    BY <1>6, RawFields
  <2>3. Message(r) = r.state.data
    BY <1>6, <2>2, ByteConcat DEF Message
  <2>4. c.buf_len = 0 /\ Len(c.state.data) % BlockSize = 0
    BY <1>1, <1>4, <1>6
  <2>5. /\ t \in Raw /\ t.count = c.count /\ t.state.seed = c.state.seed
        /\ Len(t.state.data) % BlockSize = 0 /\ t.buf_len < BlockSize
        /\ Message(t) = c.state.data \o data
    <3> HIDE DEF t
    <3>1. c \in Raw /\ t = AbsorbRest(c, data)
      BY <1>4, <2>1
    <3> QED BY <2>4, <3>1, AbsorbRestFacts
  <2> QED BY <1>4, <2>3, <2>5
<1>7. ASSUME r.buf_len > 0, Len(data) < room PROVE Good(t)
  <2>1. r.buf_len # 0 /\ ~(Len(data) >= room)
        /\ r.buf_len + Len(data) <= BlockSize /\ r.buf_len + Len(data) < BlockSize
    BY <1>1, <1>7, SMT
  <2>2. t = TopUp(c, data)
    BY <1>7, <2>1 DEF Absorb, c
  <2>3. /\ t \in Raw /\ t.state = c.state /\ t.count = c.count
        /\ t.buf_len = c.buf_len + Len(data)
        /\ Message(t) = Message(c) \o data
    BY <1>4, <2>1, <2>2, TopUpFacts
  <2> QED BY <1>1, <1>4, <1>5, <2>1, <2>3
<1>8. ASSUME r.buf_len > 0, Len(data) >= room PROVE Good(t)
  <2> DEFINE front == First(data, room)
             back == Drop(data, room)
             u == TopUp(c, front)
             f == Flush(u)
  <2>1. /\ r.buf_len # 0 /\ ~(Len(data) < room) /\ room \in 0 .. Len(data)
        /\ r.buf_len + room = BlockSize /\ BlockSize <= BlockSize
    BY <1>1, <1>8, SMT
  <2>2. t = AbsorbRest(f, back)
    BY <1>8, <2>1 DEF Absorb, c
  <2> HIDE DEF room
  <2>3. /\ front \in Seq(Byte) /\ Len(front) = room
        /\ back \in Seq(Byte) /\ front \o back = data
    BY <2>1, FirstDrop
  <2> HIDE DEF front, back
  <2>4. c.buf_len + Len(front) <= BlockSize /\ c.buf_len + Len(front) = BlockSize
    BY <1>4, <2>1, <2>3
  <2>5. /\ u \in Raw /\ u.state = c.state /\ u.count = c.count
        /\ u.buf_len = BlockSize /\ Message(u) = Message(r) \o front
    BY <1>4, <1>5, <2>3, <2>4, TopUpFacts
  <2> HIDE DEF u
  <2>6. u.buf_len = BlockSize /\ Len(u.state.data) % BlockSize = 0
    BY <1>1, <1>4, <2>5
  <2>7. /\ f \in Raw /\ f.buf_len = 0 /\ f.count = u.count
        /\ f.state.seed = u.state.seed /\ f.state.data = Message(u)
        /\ Len(f.state.data) % BlockSize = 0
    BY <2>5, <2>6, FlushFacts
  <2> HIDE DEF f
  <2>8. /\ t \in Raw /\ t.count = f.count /\ t.state.seed = f.state.seed
        /\ Len(t.state.data) % BlockSize = 0 /\ t.buf_len < BlockSize
        /\ Message(t) = f.state.data \o back
    <3> HIDE DEF t
    <3>1. t = AbsorbRest(f, back)
      BY <2>2 DEF t
    <3> QED BY <2>3, <2>7, <3>1, AbsorbRestFacts
  <2>9. (Message(r) \o front) \o back = Message(r) \o (front \o back)
    BY <1>1, <2>3, ByteAssociative
  <2> QED BY <1>4, <2>3, <2>5, <2>7, <2>8, <2>9
<1>9. Good(t)
  <2>1. \/ r.buf_len = 0
        \/ r.buf_len > 0 /\ Len(data) < room
        \/ r.buf_len > 0 /\ Len(data) >= room
    <3> DEFINE n == r.buf_len
    <3>1. n \in 0 .. BlockSize /\ Len(data) \in Nat /\ BlockSize \in Nat
      BY <1>1, SMT
    <3> HIDE DEF n
    <3>2. \/ n = 0
          \/ n > 0 /\ Len(data) < BlockSize - n
          \/ n > 0 /\ Len(data) >= BlockSize - n
      BY <3>1, SMT
    <3> QED BY <3>2 DEF n
  <2> QED BY <1>6, <1>7, <1>8, <2>1
<1>10. Len(Message(t)) = Len(Message(r)) + Len(data)
  BY <1>1, <1>9, ByteConcat
<1> QED BY <1>9, <1>10 DEF WellFormed, new

(* A hasher built from a block-aligned chaining value. *)
LEMMA FromPartsFacts ==
  ASSUME NEW st \in Chain, Len(st.data) % BlockSize = 0
  PROVE  LET r == FromParts(st, Len(st.data) % CountMod) IN
         /\ r \in Raw /\ WellFormed(r) /\ r.state = st /\ Message(r) = st.data
<1> DEFINE n == Len(st.data) % CountMod
           r == FromParts(st, n)
<1>1. st.data \in Seq(Byte) /\ Len(st.data) \in Nat
  BY LenProperties DEF Chain
<1>2. n \in 0 .. CountMod - 1
  <2>1. CountMod \in Nat \ {0} /\ Len(st.data) \in Int
    BY <1>1, SizeAssumption, SMT
  <2> QED BY <2>1, DivMod
<1>3. ZeroBuf \in Buffer /\ 0 \in 0 .. BlockSize /\ 0 < BlockSize
  BY SizeAssumption, ByteFacts, SMT DEF ZeroBuf, Buffer
<1> HIDE DEF n
<1>4. /\ r \in Raw /\ r.state = st /\ r.buf_len = 0 /\ r.count = n
      /\ r.buf = ZeroBuf
  BY <1>2, <1>3 DEF FromParts, Raw
<1> HIDE DEF r
<1>5. First(r.buf, 0) = << >>
  BY <1>4, RawFields
<1>6. Message(r) = st.data
  BY <1>1, <1>4, <1>5, ByteConcat DEF Message
<1>7. WellFormed(r)
  BY <1>3, <1>4, <1>6 DEF WellFormed, n
<1> QED BY <1>4, <1>6, <1>7 DEF r, n

LEMMA FreshFacts ==
  /\ Fresh \in Raw /\ WellFormed(Fresh)
  /\ Fresh.state.seed = "iv" /\ Message(Fresh) = << >>
  /\ Wiped \in Raw /\ WellFormed(Wiped)
  /\ Wiped.state.seed = "zero" /\ Message(Wiped) = << >>
<1>1. << >> \in Seq(Byte) /\ Len(<< >>) = 0
  BY EmptySeq
<1>2. 0 % BlockSize = 0 /\ 0 % CountMod = 0
  BY SizeAssumption, SMT
<1>3. /\ IV \in Chain /\ IV.data = << >> /\ IV.seed = "iv"
      /\ Zero \in Chain /\ Zero.data = << >> /\ Zero.seed = "zero"
  BY <1>1 DEF IV, Zero, Chain
<1>4. /\ Fresh = FromParts(IV, Len(IV.data) % CountMod)
      /\ Wiped = FromParts(Zero, Len(Zero.data) % CountMod)
  BY <1>1, <1>2, <1>3 DEF Fresh, Wiped, FromParts
<1>5. Len(IV.data) % BlockSize = 0 /\ Len(Zero.data) % BlockSize = 0
  BY <1>1, <1>2, <1>3
<1> QED BY <1>3, <1>4, <1>5, FromPartsFacts

(* A digest of a well-formed Raw is the digest of its message. *)
LEMMA DigestFacts ==
  ASSUME NEW r \in Raw, WellFormed(r)
  PROVE  /\ Digest(r) \in Digests
         /\ r.state.seed = "iv" => Digest(r) = RfcDigest(Message(r))
<1> DEFINE tail == First(r.buf, r.buf_len)
           last == FinalBlocks(r.count, tail)
<1>1. /\ tail \in Seq(Byte) /\ Len(tail) = r.buf_len /\ r.state \in Chain
      /\ r.state.data \in Seq(Byte) /\ r.state.seed \in {"iv", "zero"}
      /\ r.count \in 0 .. CountMod - 1
      /\ Len(Message(r)) = Len(r.state.data) + Len(tail)
  BY RawFields
<1>2. /\ Len(tail) < BlockSize /\ Len(r.state.data) % BlockSize = 0
      /\ r.count = (Len(r.state.data) + Len(tail)) % CountMod
  BY <1>1 DEF WellFormed
<1>3. r.count \in Nat
  BY <1>1, SMT
<1> HIDE DEF tail
<1>4. last \in Seq(Byte)
  BY <1>1, <1>2, <1>3, FinalBlocksFacts
<1> HIDE DEF last
<1>5. CompressBlocks(r.state, last) \in Chain
  <2>1. r.state.data \o last \in Seq(Byte)
    BY <1>1, <1>4, ByteConcat
  <2> QED BY <1>1, <2>1 DEF CompressBlocks, Chain
<1>6. Digest(r) \in Digests
  BY <1>5 DEF Digest, FinalizeWith, StateToBytes, Digests, last, tail
<1>7. ASSUME r.state.seed = "iv"
      PROVE  Digest(r) = RfcDigest(Message(r))
  <2> DEFINE st == r.state
  <2>1. /\ st \in Chain /\ st.seed = "iv" /\ Len(st.data) % BlockSize = 0
        /\ r.count = (Len(st.data) + Len(tail)) % CountMod
    BY <1>1, <1>2, <1>7
  <2> HIDE DEF st
  <2>2. FinalizeWith(st, (Len(st.data) + Len(tail)) % CountMod, tail)
          = RfcDigest(st.data \o tail)
    BY <1>1, <1>2, <2>1, FinalizeWithCorrect
  <2>3. FinalizeWith(st, r.count, tail) = RfcDigest(st.data \o tail)
    BY <2>1, <2>2
  <2> QED BY <2>3 DEF Digest, Message, st, tail
<1> QED BY <1>6, <1>7

(***************************************************************************)
(* A well-formed Raw is determined by its message, up to stale bytes.      *)
(***************************************************************************)
LEMMA MessageDetermines ==
  ASSUME NEW r \in Raw, WellFormed(r), NEW s \in Raw, WellFormed(s),
         r.state.seed = s.state.seed, Message(r) = Message(s)
  PROVE  Observable(r) = Observable(s)
<1> DEFINE d == r.state.data
           e == s.state.data
           f == First(r.buf, r.buf_len)
           g == First(s.buf, s.buf_len)
<1>1. /\ d \in Seq(Byte) /\ f \in Seq(Byte) /\ Len(d) \in Nat /\ Len(f) = r.buf_len
      /\ e \in Seq(Byte) /\ g \in Seq(Byte) /\ Len(e) \in Nat /\ Len(g) = s.buf_len
      /\ r.buf_len \in 0 .. BlockSize /\ r.buf_len < BlockSize
      /\ s.buf_len \in 0 .. BlockSize /\ s.buf_len < BlockSize
      /\ Len(d) % BlockSize = 0 /\ Len(e) % BlockSize = 0
      /\ r.count = s.count /\ d \o f = e \o g
  BY RawFields DEF WellFormed, Message
<1> HIDE DEF d, e, f, g
<1>2. Len(d) + Len(f) = Len(e) + Len(g)
  <2>1. d \in Seq(Byte) /\ f \in Seq(Byte) /\ e \in Seq(Byte) /\ g \in Seq(Byte)
    BY <1>1
  <2>2. Len(d \o f) = Len(d) + Len(f) /\ Len(e \o g) = Len(e) + Len(g)
    BY <2>1, ByteConcat
  <2> QED BY <1>1, <2>2
<1>3. Len(d) = Len(e) /\ Len(f) = Len(g)
  <2>1. /\ Len(d) \in Int /\ Len(e) \in Int /\ BlockSize \in Nat \ {0}
        /\ Len(d) - Len(e) < BlockSize /\ Len(e) - Len(d) < BlockSize
    <3> DEFINE a == r.buf_len
               b == s.buf_len
    <3>1. /\ a \in 0 .. BlockSize /\ a < BlockSize /\ b \in 0 .. BlockSize
          /\ b < BlockSize /\ Len(d) + a = Len(e) + b
      BY <1>1, <1>2
    <3> HIDE DEF a, b
    <3> QED BY <1>1, <3>1, SizeAssumption, SMT
  <2>2. Len(d) = Len(e)
    BY <1>1, <2>1, AlignedUnique
  <2>3. Len(f) \in Int /\ Len(g) \in Int
    BY <1>1, LenProperties, SMT
  <2> QED BY <1>2, <2>1, <2>2, <2>3, SMT
<1>4. d = e
  <2>1. ASSUME NEW i \in 1 .. Len(d) PROVE d[i] = e[i]
    <3>1. /\ i \in 1 .. Len(d) + Len(f) /\ i <= Len(d)
          /\ i \in 1 .. Len(e) + Len(g) /\ i <= Len(e)
      BY <1>1, <1>3, <2>1, LenProperties, SMT
    <3>2. (d \o f)[i] = d[i] /\ (e \o g)[i] = e[i]
      BY <1>1, <3>1, ByteConcat
    <3> QED BY <1>1, <3>2
  <2> QED BY <1>1, <1>3, <2>1, SeqEqual
<1>5. f = g
  <2>1. ASSUME NEW i \in 1 .. Len(f) PROVE f[i] = g[i]
    <3> DEFINE j == Len(d) + i
    <3>1. /\ j \in 1 .. Len(d) + Len(f) /\ ~(j <= Len(d)) /\ j - Len(d) = i
      BY <1>1, <2>1, LenProperties, SMT
    <3> HIDE DEF j
    <3>2. (d \o f)[j] = f[i] /\ (e \o g)[j] = g[i]
      BY <1>1, <1>3, <3>1, ByteConcat
    <3> QED BY <1>1, <3>2
  <2> QED BY <1>1, <1>3, <2>1, SeqEqual
<1>6. r.state = s.state
  <2>1. /\ r.state = [seed |-> r.state.seed, data |-> r.state.data]
        /\ s.state = [seed |-> s.state.seed, data |-> s.state.data]
    BY RawFields DEF Chain
  <2> QED BY <1>4, <2>1 DEF d, e
<1>7. r.buf_len = s.buf_len
  BY <1>1, <1>3
<1>8. /\ Observable(r) = [state |-> r.state, buf |-> f, buf_len |-> r.buf_len,
                          count |-> r.count]
      /\ Observable(s) = [state |-> s.state, buf |-> g, buf_len |-> s.buf_len,
                          count |-> s.count]
  BY DEF Observable, Raw, f, g
<1> QED BY <1>1, <1>5, <1>6, <1>7, <1>8
=============================================================================
