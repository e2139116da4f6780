---------------------------- MODULE BatchProofs ----------------------------
(***************************************************************************)
(* The batch entry points put every digest where its input was, hash the   *)
(* order that a fused kernel can use, and implement BatchHash and Engine,  *)
(* for every batch, every number of slots, every order an unstable sort    *)
(* may return and every platform.                                          *)
(***************************************************************************)
EXTENDS BatchCalls, FiniteSetTheorems, TLAPS

(* The scheduler inside, with everything that is proved of it. *)
S == INSTANCE DispatchProofs WITH
  inputs <- sin, outputs <- sout, phase <- sphase,
  i <- si, run <- srun, done <- sdone, call <- scall

(* What the scheduler assumes of its constants holds of ours.              *)
LEMMA InnerAssumption ==
  /\ Platforms \subseteq {"none", "pair", "avx2", "avx512", "neon"}
  /\ \A b \in Batches : Len(b) \in Nat /\ \A l \in 1 .. Len(b) : b[l].len \in Nat
  /\ Slack \subseteq Nat
BY EngineAssumption, PlatformsAssumption

LEMMA LeastNat ==
  ASSUME NEW T, T \subseteq Nat, T # {}
  PROVE  \E x \in T : \A y \in T : x <= y
BY S!LeastNat, InnerAssumption

(***************************************************************************)
(* The two scans.                                                          *)
(***************************************************************************)
(* What the counter of a scan may be, on the first n inputs. *)
Counts(ms, n, f) ==
  /\ f \in [1 .. n -> Nat \ {0}]
  /\ \A j \in 1 .. n :
       f[j] = IF j > 1 /\ Length(ms[j - 1]) = Length(ms[j]) THEN f[j - 1] + 1 ELSE 1

(* One step of the scan. *)
LEMMA CountsStep ==
  ASSUME NEW ms, NEW n \in Nat, NEW f, Counts(ms, n, f)
  PROVE  \E g : Counts(ms, n + 1, g)
<1> DEFINE v == IF n + 1 > 1 /\ Length(ms[n]) = Length(ms[n + 1]) THEN f[n] + 1 ELSE 1
           g == [j \in 1 .. n + 1 |-> IF j = n + 1 THEN v ELSE f[j]]
<1>1. f \in [1 .. n -> Nat \ {0}]
  BY DEF Counts
<1>2. v \in Nat \ {0}
  <2>1. n + 1 > 1 => n \in 1 .. n
    OBVIOUS
  <2> QED BY <1>1, <2>1
<1>3. ASSUME NEW j \in 1 .. n + 1
      PROVE  /\ g[j] \in Nat \ {0}
             /\ g[j] = IF j > 1 /\ Length(ms[j - 1]) = Length(ms[j]) THEN g[j - 1] + 1 ELSE 1
  <2>1. CASE j = n + 1
    <3>1. j - 1 = n /\ (j > 1 => n \in 1 .. n + 1 /\ n # n + 1)
      BY <2>1
    <3>2. g[j] = v /\ (j > 1 => g[n] = f[n])
      BY <2>1, <3>1
    <3> QED BY <1>2, <2>1, <3>1, <3>2
  <2>2. CASE j # n + 1
    <3>1. j \in 1 .. n /\ (j > 1 => j - 1 \in 1 .. n + 1 /\ j - 1 # n + 1)
      BY <2>2
    <3>2. g[j] = f[j] /\ (j > 1 => g[j - 1] = f[j - 1])
      BY <2>2, <3>1
    <3> QED BY <1>1, <3>1, <3>2 DEF Counts
  <2> QED BY <2>1, <2>2
<1>4. g \in [1 .. n + 1 -> Nat \ {0}]
  BY <1>3
<1> HIDE DEF g
<1> QED BY <1>3, <1>4 DEF Counts

LEMMA CountsExists ==
  ASSUME NEW ms, NEW n \in Nat
  PROVE  \E f : Counts(ms, n, f)
<1> DEFINE Bad == {m \in Nat : ~ \E f : Counts(ms, m, f)}
<1> SUFFICES ASSUME Bad # {} PROVE FALSE
  OBVIOUS
<1>1. PICK m \in Bad : \A l \in Bad : m <= l
  BY LeastNat
<1>2. m # 0
  <2>1. Counts(ms, 0, [j \in 1 .. 0 |-> 1])
    BY DEF Counts
  <2> QED BY <2>1
<1>3. m - 1 \in Nat /\ ~(m <= m - 1) /\ (m - 1) + 1 = m
  BY <1>2
<1>4. PICK f : Counts(ms, m - 1, f)
  BY <1>1, <1>3
<1>5. \E g : Counts(ms, m, g)
  BY <1>3, <1>4, CountsStep
<1> QED BY <1>5

(* The recursive definition of the counter defines it. *)
LEMMA RunAtFacts ==
  ASSUME NEW ms, Len(ms) \in Nat
  PROVE  Counts(ms, Len(ms), RunAt(ms))
<1> DEFINE n == Len(ms)
           Rec(f) == f = [j \in 1 .. n |->
             IF j > 1 /\ Length(ms[j - 1]) = Length(ms[j]) THEN f[j - 1] + 1 ELSE 1]
<1>1. RunAt(ms) = CHOOSE f : Rec(f)
  BY DEF RunAt
<1>2. PICK f : Counts(ms, n, f)
  BY CountsExists
<1>3. Rec(f)
  BY <1>2 DEF Counts
<1>4. Rec(RunAt(ms))
  BY <1>1, <1>3
<1> DEFINE r == RunAt(ms)
           Bad == {j \in 1 .. n : ~(r[j] \in Nat \ {0})}
<1>5. \A j \in 1 .. n :
        r[j] = IF j > 1 /\ Length(ms[j - 1]) = Length(ms[j]) THEN r[j - 1] + 1 ELSE 1
  BY <1>4
<1> HIDE DEF r
<1>6. ASSUME Bad # {} PROVE FALSE
  <2>0. Bad \subseteq Nat
    OBVIOUS
  <2> HIDE DEF Bad
  <2>1. PICK m \in Bad : \A l \in Bad : m <= l
    BY <1>6, <2>0, LeastNat
  <2> USE DEF Bad
  <2>2. m > 1
    BY <1>5, <2>1
  <2>3. m - 1 \in 1 .. n /\ ~(m <= m - 1)
    BY <2>2
  <2>4. r[m - 1] \in Nat \ {0}
    BY <2>1, <2>3
  <2> QED BY <1>5, <2>4
<1>7. r \in [1 .. n -> Nat \ {0}]
  BY <1>4, <1>6 DEF r
<1> QED BY <1>5, <1>7 DEF Counts, r

(* What has_simd_sized_run counts: at each input the counter is the length *)
(* of the longest run of one length that ends there.                       *)
THEOREM RunAtMeasures ==
  ASSUME NEW ms, Len(ms) \in Nat, NEW l \in 1 .. Len(ms)
  PROVE  /\ RunAt(ms)[l] \in 1 .. l
         /\ \A j \in l - RunAt(ms)[l] + 1 .. l : Length(ms[j]) = Length(ms[l])
         /\ RunAt(ms)[l] < l => Length(ms[l - RunAt(ms)[l]]) # Length(ms[l])
<1> DEFINE r == RunAt(ms)
           Longest(at) ==
             /\ r[at] \in 1 .. at
             /\ \A j \in at - r[at] + 1 .. at : Length(ms[j]) = Length(ms[at])
             /\ r[at] < at => Length(ms[at - r[at]]) # Length(ms[at])
           Bad == {at \in 1 .. Len(ms) : ~Longest(at)}
<1>1. /\ \A at \in 1 .. Len(ms) : r[at] \in Nat \ {0}
      /\ \A at \in 1 .. Len(ms) :
           r[at] = IF at > 1 /\ Length(ms[at - 1]) = Length(ms[at]) THEN r[at - 1] + 1 ELSE 1
  BY RunAtFacts DEF Counts
<1> HIDE DEF r
<1>2. Bad = {}
  <2>1. SUFFICES ASSUME Bad # {} PROVE FALSE
    OBVIOUS
  <2>2. Bad \subseteq Nat
    OBVIOUS
  <2> HIDE DEF Bad
  <2>3. PICK at \in Bad : \A b \in Bad : at <= b
    BY <2>1, <2>2, LeastNat
  <2>4. at \in 1 .. Len(ms) /\ at \in Nat /\ ~Longest(at)
    BY <2>3 DEF Bad
  <2>5. CASE at > 1 /\ Length(ms[at - 1]) = Length(ms[at])
    <3>1. at - 1 \in 1 .. Len(ms) /\ at - 1 \notin Bad
      BY <2>2, <2>3, <2>4, <2>5
    <3>2. Longest(at - 1)
      BY <3>1 DEF Bad
    <3> DEFINE q == r[at - 1]
    <3>3. r[at] = q + 1 /\ q \in 1 .. at - 1
      BY <1>1, <2>4, <2>5, <3>2
    <3>4. \A j \in (at - 1) - q + 1 .. at - 1 : Length(ms[j]) = Length(ms[at])
      BY <2>5, <3>2
    <3>5. q < at - 1 => Length(ms[(at - 1) - q]) # Length(ms[at])
      BY <2>5, <3>2
    <3> HIDE DEF q, Longest
    <3>6. /\ at - (q + 1) + 1 = (at - 1) - q + 1 /\ at - (q + 1) = (at - 1) - q
          /\ q + 1 \in 1 .. at /\ (q + 1 < at => q < at - 1)
      BY <2>4, <3>3
    <3>7. \A j \in at - (q + 1) + 1 .. at : Length(ms[j]) = Length(ms[at])
      <4>1. \A j \in at - (q + 1) + 1 .. at : j = at \/ j \in (at - 1) - q + 1 .. at - 1
        BY <2>4, <3>3
      <4> QED BY <3>4, <4>1
    <3>8. Longest(at)
      BY <3>3, <3>5, <3>6, <3>7 DEF Longest
    <3> QED BY <2>4, <3>8
  <2>6. CASE ~(at > 1 /\ Length(ms[at - 1]) = Length(ms[at]))
    <3>1. r[at] = 1
      BY <1>1, <2>4, <2>6
    <3>2. \A j \in at - 1 + 1 .. at : j = at
      BY <2>4
    <3> QED BY <2>4, <2>6, <3>1, <3>2
  <2> QED BY <2>5, <2>6
<1>3. Longest(l)
  BY <1>2
<1> QED BY <1>3 DEF r

(* A counter of SimdRun means a run of that length, and the other way      *)
(* round: the scan that decides finds the runs that there are.             *)
LEMMA RunFacts ==
  ASSUME NEW ms, Len(ms) \in Nat
  PROVE  HasSimdSizedRun(ms) <=> FusedRun(ms)
<1> DEFINE n == Len(ms)
           r == RunAt(ms)
           same(j) == Length(ms[j - 1]) = Length(ms[j])
<1>1. /\ n \in Nat
      /\ \A j \in 1 .. n : r[j] \in Nat \ {0}
      /\ \A j \in 1 .. n : r[j] = IF j > 1 /\ same(j) THEN r[j - 1] + 1 ELSE 1
  BY RunAtFacts DEF Counts
<1>2. HasSimdSizedRun(ms) <=> \E j \in 1 .. n : r[j] >= 4
  BY DEF HasSimdSizedRun, SimdRun
<1>3. FusedRun(ms) <=> \E lo \in 1 .. n - 3 : \A j \in lo .. lo + 3 : Length(ms[j]) = Length(ms[lo])
  <2>1. n - SimdRun + 1 = n - 3 /\ \A lo \in Nat : lo + SimdRun - 1 = lo + 3
    BY <1>1 DEF SimdRun
  <2>2. \A lo \in Nat :
          EqualFrom(ms, lo) <=> \A j \in lo .. lo + 3 : Length(ms[j]) = Length(ms[lo])
    BY <2>1 DEF EqualFrom
  <2>3. FusedRun(ms) <=> \E lo \in 1 .. n - 3 : EqualFrom(ms, lo)
    BY <2>1 DEF FusedRun
  <2>4. 1 .. n - 3 \subseteq Nat
    BY <1>1
  <2> QED BY <2>2, <2>3, <2>4
<1> HIDE DEF n, r
<1>4. ASSUME NEW j \in 1 .. n, r[j] >= 4
      PROVE  \E lo \in 1 .. n - 3 : \A l \in lo .. lo + 3 : Length(ms[l]) = Length(ms[lo])
  <2>1. j > 1 /\ same(j) /\ r[j - 1] >= 3 /\ j - 1 \in 1 .. n
    BY <1>1, <1>4
  <2>2. j - 1 > 1 /\ same(j - 1) /\ r[j - 2] >= 2 /\ j - 2 \in 1 .. n
    <3>1. (j - 1) - 1 = j - 2
      BY <1>1
    <3> QED BY <1>1, <2>1, <3>1
  <2>3. j - 2 > 1 /\ same(j - 2) /\ j - 3 \in 1 .. n
    <3>1. (j - 2) - 1 = j - 3
      BY <1>1
    <3> QED BY <1>1, <2>2, <3>1
  <2>4. \A l \in j - 3 .. (j - 3) + 3 : l = j - 3 \/ l = j - 2 \/ l = j - 1 \/ l = j
    BY <1>1
  <2>5. (j - 1) - 1 = j - 2 /\ (j - 2) - 1 = j - 3 /\ j - 3 \in 1 .. n - 3
    BY <1>1, <2>3
  <2>6. \A l \in j - 3 .. (j - 3) + 3 : Length(ms[l]) = Length(ms[j - 3])
    BY <2>1, <2>2, <2>3, <2>4, <2>5
  <2> QED BY <2>5, <2>6
<1>5. ASSUME NEW lo \in 1 .. n - 3, \A l \in lo .. lo + 3 : Length(ms[l]) = Length(ms[lo])
      PROVE  r[lo + 3] >= 4 /\ lo + 3 \in 1 .. n
  <2>1. /\ lo + 1 \in 1 .. n /\ lo + 2 \in 1 .. n /\ lo + 3 \in 1 .. n
        /\ lo \in 1 .. n /\ lo + 1 > 1 /\ lo + 2 > 1 /\ lo + 3 > 1
        /\ lo + 1 \in lo .. lo + 3 /\ lo + 2 \in lo .. lo + 3 /\ lo + 3 \in lo .. lo + 3
        /\ (lo + 1) - 1 = lo /\ (lo + 2) - 1 = lo + 1 /\ (lo + 3) - 1 = lo + 2
    BY <1>1
  <2>2. same(lo + 1) /\ same(lo + 2) /\ same(lo + 3)
    BY <1>5, <2>1
  <2>3. r[lo + 1] = r[lo] + 1 /\ r[lo + 2] = r[lo + 1] + 1 /\ r[lo + 3] = r[lo + 2] + 1
    BY <1>1, <2>1, <2>2
  <2>4. r[lo] \in Nat \ {0}
    BY <1>1, <2>1
  <2> QED BY <2>1, <2>3, <2>4
<1> QED BY <1>2, <1>3, <1>4, <1>5

(***************************************************************************)
(* Sorted orders.                                                          *)
(***************************************************************************)
(* A sorted order is a permutation of the indices, and orders by length.   *)
LEMMA OrderFacts ==
  ASSUME Len(inputs) \in Nat, NEW o \in SortedOrders
  PROVE  /\ o \in [Indices -> Indices] /\ Indices \subseteq Nat
         /\ \A l \in Indices : \E a \in Indices : o[a] = l
         /\ \A a, b \in Indices : o[a] = o[b] => a = b
         /\ \A a, b \in Indices : a < b => Length(inputs[o[a]]) <= Length(inputs[o[b]])
         /\ IsFiniteSet(Indices)
<1>1. /\ o \in [Indices -> Indices] /\ {o[a] : a \in Indices} = Indices
      /\ \A a, b \in Indices : a < b => Length(inputs[o[a]]) <= Length(inputs[o[b]])
  BY DEF SortedOrders
<1>2. \A l \in Indices : \E a \in Indices : o[a] = l
  BY <1>1
<1>3. IsFiniteSet(Indices)
  BY FS_Interval DEF Indices
<1>4. o \in Surjection(Indices, Indices)
  BY <1>1, <1>2 DEF Surjection
<1>5. o \in Injection(Indices, Indices)
  BY <1>3, <1>4, FS_Surjection
<1>6. \A a, b \in Indices : o[a] = o[b] => a = b
  BY <1>5 DEF Injection, IsInjective
<1>7. Indices \subseteq Nat
  BY DEF Indices
<1> QED BY <1>1, <1>2, <1>3, <1>6, <1>7

(* Sorting makes a run of a length if and only if enough inputs have it.   *)
LEMMA SortMakesRun ==
  ASSUME Len(inputs) \in Nat, \A j \in Indices : Length(inputs[j]) \in Nat,
         NEW o \in SortedOrders
  PROVE  FusedRun(SortedBy(o)) <=> Popular(inputs)
<1> DEFINE n == Len(inputs)
           len(a) == Length(inputs[o[a]])
           ms == SortedBy(o)
<1>0. n \in Nat /\ Indices = 1 .. n
  BY DEF Indices
<1>1. /\ o \in [1 .. n -> 1 .. n]
      /\ \A l \in 1 .. n : \E a \in 1 .. n : o[a] = l
      /\ \A a, b \in 1 .. n : o[a] = o[b] => a = b
      /\ \A a, b \in 1 .. n : a < b => len(a) <= len(b)
      /\ \A a \in 1 .. n : len(a) \in Nat
      /\ IsFiniteSet(1 .. n)
  <2>1. /\ o \in [1 .. n -> 1 .. n]
        /\ \A l \in 1 .. n : \E a \in 1 .. n : o[a] = l
        /\ \A a, b \in 1 .. n : o[a] = o[b] => a = b
        /\ \A a, b \in 1 .. n : a < b => len(a) <= len(b)
        /\ IsFiniteSet(1 .. n)
    BY <1>0, OrderFacts
  <2>2. \A a \in 1 .. n : o[a] \in 1 .. n
    BY <2>1
  <2> QED BY <1>0, <2>1, <2>2
<1>2. Len(ms) = n /\ \A a \in 1 .. n : ms[a] = inputs[o[a]]
  BY <1>0 DEF SortedBy
<1> HIDE DEF n, ms
<1>3. FusedRun(ms) <=> \E lo \in 1 .. n - 3 : \A a \in lo .. lo + 3 : len(a) = len(lo)
  <2>1. n - SimdRun + 1 = n - 3 /\ \A lo \in Nat : lo + SimdRun - 1 = lo + 3
    BY <1>0 DEF SimdRun
  <2>2. ASSUME NEW lo \in 1 .. n - 3
        PROVE  EqualFrom(ms, lo) <=> \A a \in lo .. lo + 3 : len(a) = len(lo)
    <3>1. lo \in Nat /\ lo \in 1 .. n /\ lo .. lo + 3 \subseteq 1 .. n
      BY <1>0
    <3>2. EqualFrom(ms, lo) <=> \A a \in lo .. lo + 3 : Length(ms[a]) = Length(ms[lo])
      BY <2>1, <3>1 DEF EqualFrom
    <3>3. \A a \in 1 .. n : Length(ms[a]) = len(a)
      BY <1>2
    <3> QED BY <3>1, <3>2, <3>3
  <2>3. FusedRun(ms) <=> \E lo \in 1 .. n - 3 : EqualFrom(ms, lo)
    BY <1>2, <2>1 DEF FusedRun
  <2> QED BY <2>2, <2>3
<1> DEFINE Alike(j) == {l \in 1 .. n : Length(inputs[l]) = Length(inputs[j])}
<1>4. Popular(inputs) <=> \E j \in 1 .. n : Cardinality(Alike(j)) >= 4
  BY DEF Popular, SimdRun, n
<1>5. \A j \in 1 .. n : IsFiniteSet(Alike(j)) /\ Cardinality(Alike(j)) \in Nat
  BY <1>1, FS_Subset, FS_CardinalityType
(* The four inputs of a run are four different inputs of one length.       *)
<1>6. ASSUME NEW lo \in 1 .. n - 3, \A a \in lo .. lo + 3 : len(a) = len(lo)
      PROVE  \E j \in 1 .. n : Cardinality(Alike(j)) >= 4
  <2> DEFINE R == lo .. lo + 3
             j == o[lo]
             A == Alike(j)
             f == [a \in R |-> o[a]]
  <2>1. R \subseteq 1 .. n /\ lo \in 1 .. n /\ lo \in R
    BY <1>0
  <2>2. IsFiniteSet(R) /\ Cardinality(R) = 4
    <3>1. lo \in Int /\ lo + 3 \in Int /\ ~(lo > lo + 3) /\ (lo + 3) - lo + 1 = 4
      BY <1>0
    <3> QED BY <3>1, FS_Interval
  <2>3. j \in 1 .. n
    BY <1>1, <2>1
  <2>4. \A a \in R : o[a] \in A
    BY <1>1, <1>6, <2>1
  <2>5. IsFiniteSet(A) /\ Cardinality(A) \in Nat
    BY <1>5, <2>3
  <2> HIDE DEF A, R
  <2>6. f \in Injection(R, A)
    BY <1>1, <2>1, <2>4 DEF Injection, IsInjective
  <2>7. Cardinality(R) <= Cardinality(A)
    BY <2>5, <2>6, FS_Injection
  <2>8. Cardinality(A) >= 4
    BY <2>2, <2>5, <2>7
  <2> QED BY <2>3, <2>8 DEF A
(* Inputs of one length stand together in a sorted order: from the first   *)
(* of them on there is room for all.                                       *)
<1>7. ASSUME NEW j \in 1 .. n, Cardinality(Alike(j)) >= 4
      PROVE  \E lo \in 1 .. n - 3 : \A a \in lo .. lo + 3 : len(a) = len(lo)
  <2> DEFINE A == Alike(j)
             Q == {a \in 1 .. n : o[a] \in A}
             f == [a \in Q |-> o[a]]
  <2>1. IsFiniteSet(A) /\ Cardinality(A) \in Nat /\ A \subseteq 1 .. n
    BY <1>5
  <2>2. \A a \in 1 .. n : a \in Q <=> len(a) = Length(inputs[j])
    BY <1>1
  <2>3. IsFiniteSet(Q) /\ Q \subseteq Nat /\ Q \subseteq 1 .. n
    <3>1. Q \subseteq 1 .. n /\ 1 .. n \subseteq Nat
      OBVIOUS
    <3> HIDE DEF Q
    <3> QED BY <1>1, <3>1, FS_Subset
  <2>4. f \in Surjection(Q, A)
    <3>1. \A l \in A : \E a \in Q : o[a] = l
      BY <1>1, <2>1
    <3> QED BY <3>1 DEF Surjection
  <2> HIDE DEF A, Q
  <2>5. Cardinality(A) <= Cardinality(Q) /\ Cardinality(Q) \in Nat
    BY <2>3, <2>4, FS_Surjection, FS_CardinalityType
  <2>6. Cardinality(Q) >= 4
    BY <1>7, <2>1, <2>5 DEF A
  <2>7. Q # {}
    <3>1. Cardinality({}) = 0
      BY FS_EmptySet
    <3>2. Q = {} => Cardinality(Q) = 0
      BY <3>1
    <3> HIDE DEF Q
    <3> QED BY <2>5, <2>6, <3>2
  <2>8. PICK lo \in Q : \A a \in Q : lo <= a
    BY <2>3, <2>7, LeastNat
  <2>9. PICK hi \in Q : hi >= lo + 3
    <3>1. SUFFICES ASSUME \A a \in Q : ~(a >= lo + 3) PROVE FALSE
      OBVIOUS
    <3>2. lo \in Nat /\ lo + 2 \in Int /\ ~(lo > lo + 2) /\ (lo + 2) - lo + 1 = 3
      BY <2>3
    <3>3. Q \subseteq lo .. lo + 2
      BY <2>3, <2>8, <3>1, <3>2
    <3>4. IsFiniteSet(lo .. lo + 2) /\ Cardinality(lo .. lo + 2) = 3
      BY <3>2, FS_Interval
    <3> DEFINE I == lo .. lo + 2
    <3>5. Q \subseteq I /\ IsFiniteSet(I) /\ Cardinality(I) = 3
      BY <3>3, <3>4
    <3> HIDE DEF I
    <3>6. Cardinality(Q) <= Cardinality(I)
      BY <3>5, FS_Subset, Zenon
    <3> QED BY <2>5, <2>6, <3>5, <3>6
  <2>10. lo \in 1 .. n /\ hi \in 1 .. n /\ lo \in 1 .. n - 3 /\ hi \in Nat /\ lo \in Nat
    BY <1>0, <2>3, <2>9
  <2>11. len(lo) = Length(inputs[j]) /\ len(hi) = len(lo) /\ len(lo) \in Nat
    BY <1>1, <2>2, <2>10
  <2>12. ASSUME NEW a \in lo .. lo + 3 PROVE len(a) = len(lo)
    <3>1. a \in 1 .. n /\ (lo < a \/ lo = a) /\ (a < hi \/ a = hi)
      BY <1>0, <2>9, <2>10
    <3>2. (lo < a => len(lo) <= len(a)) /\ (a < hi => len(a) <= len(hi)) /\ len(a) \in Nat
      BY <1>1, <2>10, <3>1
    <3> QED BY <2>11, <3>1, <3>2
  <2> QED BY <2>10, <2>12
<1> QED BY <1>3, <1>4, <1>6, <1>7 DEF ms

(***************************************************************************)
(* The inductive invariant.                                                *)
(***************************************************************************)
Fixed ==
  /\ entry \in {"many", "grouped", "hex"}
  /\ platform \in Platforms
  /\ Len(inputs) \in Nat /\ Len(outputs) \in Nat
  /\ \A j \in Indices : Length(inputs[j]) \in Nat

(* Where the call is, and what its entry check has established. *)
Places ==
  /\ phase \in {"enter", "direct", "sort", "temp", "copy", "done", "panicked"}
  /\ k \in 0 .. Len(inputs) /\ (phase \notin {"copy", "done"} => k = 0)
  /\ phase \in {"sort", "temp", "copy", "done"} => Len(inputs) <= Len(outputs)
  /\ phase = "direct" /\ entry # "many" => Len(inputs) <= Len(outputs)
  /\ phase = "panicked" => Len(outputs) < Len(inputs)
  /\ phase = "sort" => entry = "grouped"
  /\ phase \in {"temp", "copy"} => entry \in {"grouped", "hex"}

(* What became of the two scans and of the sort. *)
SortPaid ==
  order \in SortedOrders /\ ~FusedRun(inputs) /\ FusedRun(SortedBy(order))
Grouping ==
  /\ order = << >> \/ order \in SortedOrders
  /\ entry = "grouped" =>
       /\ phase = "sort" => ~FusedRun(inputs)
       /\ phase \in {"temp", "copy"} => SortPaid
       /\ phase = "direct" => ~(Popular(inputs) /\ ~FusedRun(inputs))
       /\ phase = "done" =>
            IF temp = << >> THEN ~(Popular(inputs) /\ ~FusedRun(inputs)) ELSE SortPaid

(* The place of the a-th digest of temp. *)
Place(a) == IF entry = "grouped" THEN order[a] ELSE a
Hashed == IF phase = "temp" /\ entry = "grouped" THEN SortedBy(order) ELSE inputs
Digested == [a \in Indices |-> Digest(inputs[Place(a)])]
Temp ==
  /\ phase \in {"enter", "direct", "sort", "temp", "panicked"} => temp = << >>
  /\ phase = "copy" => temp = Digested
  /\ phase = "done" => temp = << >> \/ temp = Digested

(* The caller's slots: those written so far hold their own digest, the     *)
(* others what the caller left in them.                                    *)
Written ==
  CASE phase = "copy" -> {Place(a) : a \in 1 .. k}
    [] phase = "done" -> Indices
    [] OTHER -> {}
Slots ==
  IF phase = "direct" /\ sphase # "out" THEN outputs = sout
  ELSE outputs = [s \in 1 .. Len(outputs) |->
                    IF s \in Written THEN Digest(inputs[s]) ELSE Untouched]

(* The call of hash_many_dispatch, before it and while it lasts. *)
Inner ==
  /\ sphase # "out" =>
       /\ phase \in {"direct", "temp"} /\ S!Inv /\ sin = Hashed
       /\ Len(sout) = IF phase = "temp" THEN Len(inputs) ELSE Len(outputs)
  /\ phase \in {"enter", "sort"} => sphase = "out"
  /\ sphase = "out" /\ phase \in {"enter", "direct", "sort", "temp"} => scall = D!NoCall

BatchInv == Fixed /\ Places /\ Grouping /\ Temp /\ Slots /\ Inner

(***************************************************************************)
(* It holds initially, and every step keeps it.                            *)
(***************************************************************************)
LEMMA BatchInitInv == BatchInit => BatchInv
<1> SUFFICES ASSUME BatchInit PROVE BatchInv
  OBVIOUS
<1>1. PICK s \in Slack :
        /\ Len(inputs) + s >= 1
        /\ outputs = [j \in 1 .. Len(inputs) + s - 1 |-> Untouched]
  BY DEF BatchInit, Init
<1>2. /\ entry \in {"many", "grouped", "hex"} /\ platform \in Platforms
      /\ phase = "enter" /\ order = << >> /\ temp = << >> /\ k = 0
      /\ sphase = "out" /\ scall = D!NoCall
      /\ inputs \in Batches
  BY DEF BatchInit, Init
<1>3. Len(inputs) \in Nat /\ \A j \in Indices : Length(inputs[j]) \in Nat
  BY <1>2, EngineAssumption DEF Indices, Length
<1>4. Len(inputs) + s - 1 \in Nat /\ Len(outputs) = Len(inputs) + s - 1
  BY <1>1, <1>3, EngineAssumption
<1>5. Fixed
  BY <1>2, <1>3, <1>4 DEF Fixed
<1>6. Places /\ Grouping /\ Temp /\ Inner
  BY <1>2, <1>3 DEF Places, Grouping, Temp, Inner
<1>7. Slots
  BY <1>1, <1>2, <1>4 DEF Slots, Written
<1> QED BY <1>5, <1>6, <1>7 DEF BatchInv

(* The call and its platform do not change, nor the number of slots.       *)
LEMMA FixedStep ==
  ASSUME Fixed, UNCHANGED <<entry, platform, inputs>>, Len(outputs') = Len(outputs)
  PROVE  Fixed'
BY DEF Fixed, Indices, Length

(* Few inputs cannot make four of a length. *)
LEMMA FewNotPopular ==
  ASSUME NEW ms, Len(ms) \in Nat, Len(ms) < SimdRun
  PROVE  ~Popular(ms)
<1> DEFINE n == Len(ms)
           Alike(j) == {l \in 1 .. n : Length(ms[l]) = Length(ms[j])}
<1>1. SUFFICES ASSUME NEW j \in 1 .. n PROVE ~(Cardinality(Alike(j)) >= SimdRun)
  BY DEF Popular
<1>2. IsFiniteSet(1 .. n) /\ Cardinality(1 .. n) = n
  <2>1. n \in Int /\ 1 \in Int /\ (1 > n => n = 0) /\ (~(1 > n) => n - 1 + 1 = n)
    OBVIOUS
  <2> QED BY <2>1, FS_Interval
<1>3. Alike(j) \subseteq 1 .. n
  OBVIOUS
<1> HIDE DEF Alike, n
<1>4. Cardinality(Alike(j)) <= n /\ IsFiniteSet(Alike(j))
  BY <1>2, <1>3, FS_Subset
<1>5. Cardinality(Alike(j)) \in Nat
  BY <1>4, FS_CardinalityType
<1> QED BY <1>4, <1>5 DEF SimdRun, n

(* Before the first write the slots are the caller's. *)
LEMMA UnwrittenSlots ==
  ASSUME Slots, UNCHANGED <<inputs, outputs>>,
         phase \in {"enter", "sort", "temp", "direct"}, sphase = "out" \/ phase = "temp",
         phase' \in {"sort", "temp", "direct", "panicked"} \/ (phase' = "copy" /\ k' = 0),
         sphase' = "out" \/ phase' = "temp"
  PROVE  Slots'
<1>1. outputs = [s \in 1 .. Len(outputs) |-> Untouched]
  BY DEF Slots, Written
<1>2. Written' = {}
  <2>1. CASE phase' = "copy"
    <3>1. 1 .. k' = {}
      BY <2>1
    <3> QED BY <2>1, <3>1 DEF Written
  <2> QED BY <2>1 DEF Written
<1>3. outputs' = [s \in 1 .. Len(outputs') |-> Untouched]
  BY <1>1
<1> QED BY <1>2, <1>3 DEF Slots

LEMMA BeginInv ==
  ASSUME BatchInv, Begin, UNCHANGED <<platform, inner>>
  PROVE  BatchInv'
<1>1. /\ phase = "enter" /\ UNCHANGED <<entry, inputs, outputs, order, temp, k>>
      /\ UNCHANGED <<platform, sphase, scall>>
  BY DEF Begin, EnterMany, Enter, inner
<1>2. /\ Fixed /\ k = 0 /\ temp = << >> /\ sphase = "out" /\ scall = D!NoCall
      /\ Len(inputs) \in Nat /\ Len(outputs) \in Nat
      /\ entry \in {"many", "grouped", "hex"} /\ Slots
      /\ order = << >> \/ order \in SortedOrders
  BY <1>1 DEF BatchInv, Fixed, Places, Temp, Inner, Grouping
<1>3. \/ phase' = "direct" /\ entry = "many"
      \/ phase' = "panicked" /\ Len(outputs) < Len(inputs)
      \/ phase' = "temp" /\ entry = "hex" /\ Len(inputs) <= Len(outputs)
      \/ /\ phase' = "direct" /\ entry = "grouped" /\ Len(inputs) <= Len(outputs)
         /\ Len(inputs) < SimdRun \/ HasSimdSizedRun(inputs)
      \/ /\ phase' = "sort" /\ entry = "grouped" /\ Len(inputs) <= Len(outputs)
         /\ ~HasSimdSizedRun(inputs)
  <2>1. CASE EnterMany
    BY <2>1 DEF EnterMany
  <2>2. CASE entry # "many" /\ Enter
    <3>1. Len(outputs) < Len(inputs) \/ Len(inputs) <= Len(outputs)
      BY <1>2
    <3>2. entry = "hex" \/ entry = "grouped"
      BY <1>2, <2>2
    <3> QED BY <2>2, <3>1, <3>2 DEF Enter
  <2> QED BY <2>1, <2>2 DEF Begin
<1>4. Fixed'
  BY <1>1, <1>2, FixedStep
<1>5. Places'
  BY <1>1, <1>2, <1>3 DEF Places
<1>6. Grouping'
  <2>1. SortedOrders' = SortedOrders
    BY <1>1 DEF SortedOrders, Indices, Length
  <2>2. phase' = "sort" => ~FusedRun(inputs)
    BY <1>2, <1>3, RunFacts
  <2>3. phase' = "direct" /\ entry = "grouped" => ~(Popular(inputs) /\ ~FusedRun(inputs))
    BY <1>2, <1>3, RunFacts, FewNotPopular
  <2>4. entry = "grouped" => phase' \notin {"temp", "copy", "done"}
    BY <1>3
  <2> QED BY <1>1, <1>2, <2>1, <2>2, <2>3, <2>4 DEF Grouping
<1>7. Temp' /\ Inner'
  BY <1>1, <1>2, <1>3 DEF Temp, Inner
<1>8. Slots'
  BY <1>1, <1>2, <1>3, UnwrittenSlots
<1> QED BY <1>4, <1>5, <1>6, <1>7, <1>8 DEF BatchInv

LEMMA SortInv ==
  ASSUME BatchInv, Sort, UNCHANGED <<platform, inner>>
  PROVE  BatchInv'
<1>1. /\ phase = "sort" /\ UNCHANGED <<entry, inputs, outputs, temp, k>>
      /\ UNCHANGED <<platform, sphase, scall>>
  BY DEF Sort, inner
<1>2. /\ Fixed /\ k = 0 /\ temp = << >> /\ sphase = "out" /\ scall = D!NoCall
      /\ Len(inputs) \in Nat /\ Len(outputs) \in Nat /\ Len(inputs) <= Len(outputs)
      /\ entry = "grouped" /\ Slots /\ ~FusedRun(inputs)
      /\ \A j \in Indices : Length(inputs[j]) \in Nat
  BY <1>1 DEF BatchInv, Fixed, Places, Temp, Inner, Grouping
<1>3. PICK o \in SortedOrders :
        /\ order' = o
        /\ phase' = IF HasSimdSizedRun(SortedBy(o)) THEN "temp" ELSE "direct"
  BY <1>1 DEF Sort
<1>4. HasSimdSizedRun(SortedBy(o)) <=> FusedRun(SortedBy(o))
  <2>1. Len(SortedBy(o)) = Len(inputs)
    BY <1>2 DEF SortedBy, Indices
  <2> QED BY <1>2, <2>1, RunFacts
<1>5. FusedRun(SortedBy(o)) <=> Popular(inputs)
  BY <1>2, SortMakesRun
<1>6. Fixed'
  BY <1>1, <1>2, FixedStep
<1>7. Places'
  BY <1>1, <1>2, <1>3 DEF Places
<1>8. Grouping'
  <2>1. SortedOrders' = SortedOrders /\ SortedBy(order)' = SortedBy(o)
    BY <1>1, <1>3 DEF SortedOrders, SortedBy, Indices, Length
  <2>2. CASE phase' = "temp"
    BY <1>1, <1>2, <1>3, <1>4, <2>1, <2>2 DEF Grouping, SortPaid
  <2>3. CASE phase' = "direct"
    BY <1>1, <1>2, <1>3, <1>4, <1>5, <2>1, <2>3 DEF Grouping
  <2> QED BY <1>3, <2>2, <2>3
<1>9. Temp' /\ Inner'
  BY <1>1, <1>2, <1>3 DEF Temp, Inner
<1>10. Slots'
  BY <1>1, <1>2, <1>3, UnwrittenSlots
<1> QED BY <1>6, <1>7, <1>8, <1>9, <1>10 DEF BatchInv

(* What hash_many is given. *)
LEMMA HashedFacts ==
  ASSUME BatchInv, phase \in {"direct", "temp"}
  PROVE  /\ Len(Hashed) = Len(inputs) /\ Len(inputs) \in Nat
         /\ \A a \in Indices : Length(Hashed[a]) \in Nat
         /\ phase = "temp" => \A a \in Indices : Hashed[a] = inputs[Place(a)]
         /\ phase = "direct" => Hashed = inputs
         /\ phase = "temp" => \A a \in Indices : Place(a) \in Indices
<1>1. /\ Len(inputs) \in Nat /\ \A j \in Indices : Length(inputs[j]) \in Nat
      /\ phase = "temp" /\ entry = "grouped" => order \in SortedOrders
  BY DEF BatchInv, Fixed, Grouping, SortPaid
<1>2. CASE phase = "temp" /\ entry = "grouped"
  <2>1. order \in [Indices -> Indices]
    BY <1>1, <1>2, OrderFacts
  <2>2. Hashed = [j \in Indices |-> inputs[order[j]]]
    BY <1>2 DEF Hashed, SortedBy
  <2>3. Len(Hashed) = Len(inputs)
    BY <1>1, <2>2 DEF Indices
  <2> QED BY <1>1, <1>2, <2>1, <2>2, <2>3 DEF Place
<1>3. CASE ~(phase = "temp" /\ entry = "grouped")
  BY <1>1, <1>3 DEF Hashed, Place
<1> QED BY <1>2, <1>3

LEMMA CallInv ==
  ASSUME BatchInv, CallDispatch
  PROVE  BatchInv'
<1>1. /\ phase \in {"direct", "temp"} /\ sphase = "out" /\ sin' = Hashed
      /\ sout' = IF phase = "temp" THEN [j \in Indices |-> Untouched] ELSE outputs
      /\ sphase' = "enter" /\ si' = 0 /\ srun' = 0 /\ sdone' = 0
      /\ UNCHANGED <<entry, inputs, outputs, phase, order, temp, k>>
      /\ UNCHANGED <<platform, scall>>
  BY DEF CallDispatch, vars, Hashed
<1>2. /\ Fixed /\ scall = D!NoCall /\ platform \in Platforms
      /\ Len(inputs) \in Nat /\ Len(outputs) \in Nat
  BY <1>1 DEF BatchInv, Fixed, Inner
<1>3. /\ Len(Hashed) = Len(inputs)
      /\ \A a \in Indices : Length(Hashed[a]) \in Nat
  BY <1>1, HashedFacts
<1>4. /\ sout' = [s \in 1 .. Len(sout') |-> Untouched] /\ Len(sout') \in Nat
      /\ Len(sout') = IF phase = "temp" THEN Len(inputs) ELSE Len(outputs)
  <2>1. CASE phase = "temp"
    BY <1>1, <1>2, <2>1 DEF Indices
  <2>2. CASE phase = "direct"
    <3>1. outputs = [s \in 1 .. Len(outputs) |-> Untouched]
      BY <1>1, <2>2 DEF BatchInv, Slots, Written
    <3> QED BY <1>1, <1>2, <2>2, <3>1
  <2> QED BY <1>1, <2>1, <2>2
<1>5. S!Inv'
  <2>1. S!Fixed' /\ platform' \in Platforms
    BY <1>1, <1>2, <1>3, InnerAssumption DEF S!Fixed, S!Length, Length, Indices
  <2>2. S!Places'
    BY <1>1, <1>2, <1>3 DEF S!Places
  <2>3. S!Slots'
    <3>1. \A s \in 1 .. Len(sout') : ~(s <= 0)
      OBVIOUS
    <3>2. S!Finished' = 0
      BY <1>1 DEF S!Finished
    <3> QED BY <1>4, <3>1, <3>2 DEF S!Slots
  <2>4. scall'.n \in Nat /\ scall'.lo \in Nat /\ S!KernelContract'
    BY <1>1, <1>2 DEF D!NoCall, S!KernelContract, D!KernelContract
  <2> QED BY <2>1, <2>2, <2>3, <2>4 DEF S!Inv
<1>6. Hashed' = Hashed /\ SortedOrders' = SortedOrders
  BY <1>1 DEF Hashed, SortedBy, SortedOrders, Indices, Length
<1>7. Inner'
  BY <1>1, <1>4, <1>5, <1>6 DEF Inner
<1>8. Fixed'
  BY <1>1, <1>2, FixedStep
<1>9. Places' /\ Temp'
  BY <1>1 DEF BatchInv, Places, Temp
<1>10. Grouping'
  <2>1. SortPaid <=> SortPaid'
    BY <1>1, <1>6 DEF SortPaid, SortedBy, Indices
  <2> QED BY <1>1, <1>6, <2>1 DEF BatchInv, Grouping
<1>11. Slots'
  <2>1. CASE phase = "direct"
    BY <1>1, <2>1 DEF Slots
  <2>2. CASE phase = "temp"
    BY <1>1, <2>2, UnwrittenSlots DEF BatchInv
  <2> QED BY <1>1, <2>1, <2>2
<1> QED BY <1>7, <1>8, <1>9, <1>10, <1>11 DEF BatchInv

(* The actions of D are those of S, which brings the proofs along.         *)
LEMMA InnerNext == D!Next => S!Next
<1>1. /\ \A m : D!Length(m) = S!Length(m) /\ D!Digest(m) = S!Digest(m)
      /\ D!Lanes = S!Lanes
  BY DEF D!Length, S!Length, D!Digest, S!Digest, D!Lanes, S!Lanes
<1>2. D!NextBatch = S!NextBatch
  BY <1>1 DEF D!NextBatch, S!NextBatch, D!PickBatch, S!PickBatch, D!LesserOf,
     S!LesserOf, D!MaxGroups, S!MaxGroups
<1>3. \A lo, n : D!Fill(lo, n) <=> S!Fill(lo, n)
  BY <1>1 DEF D!Fill, S!Fill
<1>4. \A n : D!KernelFor(n) = S!KernelFor(n)
  BY DEF D!KernelFor, S!KernelFor
<1>5. D!Pairable <=> S!Pairable
  BY <1>1 DEF D!Pairable, S!Pairable
<1>6. D!Enter => S!Enter
  BY <1>1 DEF D!Enter, S!Enter
<1>7. D!Scan => S!Scan
  BY <1>1 DEF D!Scan, S!Scan
<1>8. D!HashOne => S!HashOne
  BY <1>2, <1>3 DEF D!HashOne, S!HashOne
<1>9. D!HashEqual => S!HashEqual
  BY <1>2, <1>3, <1>4 DEF D!HashEqual, S!HashEqual
<1>10. D!RunDone => S!RunDone
  BY DEF D!RunDone, S!RunDone
<1>11. D!HashPair => S!HashPair
  BY <1>3, <1>5 DEF D!HashPair, S!HashPair
<1>12. D!HashScalar => S!HashScalar
  BY <1>3, <1>5 DEF D!HashScalar, S!HashScalar
<1>13. D!Return => S!Return
  BY DEF D!Return, S!Return
<1> QED
  BY <1>6, <1>7, <1>8, <1>9, <1>10, <1>11, <1>12, <1>13 DEF D!Next, S!Next

(* A step of the scheduler keeps its invariant, and the lengths.           *)
LEMMA InnerStep ==
  ASSUME S!Inv, D!Next
  PROVE  S!Inv' /\ Len(sout') = Len(sout) /\ UNCHANGED <<sin, platform>>
<1>1. S!Next
  BY InnerNext
<1>2. CASE S!Enter
  BY <1>2, InnerAssumption, S!EnterInv DEF S!Enter
<1>3. CASE S!Scan
  BY <1>3, InnerAssumption, S!ScanInv DEF S!Scan
<1>4. CASE S!HashOne
  BY <1>4, InnerAssumption, S!HashOneInv DEF S!HashOne
<1>5. CASE S!HashEqual
  BY <1>5, InnerAssumption, S!HashEqualInv DEF S!HashEqual
<1>6. CASE S!RunDone
  BY <1>6, InnerAssumption, S!RunDoneInv DEF S!RunDone
<1>7. CASE S!HashPair
  BY <1>7, InnerAssumption, S!HashPairInv DEF S!HashPair
<1>8. CASE S!HashScalar
  BY <1>8, InnerAssumption, S!HashScalarInv DEF S!HashScalar
<1>9. CASE S!Return
  BY <1>9, InnerAssumption, S!ReturnInv DEF S!Return
<1> QED BY <1>1, <1>2, <1>3, <1>4, <1>5, <1>6, <1>7, <1>8, <1>9 DEF S!Next

LEMMA StepInv ==
  ASSUME BatchInv, StepDispatch
  PROVE  BatchInv'
<1>1. /\ sphase \notin {"out", "done", "panicked"} /\ D!Next
      /\ outputs' = IF phase = "direct" THEN sout' ELSE outputs
      /\ UNCHANGED <<entry, inputs, phase, order, temp, k>>
  BY DEF StepDispatch
<1>2. /\ phase \in {"direct", "temp"} /\ S!Inv /\ sin = Hashed /\ Fixed
      /\ Len(sout) = IF phase = "temp" THEN Len(inputs) ELSE Len(outputs)
  BY <1>1 DEF BatchInv, Inner
<1>3. S!Inv' /\ Len(sout') = Len(sout) /\ UNCHANGED <<sin, platform>>
  BY <1>1, <1>2, InnerStep
<1>4. sphase' # "out"
  BY <1>3 DEF S!Inv, S!Places
<1>5. Hashed' = Hashed /\ SortedOrders' = SortedOrders
  BY <1>1 DEF Hashed, SortedBy, SortedOrders, Indices, Length
<1>6. Len(outputs') = Len(outputs)
  BY <1>1, <1>2, <1>3
<1>7. Inner'
  BY <1>1, <1>2, <1>3, <1>4, <1>5, <1>6 DEF Inner
<1>8. Fixed'
  BY <1>1, <1>2, <1>3, <1>6, FixedStep
<1>9. Places' /\ Temp'
  BY <1>1, <1>2, <1>6 DEF BatchInv, Places, Temp
<1>10. Grouping'
  <2>1. SortPaid <=> SortPaid'
    BY <1>1, <1>5 DEF SortPaid, SortedBy, Indices
  <2> QED BY <1>1, <1>5, <2>1 DEF BatchInv, Grouping
<1>11. Slots'
  <2>1. CASE phase = "direct"
    BY <1>1, <1>4, <2>1 DEF Slots
  <2>2. CASE phase = "temp"
    BY <1>1, <1>2, <2>2 DEF BatchInv, Slots, Written
  <2> QED BY <1>2, <2>1, <2>2
<1> QED BY <1>7, <1>8, <1>9, <1>10, <1>11 DEF BatchInv

(* What the scheduler has left when it is over. *)
LEMMA InnerOver ==
  ASSUME BatchInv, sphase \in {"done", "panicked"}
  PROVE  /\ phase \in {"direct", "temp"} /\ Len(inputs) \in Nat /\ Len(outputs) \in Nat
         /\ sphase = "panicked" => phase = "direct" /\ Len(outputs) < Len(inputs)
         /\ sphase = "done" /\ phase = "temp" =>
              sout = [a \in Indices |-> Digest(Hashed[a])]
         /\ phase = "direct" =>
              /\ sphase = "done" => Len(inputs) <= Len(outputs)
              /\ outputs = [s \in 1 .. Len(outputs) |->
                              IF sphase = "done" /\ s \in Indices THEN Digest(inputs[s])
                              ELSE Untouched]
<1>1. /\ phase \in {"direct", "temp"} /\ S!Inv /\ sin = Hashed
      /\ Len(sout) = IF phase = "temp" THEN Len(inputs) ELSE Len(outputs)
      /\ Len(inputs) \in Nat /\ Len(outputs) \in Nat
  BY DEF BatchInv, Inner, Fixed
<1>2. Len(sin) = Len(inputs) /\ (phase = "direct" => sin = inputs)
  BY <1>1, HashedFacts
<1>3. /\ sphase = "done" => Len(sin) <= Len(sout) /\ si = Len(sin)
      /\ sphase = "panicked" => Len(sout) < Len(sin) /\ si = 0
  BY <1>1 DEF S!Inv, S!Places
<1>4. sout = [s \in 1 .. Len(sout) |-> IF s <= si THEN Digest(sin[s]) ELSE Untouched]
  <2>1. S!Finished = si
    BY DEF S!Finished
  <2>2. \A m : S!Digest(m) = Digest(m)
    BY DEF S!Digest, Digest
  <2> QED BY <1>1, <2>1, <2>2 DEF S!Inv, S!Slots
<1>5. CASE sphase = "panicked"
  <2>1. phase = "direct" /\ Len(outputs) < Len(inputs)
    BY <1>1, <1>2, <1>3, <1>5
  <2>2. outputs = sout
    BY <1>5, <2>1 DEF BatchInv, Slots
  <2>3. \A s \in 1 .. Len(outputs) : ~(s <= si)
    BY <1>1, <1>3, <1>5
  <2>4. outputs = [s \in 1 .. Len(outputs) |-> Untouched]
    BY <1>4, <2>2, <2>3
  <2> QED BY <1>1, <1>5, <2>1, <2>2, <2>4
<1>6. CASE sphase = "done" /\ phase = "temp"
  <2>1. Len(sout) = Len(inputs) /\ si = Len(inputs)
    BY <1>1, <1>2, <1>3, <1>6
  <2>2. \A s \in 1 .. Len(inputs) : s <= Len(inputs)
    BY <1>1
  <2> QED BY <1>1, <1>4, <1>6, <2>1, <2>2 DEF Indices
<1>7. CASE sphase = "done" /\ phase = "direct"
  <2>1. Len(inputs) <= Len(outputs) /\ si = Len(inputs) /\ sin = inputs
    BY <1>1, <1>2, <1>3, <1>7
  <2>2. outputs = sout
    BY <1>7 DEF BatchInv, Slots
  <2>3. \A s \in 1 .. Len(outputs) : s \in Indices <=> s <= Len(inputs)
    BY <1>1 DEF Indices
  <2> QED BY <1>1, <1>4, <1>7, <2>1, <2>2, <2>3
<1> QED BY <1>1, <1>5, <1>6, <1>7

LEMMA ReturnDispatchInv ==
  ASSUME BatchInv, ReturnDispatch
  PROVE  BatchInv'
<1>1. /\ sphase \in {"done", "panicked"}
      /\ phase' = IF sphase = "done" /\ phase = "temp" THEN "copy" ELSE sphase
      /\ temp' = IF sphase = "done" /\ phase = "temp" THEN sout ELSE temp
      /\ sphase' = "out"
      /\ UNCHANGED <<entry, inputs, outputs, order, k, platform>>
  BY DEF ReturnDispatch
<1>2. phase \in {"direct", "temp"} /\ temp = << >> /\ k = 0 /\ Fixed
  BY <1>1, InnerOver DEF BatchInv, Temp, Places
<1>3. Fixed'
  BY <1>1, <1>2, FixedStep
<1>4. SortedOrders' = SortedOrders /\ SortedBy(order)' = SortedBy(order)
  BY <1>1 DEF SortedOrders, SortedBy, Indices, Length
<1>5. Inner'
  BY <1>1 DEF Inner
<1>6. CASE sphase = "done" /\ phase = "temp"
  <2>1. phase' = "copy" /\ temp' = sout
    BY <1>1, <1>6
  <2>2. temp' = Digested'
    <3>1. sout = [a \in Indices |-> Digest(inputs[Place(a)])]
      BY <1>1, <1>6, InnerOver, HashedFacts
    <3> QED BY <1>1, <2>1, <3>1 DEF Digested, Place, Indices, Digest
  <2>3. Places'
    BY <1>1, <1>2, <1>6, <2>1 DEF BatchInv, Places
  <2>4. Grouping'
    BY <1>1, <1>4, <1>6, <2>1 DEF BatchInv, Grouping, SortPaid
  <2>5. Temp'
    BY <2>1, <2>2 DEF Temp
  <2>6. Slots'
    BY <1>1, <1>2, <1>6, <2>1, UnwrittenSlots DEF BatchInv, Slots, Written
  <2> QED BY <1>3, <1>5, <2>3, <2>4, <2>5, <2>6 DEF BatchInv
<1>7. CASE phase = "direct"
  <2>1. phase' = sphase /\ temp' = << >>
    BY <1>1, <1>2, <1>7
  <2>2. Places'
    BY <1>1, <1>2, <1>7, <2>1, InnerOver DEF Places, Fixed
  <2>3. Grouping'
    BY <1>1, <1>4, <1>7, <2>1 DEF BatchInv, Grouping
  <2>4. Temp'
    BY <1>1, <2>1 DEF Temp
  <2>5. Slots'
    BY <1>1, <1>7, <2>1, InnerOver DEF Slots, Written, Indices, Digest
  <2> QED BY <1>3, <1>5, <2>2, <2>3, <2>4, <2>5 DEF BatchInv
<1> QED BY <1>1, <1>2, <1>6, <1>7, InnerOver

(* Every digest of temp has a slot of its own, and every slot a digest.    *)
LEMMA PlaceFacts ==
  ASSUME BatchInv, phase \in {"temp", "copy"}
  PROVE  /\ Len(inputs) \in Nat /\ \A a \in Indices : Place(a) \in Indices
         /\ \A l \in Indices : \E a \in Indices : Place(a) = l
         /\ \A a, b \in Indices : Place(a) = Place(b) => a = b
<1>1. Len(inputs) \in Nat
  BY DEF BatchInv, Fixed
<1>2. CASE entry = "grouped"
  <2>1. order \in SortedOrders
    BY <1>2 DEF BatchInv, Grouping, SortPaid
  <2> QED BY <1>1, <1>2, <2>1, OrderFacts DEF Place
<1>3. CASE entry # "grouped"
  BY <1>1, <1>3 DEF Place
<1> QED BY <1>2, <1>3

(* What copying one digest does. *)
LEMMA CopyFacts ==
  ASSUME BatchInv, Copy
  PROVE  /\ phase = "copy" /\ phase' = "copy" /\ k \in Nat /\ k + 1 \in Indices
         /\ k' = k + 1 /\ UNCHANGED <<entry, inputs, order, temp>>
         /\ Len(outputs) \in Nat /\ Len(inputs) <= Len(outputs)
         /\ Place(k + 1) \in Indices /\ Place(k + 1) \in 1 .. Len(outputs)
         /\ outputs' = [outputs EXCEPT ![Place(k + 1)] = Digest(inputs[Place(k + 1)])]
<1>1. /\ phase = "copy" /\ phase' = "copy" /\ k < Len(inputs) /\ k' = k + 1
      /\ UNCHANGED <<entry, inputs, order, temp>>
      /\ outputs' = [outputs EXCEPT ![Place(k + 1)] = temp[k + 1]]
  BY DEF Copy, Place
<1>2. /\ Len(inputs) \in Nat /\ Len(outputs) \in Nat /\ k \in 0 .. Len(inputs)
      /\ Len(inputs) <= Len(outputs) /\ temp = Digested
  BY <1>1 DEF BatchInv, Fixed, Places, Temp
<1>3. k \in Nat /\ k + 1 \in Indices /\ Indices \subseteq 1 .. Len(outputs)
  BY <1>1, <1>2 DEF Indices
<1>4. Place(k + 1) \in Indices
  BY <1>1, <1>3, PlaceFacts
<1>5. temp[k + 1] = Digest(inputs[Place(k + 1)])
  BY <1>2, <1>3 DEF Digested
<1> QED BY <1>1, <1>2, <1>3, <1>4, <1>5

LEMMA CopyInv ==
  ASSUME BatchInv, Copy, UNCHANGED <<platform, inner>>
  PROVE  BatchInv'
<1>1. /\ phase = "copy" /\ phase' = "copy" /\ k \in Nat /\ k + 1 \in Indices
      /\ k' = k + 1 /\ UNCHANGED <<entry, inputs, order, temp>>
      /\ Len(outputs) \in Nat /\ Len(inputs) <= Len(outputs)
      /\ Place(k + 1) \in Indices /\ Place(k + 1) \in 1 .. Len(outputs)
      /\ outputs' = [outputs EXCEPT ![Place(k + 1)] = Digest(inputs[Place(k + 1)])]
  BY CopyFacts
<1>2. UNCHANGED <<platform, sphase>> /\ sphase = "out"
  BY <1>1 DEF inner, BatchInv, Inner
<1>3. outputs = [s \in 1 .. Len(outputs) |->
                   IF s \in Written THEN Digest(inputs[s]) ELSE Untouched]
  BY <1>1, <1>2 DEF BatchInv, Slots
<1>4. Len(outputs') = Len(outputs)
  BY <1>1, <1>3
<1>5. Fixed'
  BY <1>1, <1>2, <1>4, FixedStep DEF BatchInv
<1>6. Places'
  BY <1>1, <1>4 DEF BatchInv, Places, Indices
<1>7. SortedOrders' = SortedOrders /\ SortedBy(order)' = SortedBy(order)
  BY <1>1 DEF SortedOrders, SortedBy, Indices, Length
<1>8. Grouping'
  BY <1>1, <1>7 DEF BatchInv, Grouping, SortPaid
<1>9. Temp'
  <2>1. Digested' = Digested
    BY <1>1 DEF Digested, Indices, Digest, Place
  <2> QED BY <1>1, <2>1 DEF BatchInv, Temp
<1>10. Inner'
  BY <1>1, <1>2 DEF Inner
<1>11. Slots'
  <2>1. Written' = Written \cup {Place(k + 1)}
    <3>1. \A a : a \in 1 .. k + 1 <=> a \in 1 .. k \/ a = k + 1
      BY <1>1
    <3>2. Written = {Place(a) : a \in 1 .. k}
      BY <1>1 DEF Written
    <3>3. Written' = {Place(a) : a \in 1 .. k + 1}
      BY <1>1 DEF Written, Place
    <3> QED BY <3>1, <3>2, <3>3
  <2>2. outputs' = [s \in 1 .. Len(outputs) |->
                      IF s \in Written' THEN Digest(inputs[s]) ELSE Untouched]
    BY <1>1, <1>3, <2>1
  <2> QED BY <1>1, <1>2, <1>4, <2>2 DEF Slots, Digest
<1> QED BY <1>5, <1>6, <1>8, <1>9, <1>10, <1>11 DEF BatchInv

LEMMA ReturnInv ==
  ASSUME BatchInv, Return, UNCHANGED <<platform, inner>>
  PROVE  BatchInv'
<1>1. /\ phase = "copy" /\ phase' = "done" /\ k = Len(inputs)
      /\ UNCHANGED <<entry, inputs, outputs, order, temp, k, platform, sphase>>
  BY DEF Return, inner
<1>2. sphase = "out" /\ Len(inputs) \in Nat
  BY <1>1 DEF BatchInv, Inner, Fixed
<1>3. Fixed' /\ Places'
  BY <1>1, FixedStep DEF BatchInv, Places
<1>4. SortedOrders' = SortedOrders /\ SortedBy(order)' = SortedBy(order)
  BY <1>1 DEF SortedOrders, SortedBy, Indices, Length
<1>5. Temp' /\ Inner'
  <2>1. Digested' = Digested
    BY <1>1 DEF Digested, Indices, Digest, Place
  <2> QED BY <1>1, <1>2, <2>1 DEF BatchInv, Temp, Inner
<1>6. Grouping'
  <2>1. entry = "grouped" /\ temp = << >> => ~(Popular(inputs) /\ ~FusedRun(inputs))
    <3>1. temp = Digested
      BY <1>1 DEF BatchInv, Temp
    <3>2. temp = << >> => Len(inputs) = 0
      <4>1. Len(Digested) = Len(inputs) /\ Len(<< >>) = 0
        BY <1>2 DEF Digested, Indices
      <4> QED BY <3>1, <4>1
    <3>3. Len(inputs) = 0 => ~Popular(inputs)
      BY <1>2, FewNotPopular DEF SimdRun
    <3> QED BY <3>2, <3>3
  <2> QED BY <1>1, <1>4, <2>1 DEF BatchInv, Grouping, SortPaid
<1>7. Slots'
  <2>1. Written = Written'
    <3>1. Written = {Place(a) : a \in Indices}
      BY <1>1 DEF Written, Indices
    <3>2. {Place(a) : a \in Indices} = Indices
      BY <1>1, PlaceFacts
    <3> QED BY <1>1, <3>1, <3>2 DEF Written, Indices
  <2> QED BY <1>1, <1>2, <2>1 DEF BatchInv, Slots, Digest
<1> QED BY <1>3, <1>5, <1>6, <1>7 DEF BatchInv

LEMMA BatchNextInv == BatchInv /\ [BatchNext]_allvars => BatchInv'
<1> SUFFICES ASSUME BatchInv, [BatchNext]_allvars PROVE BatchInv'
  OBVIOUS
<1>1. CASE UNCHANGED allvars
  <2>1. /\ UNCHANGED <<entry, inputs, outputs, phase, order, temp, k, platform>>
        /\ UNCHANGED <<sin, sout, sphase, si, srun, sdone, scall>>
    BY <1>1 DEF allvars, vars, inner
  <2>2. S!Inv => S!Inv'
    BY <2>1, InnerAssumption, S!NextInv DEF S!vars
  <2>3. /\ SortedOrders' = SortedOrders /\ SortedBy(order)' = SortedBy(order)
        /\ Digested' = Digested /\ Hashed' = Hashed /\ Written' = Written
    BY <2>1 DEF SortedOrders, SortedBy, Indices, Length, Digested, Hashed, Digest, Place,
       Written
  <2>4. Fixed' /\ Places' /\ Temp'
    BY <2>1, <2>3, FixedStep DEF BatchInv, Places, Temp
  <2>5. Grouping'
    BY <2>1, <2>3 DEF BatchInv, Grouping, SortPaid
  <2>6. Slots'
    BY <2>1, <2>3 DEF BatchInv, Slots, Digest
  <2>7. Inner'
    BY <2>1, <2>2, <2>3 DEF BatchInv, Inner
  <2> QED BY <2>4, <2>5, <2>6, <2>7 DEF BatchInv
<1> QED
  BY <1>1, BeginInv, SortInv, CallInv, StepInv, ReturnDispatchInv, CopyInv, ReturnInv
  DEF BatchNext

LEMMA BatchSpecInv == BatchSpec => []BatchInv
BY BatchInitInv, BatchNextInv, PTL DEF BatchSpec

LEMMA BatchInvType == BatchInv => TypeOK
<1> SUFFICES ASSUME BatchInv PROVE TypeOK
  OBVIOUS
<1>1. /\ phase \in {"enter", "direct", "sort", "temp", "copy", "done", "panicked"}
      /\ k \in 0 .. Len(inputs) /\ Len(inputs) \in Nat
      /\ order = << >> \/ order \in SortedOrders
  BY DEF BatchInv, Places, Fixed, Grouping
<1>2. order \in SortedOrders => {order[j] : j \in DOMAIN order} = Indices
  BY DEF SortedOrders
<1>3. Len(temp) \in {0, Len(inputs)}
  <2>1. Len(Digested) = Len(inputs) /\ Len(<< >>) = 0
    BY <1>1 DEF Digested, Indices
  <2> QED BY <1>1, <2>1 DEF BatchInv, Temp
<1> QED BY <1>1, <1>2, <1>3 DEF TypeOK

(* Sorted indices are a permutation of the inputs for every order an       *)
(* unstable sort may return, so each digest copied out has its own slot.   *)
THEOREM BatchTypeCorrect == BatchSpec => []TypeOK
BY BatchSpecInv, BatchInvType, PTL

(* A run of four after the sort means four inputs of a length before it,   *)
(* and the scan finds a run if there is one: the batch is hashed in sorted *)
(* order exactly when that makes a fused batch and nothing else does.      *)
LEMMA BatchInvGrouping == BatchInv => GroupingExact
<1> SUFFICES ASSUME BatchInv, entry = "grouped", phase = "done"
             PROVE  temp # << >> <=> Popular(inputs) /\ ~FusedRun(inputs)
  BY DEF GroupingExact
<1>1. temp # << >> => ~FusedRun(inputs) /\ order \in SortedOrders /\ FusedRun(SortedBy(order))
  BY DEF BatchInv, Grouping, SortPaid
<1>2. temp = << >> => ~(Popular(inputs) /\ ~FusedRun(inputs))
  BY DEF BatchInv, Grouping
<1>3. temp # << >> => Popular(inputs)
  BY <1>1, SortMakesRun DEF BatchInv, Fixed
<1> QED BY <1>1, <1>2, <1>3

(* hash_many_grouped hashes the sorted batch when, and only when, four     *)
(* inputs have one length and no four neighbours do, on every batch.       *)
THEOREM AlwaysGroupingExact == BatchSpec => []GroupingExact
BY BatchSpecInv, BatchInvGrouping, PTL

(***************************************************************************)
(* The batch contract.                                                     *)
(***************************************************************************)
Contract == IF phase \in {"done", "panicked"} THEN phase ELSE "running"
Want == Digests(inputs)

LEMMA WantFacts ==
  ASSUME Len(inputs) \in Nat
  PROVE  Len(Want) = Len(inputs) /\ \A j \in Indices : Want[j] = Digest(inputs[j])
BY DEF Want, Digests, Indices

LEMMA WantStep ==
  ASSUME inputs' = inputs
  PROVE  Want' = Want
BY DEF Want, Digests, Digest

(* A step that writes nothing and ends nothing is a stutter. *)
LEMMA ContractStutter ==
  ASSUME UNCHANGED <<inputs, outputs>>, Contract' = Contract
  PROVE  [Batch!Next]_Batch!vars
BY WantStep DEF Batch!vars, Contract, Want

(* An answer for every input. *)
LEMMA ContractDone ==
  ASSUME BatchInv, BatchInv', UNCHANGED <<inputs, outputs>>, phase \in {"direct", "copy"},
         phase' = "done"
  PROVE  Batch!Next
<1>1. /\ Len(inputs) \in Nat /\ Len(outputs) \in Nat /\ Len(inputs) <= Len(outputs)
      /\ outputs' = [s \in 1 .. Len(outputs') |->
                       IF s \in Indices' THEN Digest(inputs'[s]) ELSE Untouched]
  BY DEF BatchInv, Fixed, Places, Slots, Written, Digest
<1>2. \A j \in 1 .. Len(Want) : outputs'[j] = Want[j]
  <2>1. ASSUME NEW j \in Indices PROVE outputs'[j] = Want[j]
    <3>1. j \in 1 .. Len(outputs) /\ Indices' = Indices
      BY <1>1 DEF Indices
    <3> QED BY <1>1, <3>1, WantFacts
  <2> QED BY <1>1, <2>1, WantFacts DEF Indices
<1>3. \A j \in 1 .. Len(outputs) : Batch!Progress(j)
  BY DEF Batch!Progress
<1>4. Want' = Want /\ Len(Want) <= Len(outputs)
  BY <1>1, WantFacts, WantStep
<1> QED BY <1>1, <1>2, <1>3, <1>4 DEF Batch!Next, Batch!Work, Want

LEMMA ContractPanic ==
  ASSUME BatchInv, UNCHANGED <<inputs, outputs>>, Contract = "running",
         phase' = "panicked", Len(outputs) < Len(inputs)
  PROVE  Batch!Next
<1>1. Len(inputs) \in Nat /\ Len(outputs) \in Nat
  BY DEF BatchInv, Fixed
<1>2. Want' = Want /\ Len(Want) > Len(outputs)
  BY <1>1, WantFacts, WantStep
<1> QED BY <1>2 DEF Batch!Next, Batch!Panic, Contract, Want

(* Slots filled one or several at a time. *)
LEMMA ContractWork ==
  ASSUME BatchInv, UNCHANGED inputs, Contract = "running", Contract' = "running",
         Len(inputs) <= Len(outputs), Len(outputs') = Len(outputs),
         \A s \in 1 .. Len(outputs) :
           \/ outputs'[s] = outputs[s]
           \/ outputs[s] = Untouched /\ s \in Indices /\ outputs'[s] = Digest(inputs[s])
  PROVE  Batch!Next
<1>1. Len(inputs) \in Nat /\ Len(outputs) \in Nat
  BY DEF BatchInv, Fixed
<1>2. Want' = Want /\ Len(Want) <= Len(outputs)
  BY <1>1, WantFacts, WantStep
<1>3. ASSUME NEW s \in 1 .. Len(outputs)
      PROVE  Batch!Progress(s)
  <2>1. s \in Indices => s <= Len(Want) /\ Want[s] = Digest(inputs[s])
    BY <1>1, WantFacts DEF Indices
  <2> QED BY <2>1 DEF Batch!Progress, Want
<1> QED BY <1>1, <1>2, <1>3 DEF Batch!Next, Batch!Work, Contract, Want

LEMMA ContractInit == BatchInit => Batch!Init
<1> SUFFICES ASSUME BatchInit PROVE Batch!Init
  OBVIOUS
<1>1. phase = "enter" /\ Slots /\ Len(outputs) \in Nat
  BY BatchInitInv DEF BatchInit, Init, BatchInv, Fixed
<1>2. \A s \in 1 .. Len(outputs) : outputs[s] = Untouched
  BY <1>1 DEF Slots, Written
<1> QED BY <1>1, <1>2 DEF Batch!Init

(* What the scheduler's steps do to the caller's slots. *)
LEMMA ContractInner ==
  ASSUME BatchInv, StepDispatch, phase = "direct"
  PROVE  [Batch!Next]_Batch!vars
<1>1. /\ sphase \notin {"out", "done", "panicked"} /\ D!Next /\ outputs' = sout'
      /\ UNCHANGED <<inputs, phase>>
  BY DEF StepDispatch
<1>2. /\ S!Inv /\ sin = inputs /\ Len(sout) = Len(outputs) /\ outputs = sout
      /\ Len(inputs) \in Nat
  BY <1>1, HashedFacts DEF BatchInv, Inner, Slots
<1>3. [S!Batch!Next]_(S!Batch!vars)
  BY <1>1, <1>2, InnerAssumption, S!AbsNext, InnerNext
<1>4. Contract = "running" /\ Contract' = "running"
  BY <1>1 DEF Contract
<1>5. CASE outputs' = outputs
  BY <1>1, <1>4, <1>5, ContractStutter
<1>6. CASE S!Batch!Work
  <2> DEFINE want == [j \in 1 .. Len(inputs) |-> S!Digest(inputs[j])]
  <2>1. /\ Len(want) <= Len(outputs) /\ Len(outputs') = Len(outputs)
        /\ \A s \in 1 .. Len(outputs) : S!Batch!Progress(s)
    BY <1>1, <1>2, <1>6 DEF S!Batch!Work
  <2>2. Len(want) = Len(inputs) /\ \A s \in Indices : want[s] = Digest(inputs[s])
    BY <1>2 DEF S!Digest, Digest, Indices
  <2>3. \A s \in 1 .. Len(outputs) :
          \/ outputs'[s] = outputs[s]
          \/ outputs[s] = Untouched /\ s <= Len(want) /\ outputs'[s] = want[s]
    BY <1>1, <1>2, <2>1 DEF S!Batch!Progress
  <2> HIDE DEF want
  <2>4. \A s \in 1 .. Len(outputs) : s <= Len(want) => s \in Indices
    BY <1>2, <2>2 DEF Indices
  <2> QED BY <1>1, <1>4, <2>1, <2>2, <2>3, <2>4, ContractWork
<1>7. outputs' = outputs \/ S!Batch!Work
  BY <1>1, <1>2, <1>3 DEF S!Batch!Next, S!Batch!Panic, S!Batch!vars
<1> QED BY <1>5, <1>6, <1>7

LEMMA ContractNext == BatchInv /\ [BatchNext]_allvars => [Batch!Next]_Batch!vars
<1> SUFFICES ASSUME BatchInv, [BatchNext]_allvars PROVE [Batch!Next]_Batch!vars
  OBVIOUS
<1>0. BatchInv'
  BY BatchNextInv
<1>1. CASE UNCHANGED allvars
  BY <1>1, ContractStutter DEF allvars, vars, Contract
<1>2. CASE Begin /\ UNCHANGED <<platform, inner>>
  <2>1. phase = "enter" /\ UNCHANGED <<inputs, outputs>> /\ phase' # "done"
    <3>1. EnterMany => phase = "enter" /\ UNCHANGED <<inputs, outputs>> /\ phase' # "done"
      BY DEF EnterMany
    <3>2. entry # "many" /\ Enter =>
            phase = "enter" /\ UNCHANGED <<inputs, outputs>> /\ phase' # "done"
      BY DEF Enter, BatchInv, Fixed
    <3> QED BY <1>2, <3>1, <3>2 DEF Begin
  <2>2. CASE phase' = "panicked"
    <3>1. Len(outputs) < Len(inputs)
      BY <1>0, <2>1, <2>2 DEF BatchInv, Places
    <3> QED BY <2>1, <2>2, <3>1, ContractPanic DEF Contract
  <2>3. CASE phase' # "panicked"
    BY <2>1, <2>3, ContractStutter DEF Contract
  <2> QED BY <2>2, <2>3
<1>3. CASE Sort /\ UNCHANGED <<platform, inner>>
  BY <1>3, ContractStutter DEF Sort, Contract
<1>4. CASE CallDispatch
  BY <1>4, ContractStutter DEF CallDispatch, vars, Contract
<1>5. CASE StepDispatch
  <2>1. phase \in {"direct", "temp"}
    BY <1>5 DEF StepDispatch, BatchInv, Inner
  <2>2. CASE phase = "temp"
    BY <1>5, <2>2, ContractStutter DEF StepDispatch, Contract
  <2> QED BY <1>5, <2>1, <2>2, ContractInner
<1>6. CASE ReturnDispatch
  <2>1. /\ phase' = IF sphase = "done" /\ phase = "temp" THEN "copy" ELSE sphase
        /\ UNCHANGED <<inputs, outputs>> /\ phase \in {"direct", "temp"}
        /\ sphase \in {"done", "panicked"}
        /\ sphase = "panicked" => phase = "direct" /\ Len(outputs) < Len(inputs)
    BY <1>6, InnerOver DEF ReturnDispatch
  <2>2. CASE phase = "temp"
    BY <2>1, <2>2, ContractStutter DEF Contract
  <2>3. CASE phase = "direct" /\ sphase = "done"
    BY <1>0, <2>1, <2>3, ContractDone
  <2>4. CASE sphase = "panicked"
    BY <2>1, <2>4, ContractPanic DEF Contract
  <2> QED BY <2>1, <2>2, <2>3, <2>4
<1>7. CASE Copy /\ UNCHANGED <<platform, inner>>
  <2>1. /\ phase = "copy" /\ phase' = "copy" /\ k \in Nat /\ k + 1 \in Indices
        /\ UNCHANGED inputs
        /\ Len(outputs) \in Nat /\ Len(inputs) <= Len(outputs)
        /\ Place(k + 1) \in Indices /\ Place(k + 1) \in 1 .. Len(outputs)
        /\ outputs' = [outputs EXCEPT ![Place(k + 1)] = Digest(inputs[Place(k + 1)])]
    BY <1>7, CopyFacts
  <2>2. outputs = [s \in 1 .. Len(outputs) |->
                     IF s \in Written THEN Digest(inputs[s]) ELSE Untouched]
    BY <2>1 DEF BatchInv, Slots
(* No digest has been copied to this slot before: places are different.    *)
  <2>3. Place(k + 1) \notin Written
    <3>1. \A a \in 1 .. k : a \in Indices /\ a # k + 1
      BY <2>1 DEF Indices
    <3>2. Written = {Place(a) : a \in 1 .. k}
      BY <2>1 DEF Written
    <3> QED BY <2>1, <3>1, <3>2, PlaceFacts
  <2>4. outputs[Place(k + 1)] = Untouched
    BY <2>1, <2>2, <2>3
  <2>5. /\ Len(outputs') = Len(outputs)
        /\ \A s \in 1 .. Len(outputs) :
             IF s = Place(k + 1) THEN outputs'[s] = Digest(inputs[s])
             ELSE outputs'[s] = outputs[s]
    BY <2>1, <2>2
  <2> QED BY <2>1, <2>4, <2>5, ContractWork DEF Contract
<1>8. CASE Return /\ UNCHANGED <<platform, inner>>
  <2>1. phase = "copy" /\ phase' = "done" /\ UNCHANGED <<inputs, outputs>>
    BY <1>8 DEF Return
  <2> QED BY <1>0, <2>1, ContractDone
<1> QED BY <1>1, <1>2, <1>3, <1>4, <1>5, <1>6, <1>7, <1>8 DEF BatchNext

(* Every entry point, with the scheduler inside, implements the batch      *)
(* contract: sorting, hashing into a temporary and scattering put each     *)
(* digest where its input was, each slot is written once, and a short      *)
(* slice is rejected before the first write.                               *)
THEOREM BatchRefinement == BatchSpec => ImplementsBatchHash
BY ContractInit, ContractNext, BatchSpecInv, PTL
   DEF BatchSpec, Batch!Spec, ImplementsBatchHash

(***************************************************************************)
(* Sorting pays.                                                           *)
(***************************************************************************)
(* A run worth a fused call is a run of SimdRun, and the other way round   *)
(* among messages of a block or more.                                      *)
LEMMA FusableRuns ==
  ASSUME NEW ms, Len(ms) \in Nat, \A j \in 1 .. Len(ms) : Length(ms[j]) \in Nat
  PROVE  /\ Fusable(ms) => FusedRun(ms)
         /\ FusedRun(ms) /\ (\A j \in 1 .. Len(ms) : Length(ms[j]) >= 64) => Fusable(ms)
<1>1. ASSUME NEW lo \in 1 .. Len(ms), WorthFusing(ms, lo) PROVE FusedRun(ms)
  <2> DEFINE e == Enough(Length(ms[lo]))
  <2>1. e \in Nat /\ e >= 4 /\ lo \in Nat
    BY DEF Enough
  <2>2. lo + e - 1 <= Len(ms) /\ \A j \in lo .. lo + e - 1 : Length(ms[j]) = Length(ms[lo])
    BY <1>1 DEF WorthFusing, RunFrom
  <2> HIDE DEF e
  <2>3. lo \in 1 .. Len(ms) - SimdRun + 1 /\ lo .. lo + SimdRun - 1 \subseteq lo .. lo + e - 1
    BY <2>1, <2>2 DEF SimdRun
  <2> QED BY <2>2, <2>3 DEF FusedRun, EqualFrom
<1>2. ASSUME NEW lo \in 1 .. Len(ms) - SimdRun + 1, EqualFrom(ms, lo),
             \A j \in 1 .. Len(ms) : Length(ms[j]) >= 64
      PROVE  Fusable(ms)
  <2>1. lo \in 1 .. Len(ms) /\ lo \in Nat /\ lo + 4 - 1 <= Len(ms) /\ SimdRun = 4
    BY DEF SimdRun
  <2>2. Length(ms[lo]) >= 64 /\ Length(ms[lo]) \in Nat
    BY <1>2, <2>1
  <2>3. Enough(Length(ms[lo])) = 4 /\ Length(ms[lo]) >= 32
    BY <2>2 DEF Enough
  <2>4. RunFrom(ms, lo, 4)
    BY <1>2, <2>1 DEF EqualFrom, RunFrom
  <2> QED BY <2>1, <2>3, <2>4 DEF Fusable, WorthFusing
<1> QED BY <1>1, <1>2 DEF Fusable, FusedRun

(* Four neighbours of a length are four inputs of a length.                *)
LEMMA RunIsPopular ==
  ASSUME NEW ms, Len(ms) \in Nat, FusedRun(ms)
  PROVE  Popular(ms)
<1>1. PICK lo \in 1 .. Len(ms) - SimdRun + 1 : EqualFrom(ms, lo)
  BY DEF FusedRun
<1> DEFINE R == lo .. lo + 3
           A == {l \in 1 .. Len(ms) : Length(ms[l]) = Length(ms[lo])}
<1>2. lo \in Nat /\ lo \in 1 .. Len(ms) /\ lo + 3 <= Len(ms) /\ lo + SimdRun - 1 = lo + 3
  BY DEF SimdRun
<1>3. \A l \in R : Length(ms[l]) = Length(ms[lo])
  BY <1>1, <1>2 DEF EqualFrom
<1>4. R \subseteq A
  BY <1>2, <1>3
<1>5. IsFiniteSet(A) /\ Cardinality(A) \in Nat
  <2>1. IsFiniteSet(1 .. Len(ms)) /\ A \subseteq 1 .. Len(ms)
    BY FS_Interval
  <2> HIDE DEF A
  <2> QED BY <2>1, FS_Subset, FS_CardinalityType
<1>6. Cardinality(R) = 4
  <2>1. lo \in Int /\ lo + 3 \in Int /\ ~(lo > lo + 3) /\ (lo + 3) - lo + 1 = 4
    BY <1>2
  <2> QED BY <2>1, FS_Interval
<1> HIDE DEF R, A
<1>7. Cardinality(R) <= Cardinality(A)
  BY <1>4, <1>5, FS_Subset
<1>8. Cardinality(A) >= SimdRun
  BY <1>5, <1>6, <1>7 DEF SimdRun
<1> QED BY <1>2, <1>8 DEF Popular, A

(* While no fused call has been made, every place that is worth one is     *)
(* still ahead of the scheduler; once one has, there was such a place.     *)
Wide == platform \in {"avx2", "avx512", "neon"}
Ahead(lo) ==
  \/ sphase \in {"enter", "panicked"}
  \/ sphase = "scan" /\ si < lo
  \/ sphase = "batch" /\ si + srun < lo
  \/ /\ sphase = "batch" /\ sdone = 0
     /\ Length(sin[si + 1]) >= 32 /\ srun >= Enough(Length(sin[si + 1]))
AllAhead == \A lo \in 1 .. Len(sin) : WorthFusing(sin, lo) => Ahead(lo)
CallsWorth == (scall.n > 0 => Fusable(sin)) /\ (scall.n > 0 \/ AllAhead)
Paying ==
  Wide =>
    /\ sphase # "out" => CallsWorth
    /\ phase \in {"copy", "done"} => (scall.n > 0 <=> Fusable(HashedBatch))

(* A run that is worth it is given to the kernel.                          *)
LEMMA LongRunPays ==
  ASSUME NEW left \in Nat, NEW max \in {8, 16}, NEW len \in Nat
  PROVE  S!PickBatch(left, max, len) > 0 <=> len >= 32 /\ left >= Enough(len)
<1>1. S!PickBatch(left, max, len) =
        IF left < 4 \/ max < 4 \/ len < 32 \/ (left < 8 /\ len < 64) THEN 0
        ELSE S!LesserOf(left, max * S!MaxGroups)
  BY DEF S!PickBatch
<1>2. left >= 4 => S!LesserOf(left, max * S!MaxGroups) > 0
  BY DEF S!LesserOf, S!MaxGroups
<1>3. left < 4 \/ max < 4 \/ len < 32 \/ (left < 8 /\ len < 64)
        <=> ~(len >= 32 /\ left >= Enough(len))
  BY DEF Enough
<1> QED BY <1>1, <1>2, <1>3

(* A run that reaches the first of n equal lengths reaches the last.       *)
LEMMA ScanReaches ==
  ASSUME NEW ms, Len(ms) \in Nat, NEW at \in Nat, NEW r \in Nat, NEW n \in Nat,
         NEW lo \in 1 .. Len(ms), RunFrom(ms, lo, n), at < lo, at + r >= lo,
         \A j \in at + 1 .. at + r : Length(ms[j]) = Length(ms[at + 1]),
         at + r < Len(ms) => Length(ms[at + r + 1]) # Length(ms[at + 1])
  PROVE  r >= n /\ Length(ms[lo]) = Length(ms[at + 1])
<1>1. lo \in Nat /\ lo \in at + 1 .. at + r /\ lo + n - 1 <= Len(ms)
  BY DEF RunFrom
<1>2. \A j \in lo .. lo + n - 1 : Length(ms[j]) = Length(ms[lo])
  BY DEF RunFrom
<1>3. Length(ms[lo]) = Length(ms[at + 1])
  BY <1>1
<1>4. ~(at + r < lo + n - 1)
  <2>1. SUFFICES ASSUME at + r < lo + n - 1 PROVE FALSE
    OBVIOUS
  <2>2. at + r < Len(ms) /\ at + r + 1 \in lo .. lo + n - 1
    BY <1>1, <2>1
  <2> QED BY <1>2, <1>3, <2>2
<1> QED BY <1>1, <1>3, <1>4

(* What is known of the scheduler whenever it is about to take a step.     *)
LEMMA PayingFacts ==
  ASSUME BatchInv, Wide, sphase \notin {"out", "done", "panicked"}
  PROVE  /\ S!Inv /\ Len(sin) \in Nat /\ S!Lanes \in {8, 16}
         /\ \A j \in 1 .. Len(sin) : Length(sin[j]) \in Nat
         /\ si \in 0 .. Len(sin) /\ srun \in Nat /\ sdone \in 0 .. srun
         /\ sphase # "scalar"
         /\ scall.n \in Nat
         /\ sphase = "batch" =>
              /\ si + 1 \in 1 .. Len(sin) /\ si + srun <= Len(sin)
              /\ \A j \in si + 1 .. si + srun : Length(sin[j]) = Length(sin[si + 1])
<1>1. S!Inv
  BY DEF BatchInv, Inner
<1>2. \A j : S!Length(j) = Length(j)
  BY DEF S!Length, Length
<1>3. /\ Len(sin) \in Nat /\ S!Lanes \in {8, 16}
      /\ \A j \in 1 .. Len(sin) : S!Length(sin[j]) \in Nat
      /\ si \in 0 .. Len(sin) /\ srun \in Nat /\ sdone \in 0 .. srun
      /\ sphase # "scalar" /\ scall.n \in Nat
  BY <1>1 DEF S!Inv, S!Fixed, S!Places, S!Lanes, Wide
<1>4. sphase = "batch" =>
        /\ si < Len(sin) /\ si + srun <= Len(sin)
        /\ \A j \in si + 1 .. si + srun : S!Length(sin[j]) = S!Length(sin[si + 1])
  BY <1>1 DEF S!Inv, S!Places
<1> QED BY <1>1, <1>2, <1>3, <1>4

(* When a fused call is made, the place it starts at was worth it.         *)
LEMMA CallIsWorth ==
  ASSUME BatchInv, Wide, S!HashEqual, sphase \notin {"out", "done", "panicked"}
  PROVE  Fusable(sin) /\ scall'.n > 0
<1>1. /\ sphase = "batch" /\ sdone < srun /\ S!NextBatch > 0 /\ scall'.n = S!NextBatch
  BY DEF S!HashEqual
<1>2. /\ si \in Nat /\ srun \in Nat /\ sdone \in Nat /\ si + srun <= Len(sin)
      /\ si + 1 \in 1 .. Len(sin) /\ Len(sin) \in Nat
      /\ \A j \in si + 1 .. si + srun : Length(sin[j]) = Length(sin[si + 1])
      /\ Length(sin[si + 1]) \in Nat /\ S!Lanes \in {8, 16}
  BY <1>1, PayingFacts
<1> DEFINE len == Length(sin[si + 1])
           lo == si + sdone + 1
           left == srun - sdone
<1>3. S!NextBatch = S!PickBatch(left, S!Lanes, len)
  BY DEF S!NextBatch, S!Length, Length
<1>4. left \in Nat /\ lo \in Nat /\ lo \in 1 .. Len(sin) /\ lo \in si + 1 .. si + srun
      /\ lo + left - 1 = si + srun
  BY <1>1, <1>2
<1>5. len \in Nat /\ Length(sin[lo]) = len
  BY <1>2, <1>4
<1> HIDE DEF left, lo, len
<1>6. len >= 32 /\ left >= Enough(len)
  BY <1>1, <1>2, <1>3, <1>4, <1>5, LongRunPays
<1>7. RunFrom(sin, lo, Enough(len))
  <2>1. Enough(len) \in Nat
    BY DEF Enough
  <2>2. lo + Enough(len) - 1 <= si + srun
    BY <1>2, <1>4, <1>6, <2>1
  <2>3. lo .. lo + Enough(len) - 1 \subseteq si + 1 .. si + srun
    BY <1>2, <1>4, <2>1, <2>2
  <2>4. \A j \in lo .. lo + Enough(len) - 1 : Length(sin[j]) = Length(sin[lo])
    BY <1>2, <1>4, <2>3
  <2>5. lo + Enough(len) - 1 <= Len(sin)
    BY <1>2, <1>4, <2>1, <2>2
  <2> QED BY <2>4, <2>5 DEF RunFrom
<1>8. WorthFusing(sin, lo)
  BY <1>5, <1>6, <1>7 DEF WorthFusing
<1> QED BY <1>1, <1>4, <1>8 DEF Fusable

(* Each step of the scheduler leaves a place worth a call ahead, or makes  *)
(* one.                                                                    *)
LEMMA AheadStep ==
  ASSUME BatchInv, Wide, sphase \notin {"out", "done", "panicked"}, D!Next,
         scall' = scall, NEW lo \in 1 .. Len(sin), WorthFusing(sin, lo), Ahead(lo)
  PROVE  Ahead(lo)' \/ scall'.n > 0
<1>1. /\ S!Inv /\ Len(sin) \in Nat /\ S!Lanes \in {8, 16}
      /\ \A j \in 1 .. Len(sin) : Length(sin[j]) \in Nat
      /\ si \in 0 .. Len(sin) /\ srun \in Nat /\ sdone \in 0 .. srun
      /\ sphase # "scalar"
      /\ sphase = "batch" => si + 1 \in 1 .. Len(sin)
  BY PayingFacts
<1>2. S!Next /\ sin' = sin /\ lo \in Nat
  BY <1>1, InnerNext, InnerStep
<1>3. CASE S!Enter
  <2>1. sphase = "enter" /\ sphase' \in {"panicked", "scan"} /\ si' = si
    BY <1>1, <1>3 DEF S!Enter
  <2>2. si = 0
    BY <1>1, <2>1 DEF S!Inv, S!Places
  <2> QED BY <1>2, <2>1, <2>2 DEF Ahead
<1>4. CASE S!Scan
  <2>1. sphase = "scan" /\ sphase' = "batch" /\ si' = si /\ sdone' = 0 /\ si < lo
    BY <1>4 DEF S!Scan, Ahead
  <2>2. PICK r \in 1 .. Len(sin) - si :
          /\ \A j \in si + 1 .. si + r : Length(sin[j]) = Length(sin[si + 1])
          /\ si + r < Len(sin) => Length(sin[si + r + 1]) # Length(sin[si + 1])
          /\ srun' = r
    BY <1>4 DEF S!Scan, S!Length, Length
  <2>3. si \in Nat /\ r \in Nat
    BY <1>1
  <2>4. CASE si + r < lo
    BY <2>1, <2>2, <2>4 DEF Ahead
  <2>5. CASE si + r >= lo
    <3> DEFINE n == Enough(Length(sin[lo]))
    <3>1. n \in Nat /\ RunFrom(sin, lo, n) /\ Length(sin[lo]) >= 32
      BY DEF WorthFusing, Enough
    <3> HIDE DEF n
    <3>2. r >= n /\ Length(sin[lo]) = Length(sin[si + 1])
      <4>1. Len(sin) \in Nat /\ si \in Nat /\ r \in Nat /\ n \in Nat /\ si < lo /\ si + r >= lo
        BY <1>1, <2>1, <2>3, <2>5, <3>1
      <4>2. /\ RunFrom(sin, lo, n)
            /\ \A j \in si + 1 .. si + r : Length(sin[j]) = Length(sin[si + 1])
            /\ si + r < Len(sin) => Length(sin[si + r + 1]) # Length(sin[si + 1])
        BY <2>2, <3>1
      <4> QED BY <4>1, <4>2, ScanReaches
    <3> QED BY <1>2, <2>1, <2>2, <3>1, <3>2 DEF Ahead, n
  <2> QED BY <1>2, <2>3, <2>4, <2>5
<1>5. CASE S!HashOne
  <2>1. /\ sphase = "batch" /\ sphase' = "batch" /\ si' = si /\ srun' = srun
        /\ sdone < srun /\ S!NextBatch = 0
    BY <1>5 DEF S!HashOne
  <2>2. CASE si + srun < lo
    BY <2>1, <2>2 DEF Ahead
  <2>3. CASE ~(si + srun < lo)
    <3> DEFINE len == Length(sin[si + 1])
    <3>1. sdone = 0 /\ len >= 32 /\ srun >= Enough(len)
      BY <2>1, <2>3 DEF Ahead
    <3>2. len \in Nat /\ srun - sdone = srun
      BY <1>1, <2>1, <3>1
    <3>3. S!NextBatch = S!PickBatch(srun, S!Lanes, len)
      BY <3>2 DEF S!NextBatch, S!Length, Length
    <3> HIDE DEF len
    <3>4. S!NextBatch > 0
      BY <1>1, <3>1, <3>2, <3>3, LongRunPays
    <3> QED BY <2>1, <3>4
  <2> QED BY <2>2, <2>3
<1>6. CASE S!HashEqual
  BY <1>6, CallIsWorth
<1>7. CASE S!RunDone
  <2>1. sphase = "batch" /\ sphase' = "scan" /\ si' = si + srun /\ sdone = srun
    BY <1>7 DEF S!RunDone
  <2>2. si + srun < lo
    <3>1. SUFFICES ASSUME sdone = 0, srun >= Enough(Length(sin[si + 1])) PROVE FALSE
      BY <2>1 DEF Ahead
    <3>2. Enough(Length(sin[si + 1])) >= 4 /\ Enough(Length(sin[si + 1])) \in Nat
      BY DEF Enough
    <3> QED BY <1>1, <2>1, <3>1, <3>2
  <2> QED BY <2>1, <2>2 DEF Ahead
<1>8. CASE S!HashPair \/ S!HashScalar
  BY <1>1, <1>8 DEF S!HashPair, S!HashScalar
<1>9. CASE S!Return
  <2>1. sphase = "scan" /\ si = Len(sin) /\ si < lo
    BY <1>1, <1>9 DEF S!Return, Ahead
  <2> QED BY <1>1, <1>2, <2>1
<1> QED BY <1>2, <1>3, <1>4, <1>5, <1>6, <1>7, <1>8, <1>9 DEF S!Next

LEMMA PayingInner ==
  ASSUME BatchInv, Wide, sphase \notin {"out", "done", "panicked"}, D!Next, CallsWorth
  PROVE  CallsWorth'
<1>1. sin' = sin /\ S!Next /\ scall.n \in Nat /\ sphase # "scalar"
  BY PayingFacts, InnerNext, InnerStep
<1>2. CASE S!HashEqual
  <2>1. Fusable(sin) /\ scall'.n > 0
    BY <1>2, CallIsWorth
  <2>2. Fusable(sin')
    BY <1>1, <2>1
  <2> QED BY <2>1, <2>2 DEF CallsWorth, Fusable, WorthFusing, RunFrom, Length
<1>3. CASE ~S!HashEqual
  <2>1. scall' = scall
    BY <1>1, <1>3 DEF S!Next, S!Enter, S!Scan, S!HashOne, S!RunDone, S!HashPair,
       S!HashScalar, S!Return
  <2>2. scall'.n > 0 => Fusable(sin')
    BY <1>1, <2>1 DEF CallsWorth
  <2>3. CASE scall.n > 0
    BY <2>1, <2>2, <2>3 DEF CallsWorth, Fusable, WorthFusing, RunFrom, Length
  <2>4. CASE ~(scall.n > 0)
    <3>1. ASSUME NEW lo \in 1 .. Len(sin), WorthFusing(sin, lo) PROVE Ahead(lo)'
      <4>1. Ahead(lo)
        BY <2>4, <3>1 DEF CallsWorth, AllAhead
      <4> QED BY <2>1, <2>4, <3>1, <4>1, AheadStep
    <3>2. AllAhead'
      <4>1. ASSUME NEW lo \in 1 .. Len(sin'), WorthFusing(sin', lo) PROVE Ahead(lo)'
        BY <1>1, <3>1, <4>1
      <4> QED BY <4>1 DEF AllAhead, WorthFusing, RunFrom, Length
    <3> QED BY <2>1, <2>4, <3>2 DEF CallsWorth
  <2> QED BY <2>3, <2>4
<1> QED BY <1>2, <1>3

(* When the scheduler has returned, every place is behind it.              *)
LEMMA PayingOver ==
  ASSUME sphase = "done", CallsWorth
  PROVE  scall.n > 0 <=> Fusable(sin)
BY DEF CallsWorth, AllAhead, Ahead, Fusable

LEMMA PayingInit == BatchInit => Paying
BY DEF BatchInit, Init, Paying

LEMMA HashedBatchStep ==
  ASSUME UNCHANGED <<entry, inputs, order, temp>>
  PROVE  HashedBatch' = HashedBatch
BY DEF HashedBatch, SortedBy, Indices

LEMMA PayingNext == BatchInv /\ Paying /\ [BatchNext]_allvars => Paying'
<1> SUFFICES ASSUME BatchInv, Paying, [BatchNext]_allvars, Wide' PROVE Paying'
  BY DEF Paying
<1>0. UNCHANGED <<entry, inputs, platform>> /\ Wide
  <2>1. UNCHANGED <<entry, inputs, platform>>
    <3>1. StepDispatch => UNCHANGED <<entry, inputs, platform>>
      BY InnerStep DEF StepDispatch, BatchInv, Inner
    <3>2. CallDispatch \/ ReturnDispatch => UNCHANGED <<entry, inputs, platform>>
      BY DEF CallDispatch, ReturnDispatch, vars
    <3>3. Begin \/ Sort \/ Copy \/ Return => UNCHANGED <<entry, inputs>>
      BY DEF Begin, EnterMany, Enter, Sort, Copy, Return
    <3> QED BY <3>1, <3>2, <3>3 DEF BatchNext, allvars, vars
  <2> QED BY <2>1 DEF Wide
<1>1. /\ sphase # "out" => CallsWorth
      /\ phase \in {"copy", "done"} => (scall.n > 0 <=> Fusable(HashedBatch))
  BY <1>0 DEF Paying
<1> DEFINE GoalA == sphase' # "out" => CallsWorth'
           GoalB == phase' \in {"copy", "done"} => (scall'.n > 0 <=> Fusable(HashedBatch'))
<1>2. SUFFICES GoalA /\ GoalB
  BY DEF Paying, Fusable, WorthFusing, RunFrom, Length
<1>3. CASE UNCHANGED allvars
  <2>1. UNCHANGED <<entry, inputs, order, temp, phase, sphase, scall, sin, si, srun, sdone>>
    BY <1>3 DEF allvars, vars, inner
  <2>2. HashedBatch' = HashedBatch
    BY <2>1, HashedBatchStep
  <2>3. CallsWorth' <=> CallsWorth
    BY <2>1 DEF CallsWorth, AllAhead, Ahead, Fusable, WorthFusing, RunFrom, Length
  <2> QED BY <1>1, <2>1, <2>2, <2>3
<1>4. CASE (Begin \/ Sort) /\ UNCHANGED <<platform, inner>>
  <2>1. phase \in {"enter", "sort"} /\ phase' \notin {"copy", "done"} /\ sphase' = sphase
    <3>1. Begin => phase = "enter" /\ phase' \notin {"copy", "done"}
      BY DEF Begin, EnterMany, Enter, BatchInv, Fixed
    <3>2. Sort => phase = "sort" /\ phase' \notin {"copy", "done"}
      BY DEF Sort
    <3> QED BY <1>4, <3>1, <3>2 DEF inner
  <2>2. sphase = "out"
    BY <2>1 DEF BatchInv, Inner
  <2> QED BY <2>1, <2>2
<1>5. CASE CallDispatch
  <2>1. /\ sphase = "out" /\ sphase' = "enter" /\ phase' = phase /\ scall' = scall
        /\ phase \in {"direct", "temp"}
    BY <1>5 DEF CallDispatch, vars
  <2>2. scall'.n = 0
    BY <2>1 DEF BatchInv, Inner, D!NoCall
  <2>3. AllAhead'
    BY <2>1 DEF AllAhead, Ahead
  <2>4. CallsWorth'
    BY <2>2, <2>3 DEF CallsWorth
  <2> QED BY <2>1, <2>4
<1>6. CASE StepDispatch
  <2>1. /\ sphase \notin {"out", "done", "panicked"} /\ D!Next /\ phase' = phase
        /\ phase \in {"direct", "temp"}
    BY <1>6 DEF StepDispatch, BatchInv, Inner
  <2>2. CallsWorth'
    BY <1>0, <1>1, <2>1, PayingInner
  <2> QED BY <2>1, <2>2
<1>7. CASE ReturnDispatch
  <2>1. /\ sphase' = "out" /\ sphase \in {"done", "panicked"} /\ scall' = scall
        /\ phase' = IF sphase = "done" /\ phase = "temp" THEN "copy" ELSE sphase
        /\ temp' = IF sphase = "done" /\ phase = "temp" THEN sout ELSE temp
        /\ UNCHANGED <<entry, inputs, order>>
    BY <1>7 DEF ReturnDispatch
  <2>2. phase \in {"direct", "temp"} /\ sin = Hashed /\ temp = << >>
    BY <2>1, InnerOver DEF BatchInv, Inner, Temp
  <2>3. CASE sphase = "panicked"
    BY <2>1, <2>3
  <2>4. CASE sphase = "done"
    <3>1. scall.n > 0 <=> Fusable(sin)
      BY <1>1, <2>4, PayingOver
    <3>2. HashedBatch' = IF entry = "grouped" /\ temp' # << >> THEN SortedBy(order) ELSE inputs
      BY <2>1 DEF HashedBatch, SortedBy, Indices
    <3>3. phase = "temp" /\ entry = "grouped" => temp' # << >>
      <4>1. SUFFICES ASSUME phase = "temp", entry = "grouped" PROVE temp' # << >>
        OBVIOUS
      <4>2. SortPaid /\ Len(inputs) \in Nat
        BY <4>1 DEF BatchInv, Grouping, Fixed
      <4>3. Len(SortedBy(order)) = Len(inputs)
        BY <4>2 DEF SortedBy, Indices
      <4>4. Len(inputs) >= 4
        BY <4>2, <4>3 DEF SortPaid, FusedRun, SimdRun
      <4>5. temp' = sout /\ sout = [a \in Indices |-> Digest(Hashed[a])]
        BY <2>1, <2>4, <4>1, InnerOver
      <4>6. Len(sout) = Len(inputs)
        BY <4>2, <4>5 DEF Indices
      <4> QED BY <4>4, <4>5, <4>6
    <3>4. HashedBatch' = sin
      <4>1. CASE phase = "temp"
        BY <2>2, <3>2, <3>3, <4>1 DEF Hashed
      <4>2. CASE phase = "direct"
        BY <2>1, <2>2, <3>2, <4>2 DEF Hashed
      <4> QED BY <2>2, <4>1, <4>2
    <3> QED BY <2>1, <3>1, <3>4
  <2> QED BY <2>1, <2>3, <2>4
<1>8. CASE (Copy \/ Return) /\ UNCHANGED <<platform, inner>>
  <2>1. phase = "copy" /\ scall' = scall /\ sphase' = sphase
        /\ UNCHANGED <<entry, inputs, order, temp>>
    BY <1>8 DEF Copy, Return, inner
  <2>2. HashedBatch' = HashedBatch /\ sphase = "out"
    BY <2>1, HashedBatchStep DEF BatchInv, Inner
  <2> QED BY <1>1, <2>1, <2>2
<1> QED BY <1>3, <1>4, <1>5, <1>6, <1>7, <1>8 DEF BatchNext

(* What the two scans of the engine and pick_batch's thresholds mean for   *)
(* each other, at the end of a call.                                       *)
LEMMA PayingGrouped ==
  ASSUME BatchInv, phase = "done", entry = "grouped"
  PROVE  /\ Fusable(inputs) => Fusable(HashedBatch)
         /\ (\A j \in Indices : Length(inputs[j]) >= 64) =>
              (Fusable(HashedBatch) <=> Popular(inputs))
<1>1. /\ Len(inputs) \in Nat /\ \A j \in 1 .. Len(inputs) : Length(inputs[j]) \in Nat
      /\ Indices = 1 .. Len(inputs)
  BY DEF BatchInv, Fixed, Indices
<1>2. CASE temp = << >>
  <2>1. HashedBatch = inputs
    BY <1>2 DEF HashedBatch
  <2>2. Popular(inputs) => FusedRun(inputs)
    BY <1>2 DEF BatchInv, Grouping
  <2>3. FusedRun(inputs) => Popular(inputs)
    BY <1>1, RunIsPopular
  <2> QED BY <1>1, <2>1, <2>2, <2>3, FusableRuns
<1>3. CASE temp # << >>
  <2>1. HashedBatch = SortedBy(order) /\ SortPaid
    BY <1>3 DEF HashedBatch, BatchInv, Grouping
  <2>2. ~Fusable(inputs)
    BY <1>1, <2>1, FusableRuns DEF SortPaid
  <2>3. Popular(inputs)
    BY <1>1, <2>1, SortMakesRun DEF SortPaid
  <2>4. ASSUME \A j \in Indices : Length(inputs[j]) >= 64
        PROVE  Fusable(HashedBatch)
    <3> DEFINE ms == SortedBy(order)
    <3>1. order \in [Indices -> Indices]
      BY <1>1, <2>1, OrderFacts DEF SortPaid
    <3>2. Len(ms) = Len(inputs) /\ \A j \in Indices : ms[j] = inputs[order[j]]
      BY <1>1 DEF SortedBy
    <3>3. \A j \in Indices : order[j] \in Indices
      BY <3>1
    <3>4. FusedRun(ms)
      BY <2>1 DEF SortPaid
    <3> HIDE DEF ms
    <3>5. \A j \in 1 .. Len(ms) : Length(ms[j]) \in Nat /\ Length(ms[j]) >= 64
      BY <1>1, <2>4, <3>2, <3>3
    <3>6. Fusable(ms)
      BY <1>1, <3>2, <3>4, <3>5, FusableRuns
    <3> QED BY <2>1, <3>6 DEF ms
  <2> QED BY <2>2, <2>3, <2>4
<1> QED BY <1>2, <1>3

(* On a processor with a fused kernel a batch call makes a fused call if   *)
(* and only if the batch it hashes, sorted or not, has a run worth one; a  *)
(* grouped call makes one whenever the caller's order allows it, and among *)
(* messages of a block or more whenever enough of them share a length.     *)
THEOREM AlwaysGroupingPays == BatchSpec => []GroupingPays
<1>1. BatchSpec => []Paying
  BY BatchSpecInv, PayingInit, PayingNext, PTL DEF BatchSpec
<1>2. BatchInv /\ Paying => GroupingPays
  <2> SUFFICES ASSUME BatchInv, Paying, phase = "done", Wide
               PROVE  /\ scall.n > 0 <=> Fusable(HashedBatch)
                      /\ entry = "grouped" =>
                           /\ Fusable(inputs) => scall.n > 0
                           /\ (\A j \in Indices : Length(inputs[j]) >= 64) =>
                                (scall.n > 0 <=> Popular(inputs))
    BY DEF GroupingPays, Wide
  <2>1. scall.n > 0 <=> Fusable(HashedBatch)
    BY DEF Paying
  <2> QED BY <2>1, PayingGrouped
<1> QED BY <1>1, <1>2, BatchSpecInv, PTL

(***************************************************************************)
(* The composition implements Engine.                                      *)
(***************************************************************************)
(* Engine's view of the slots and of the phase. *)
CoarseOutputs == IF phase = "direct" THEN [j \in DOMAIN outputs |-> Untouched] ELSE outputs
CoarsePhase == IF phase = "direct" /\ Len(outputs) < Len(inputs) THEN "enter" ELSE phase

(* The two modules speak of the same runs, orders and digests.             *)
LEMMA CoarseFacts ==
  /\ \A m : Coarse!Length(m) = Length(m) /\ Coarse!Digest(m) = Digest(m)
  /\ \A ms : Coarse!HasSimdSizedRun(ms) <=> HasSimdSizedRun(ms)
  /\ \A ms : Coarse!Digests(ms) = Digests(ms)
  /\ Coarse!Indices = Indices /\ Coarse!SortedOrders = SortedOrders
  /\ \A o : Coarse!SortedBy(o) = SortedBy(o)
  /\ Coarse!SimdRun = SimdRun
<1>1. \A m : Coarse!Length(m) = Length(m) /\ Coarse!Digest(m) = Digest(m)
  BY DEF Coarse!Length, Length, Coarse!Digest, Digest
<1>2. \A ms : Coarse!HasSimdSizedRun(ms) <=> HasSimdSizedRun(ms)
  <2>1. \A ms : Coarse!RunAt(ms) = RunAt(ms)
    BY DEF Coarse!RunAt, RunAt, Coarse!Length, Length
  <2> QED BY <2>1 DEF Coarse!HasSimdSizedRun, HasSimdSizedRun, Coarse!SimdRun, SimdRun
<1>3. Coarse!Indices = Indices
  BY DEF Coarse!Indices, Indices
<1>4. Coarse!SortedOrders = SortedOrders
  BY <1>3 DEF Coarse!SortedOrders, SortedOrders, Coarse!Length, Length
<1>5. \A ms : Coarse!Digests(ms) = Digests(ms)
  BY <1>1 DEF Coarse!Digests, Digests
<1>6. \A o : Coarse!SortedBy(o) = SortedBy(o)
  BY <1>3 DEF Coarse!SortedBy, SortedBy
<1> QED BY <1>1, <1>2, <1>3, <1>4, <1>5, <1>6 DEF Coarse!SimdRun, SimdRun

(* What Engine sees before the first write. *)
Unwritten ==
  phase \in {"enter", "direct", "sort", "temp"} =>
    /\ CoarseOutputs = [s \in 1 .. Len(outputs) |-> Untouched]
    /\ Len(CoarseOutputs) = Len(outputs) /\ Len(outputs) \in Nat
    /\ Len(inputs) \in Nat
    /\ sphase = "out" \/ phase = "temp" => CoarseOutputs = outputs

LEMMA CoarseUnwritten == BatchInv => Unwritten
<1> SUFFICES ASSUME BatchInv, phase \in {"enter", "direct", "sort", "temp"}
             PROVE  /\ CoarseOutputs = [s \in 1 .. Len(outputs) |-> Untouched]
                    /\ Len(CoarseOutputs) = Len(outputs) /\ Len(outputs) \in Nat
                    /\ Len(inputs) \in Nat
                    /\ sphase = "out" \/ phase = "temp" => CoarseOutputs = outputs
  BY DEF Unwritten
<1>1. Len(outputs) \in Nat /\ Len(inputs) \in Nat
  BY DEF BatchInv, Fixed
<1>2. DOMAIN outputs = 1 .. Len(outputs)
  <2>1. CASE phase = "direct" /\ sphase # "out"
    <3>1. S!Slots /\ outputs = sout
      BY <2>1 DEF BatchInv, Inner, Slots, S!Inv
    <3>2. DOMAIN sout = 1 .. Len(sout)
      BY <3>1 DEF S!Slots
    <3> QED BY <3>1, <3>2
  <2>2. CASE ~(phase = "direct" /\ sphase # "out")
    BY <2>2 DEF BatchInv, Slots
  <2> QED BY <2>1, <2>2
<1>3. ~(phase = "direct" /\ sphase # "out") => outputs = [s \in 1 .. Len(outputs) |-> Untouched]
  BY DEF BatchInv, Slots, Written
<1>4. CoarseOutputs = [s \in 1 .. Len(outputs) |-> Untouched]
  BY <1>2, <1>3 DEF CoarseOutputs
<1>5. Len(CoarseOutputs) = Len(outputs)
  BY <1>1, <1>4
<1> QED BY <1>1, <1>3, <1>4, <1>5

LEMMA CoarseUnwrittenNext == BatchInv' => Unwritten'
BY CoarseUnwritten, PTL

LEMMA CoarseInit == BatchInit => Coarse!Init
<1> SUFFICES ASSUME BatchInit PROVE Coarse!Init
  OBVIOUS
<1>1. CoarseOutputs = outputs /\ CoarsePhase = "enter" /\ Init
  BY DEF BatchInit, Init, CoarseOutputs, CoarsePhase
<1> QED BY <1>1 DEF Coarse!Init, Init, CoarseOutputs, CoarsePhase

(* A step of the scheduler, or a call of it, is no step of Engine.         *)
LEMMA CoarseStutter ==
  ASSUME UNCHANGED <<entry, inputs, order, temp, k>>,
         CoarseOutputs' = CoarseOutputs, CoarsePhase' = CoarsePhase
  PROVE  UNCHANGED Coarse!vars
BY DEF Coarse!vars, CoarseOutputs, CoarsePhase

LEMMA CoarseBegin ==
  ASSUME BatchInv, BatchInv', Begin, UNCHANGED <<platform, inner>>
  PROVE  Coarse!Enter \/ UNCHANGED Coarse!vars
<1>1. /\ phase = "enter" /\ UNCHANGED <<entry, inputs, outputs, order, temp, k>>
      /\ sphase = "out" /\ sphase' = "out"
      /\ phase' \in {"direct", "temp", "sort", "panicked"}
  BY DEF Begin, EnterMany, Enter, inner, BatchInv, Inner, Fixed
<1>2. /\ CoarseOutputs = outputs /\ Len(outputs) \in Nat /\ Len(inputs) \in Nat
      /\ CoarsePhase = "enter"
  BY <1>1, CoarseUnwritten DEF CoarsePhase, Unwritten
<1>3. CoarseOutputs' = outputs
  <2>1. CASE phase' = "panicked"
    BY <1>1, <2>1 DEF CoarseOutputs
  <2>2. CASE phase' # "panicked"
    <3>1. phase' \in {"enter", "direct", "sort", "temp"}
      BY <1>1, <2>2
    <3>2. CoarseOutputs' = outputs'
      BY <1>1, <3>1, CoarseUnwrittenNext DEF Unwritten
    <3> QED BY <1>1, <3>2
  <2> QED BY <2>1, <2>2
<1>4. CASE EnterMany /\ Len(outputs) < Len(inputs)
  <2>1. CoarsePhase' = "enter"
    BY <1>1, <1>4 DEF EnterMany, CoarsePhase
  <2> QED BY <1>1, <1>2, <1>3, <2>1, CoarseStutter
<1>5. CASE EnterMany /\ ~(Len(outputs) < Len(inputs))
  <2>1. CoarsePhase' = "direct" /\ entry = "many"
    BY <1>1, <1>5 DEF EnterMany, CoarsePhase
  <2> QED
    BY <1>1, <1>2, <1>3, <1>5, <2>1 DEF Coarse!Enter, CoarseOutputs, CoarsePhase
<1>6. CASE entry # "many" /\ Enter
  <2>1. phase' = "direct" => Len(inputs) <= Len(outputs)
    BY <1>1, <1>6 DEF BatchInv, Places
  <2>2. CoarsePhase' = phase'
    BY <1>1, <1>2, <2>1 DEF CoarsePhase
  <2>3. Enter
    BY <1>6
  <2> QED
    BY <1>1, <1>2, <1>3, <2>2, <2>3, CoarseFacts
    DEF Coarse!Enter, Enter, CoarseOutputs, CoarsePhase
<1> QED BY <1>4, <1>5, <1>6 DEF Begin

LEMMA CoarseSort ==
  ASSUME BatchInv, BatchInv', Sort, UNCHANGED <<platform, inner>>
  PROVE  Coarse!Sort
<1>1. /\ phase = "sort" /\ UNCHANGED <<entry, inputs, outputs, temp, k>>
      /\ sphase = "out" /\ sphase' = "out" /\ phase' \in {"direct", "temp"}
      /\ entry = "grouped" /\ CoarsePhase = "sort"
  BY DEF Sort, inner, BatchInv, Inner, Places, CoarsePhase
<1>2. CoarseOutputs = outputs /\ CoarseOutputs' = outputs' /\ Len(outputs) \in Nat
      /\ Len(inputs) \in Nat
  BY <1>1, CoarseUnwritten, CoarseUnwrittenNext DEF Unwritten
<1>3. CoarsePhase' = phase'
  BY <1>1, <1>2 DEF BatchInv, Places, CoarsePhase
<1>4. PICK o \in SortedOrders :
        /\ order' = o
        /\ phase' = IF HasSimdSizedRun(SortedBy(o)) THEN "temp" ELSE "direct"
  BY DEF Sort
<1>5. /\ o \in Coarse!SortedOrders
      /\ CoarsePhase' = IF Coarse!HasSimdSizedRun(Coarse!SortedBy(o)) THEN "temp" ELSE "direct"
  BY <1>3, <1>4, CoarseFacts
<1> QED BY <1>1, <1>2, <1>4, <1>5 DEF Coarse!Sort, CoarseOutputs, CoarsePhase

(* hash_many_dispatch returns: only now has Engine's step taken place.     *)
LEMMA CoarseReturnDispatch ==
  ASSUME BatchInv, ReturnDispatch
  PROVE  Coarse!Next
<1>1. /\ sphase \in {"done", "panicked"}
      /\ phase' = IF sphase = "done" /\ phase = "temp" THEN "copy" ELSE sphase
      /\ temp' = IF sphase = "done" /\ phase = "temp" THEN sout ELSE temp
      /\ UNCHANGED <<entry, inputs, outputs, order, k>>
  BY DEF ReturnDispatch
<1>2. /\ phase \in {"direct", "temp"} /\ Len(inputs) \in Nat /\ Len(outputs) \in Nat
      /\ sphase = "panicked" => phase = "direct" /\ Len(outputs) < Len(inputs)
      /\ sphase = "done" /\ phase = "temp" => sout = [a \in Indices |-> Digest(Hashed[a])]
      /\ phase = "direct" =>
           /\ sphase = "done" => Len(inputs) <= Len(outputs)
           /\ outputs = [s \in 1 .. Len(outputs) |->
                           IF sphase = "done" /\ s \in Indices THEN Digest(inputs[s])
                           ELSE Untouched]
  BY <1>1, InnerOver
<1>3. /\ CoarseOutputs = [s \in 1 .. Len(outputs) |-> Untouched]
      /\ Len(CoarseOutputs) = Len(outputs)
      /\ phase = "temp" => CoarseOutputs = outputs
  BY <1>2, CoarseUnwritten DEF Unwritten
<1>4. CoarseOutputs' = outputs /\ CoarsePhase' = phase'
  BY <1>1 DEF CoarseOutputs, CoarsePhase
<1>5. CASE sphase = "done" /\ phase = "temp"
  <2>1. sout = Digests(IF entry = "grouped" THEN SortedBy(order) ELSE inputs)
    <3>1. Len(Hashed) = Len(inputs)
      BY <1>2, HashedFacts
    <3>2. sout = Digests(Hashed)
      BY <1>2, <1>5, <3>1 DEF Digests, Indices
    <3> QED BY <1>5, <3>2 DEF Hashed
  <2>2. CoarsePhase = "temp" /\ phase' = "copy" /\ temp' = sout
    BY <1>1, <1>5 DEF CoarsePhase
  <2>3. Coarse!HashTemp
    BY <1>1, <1>3, <1>4, <1>5, <2>1, <2>2, CoarseFacts
    DEF Coarse!HashTemp, CoarseOutputs, CoarsePhase
  <2> QED BY <2>3 DEF Coarse!Next
<1>6. CASE sphase = "done" /\ phase = "direct"
  <2>1. CoarsePhase = "direct" /\ phase' = "done" /\ temp' = temp
    BY <1>1, <1>2, <1>6 DEF CoarsePhase
  <2>2. CoarseOutputs' = [j \in 1 .. Len(CoarseOutputs) |->
          IF j <= Len(inputs) THEN Digest(inputs[j]) ELSE CoarseOutputs[j]]
    <3>1. \A s \in 1 .. Len(outputs) : s \in Indices <=> s <= Len(inputs)
      BY <1>2 DEF Indices
    <3> QED BY <1>2, <1>3, <1>4, <1>6, <3>1
  <2>3. Coarse!HashMany
    BY <1>1, <1>4, <2>1, <2>2, CoarseFacts DEF Coarse!HashMany, CoarseOutputs, CoarsePhase
  <2> QED BY <2>3 DEF Coarse!Next
<1>7. CASE sphase = "panicked"
  <2>1. CoarsePhase = "enter" /\ phase' = "panicked" /\ temp' = temp
    BY <1>1, <1>2, <1>7 DEF CoarsePhase
  <2>2. CoarseOutputs' = CoarseOutputs /\ Len(CoarseOutputs) < Len(inputs)
    BY <1>2, <1>3, <1>4, <1>7
  <2>3. Coarse!Enter
    BY <1>1, <1>4, <2>1, <2>2 DEF Coarse!Enter, CoarseOutputs, CoarsePhase
  <2> QED BY <2>3 DEF Coarse!Next
<1> QED BY <1>1, <1>2, <1>5, <1>6, <1>7

LEMMA CoarseNext == BatchInv /\ [BatchNext]_allvars => [Coarse!Next]_(Coarse!vars)
<1> SUFFICES ASSUME BatchInv, [BatchNext]_allvars PROVE [Coarse!Next]_(Coarse!vars)
  OBVIOUS
<1>0. BatchInv'
  BY BatchNextInv
<1>1. CASE UNCHANGED allvars
  BY <1>1, CoarseStutter DEF allvars, vars, CoarseOutputs, CoarsePhase
<1>2. CASE Begin /\ UNCHANGED <<platform, inner>>
  BY <1>0, <1>2, CoarseBegin DEF Coarse!Next
<1>3. CASE Sort /\ UNCHANGED <<platform, inner>>
  BY <1>0, <1>3, CoarseSort DEF Coarse!Next
<1>4. CASE CallDispatch
  BY <1>4, CoarseStutter DEF CallDispatch, vars, CoarseOutputs, CoarsePhase
<1>5. CASE StepDispatch
  <2>1. /\ UNCHANGED <<entry, inputs, phase, order, temp, k>>
        /\ phase \in {"direct", "temp"} /\ Len(outputs') = Len(outputs)
    <3>1. /\ UNCHANGED <<entry, inputs, phase, order, temp, k>>
          /\ phase \in {"direct", "temp"} /\ S!Inv /\ D!Next
          /\ outputs' = IF phase = "direct" THEN sout' ELSE outputs
          /\ phase = "direct" => Len(sout) = Len(outputs)
      BY <1>5 DEF StepDispatch, BatchInv, Inner
    <3> QED BY <3>1, InnerStep
  <2>2. CoarseOutputs' = CoarseOutputs /\ CoarsePhase' = CoarsePhase
    <3>1. /\ CoarseOutputs = [s \in 1 .. Len(outputs) |-> Untouched]
          /\ CoarseOutputs' = [s \in 1 .. Len(outputs') |-> Untouched]
      BY <1>0, <2>1, CoarseUnwritten, CoarseUnwrittenNext DEF Unwritten
    <3> QED BY <2>1, <3>1 DEF CoarsePhase
  <2> QED BY <2>1, <2>2, CoarseStutter
<1>6. CASE ReturnDispatch
  BY <1>6, CoarseReturnDispatch
<1>7. CASE Copy /\ UNCHANGED <<platform, inner>>
  BY <1>7 DEF Copy, Coarse!Copy, Coarse!Next
<1>8. CASE Return /\ UNCHANGED <<platform, inner>>
  BY <1>8 DEF Return, Coarse!Return, Coarse!Next
<1> QED BY <1>1, <1>2, <1>3, <1>4, <1>5, <1>6, <1>7, <1>8 DEF BatchNext

(* With the scheduler inside, the entry points take the steps of Engine:   *)
(* a call of hash_many, whatever order the scheduler fills the slots in,   *)
(* is the one step that fills them all, and only a call that never began   *)
(* panics.  (That the steps are taken is ImplementsEngine's fairness.)     *)
THEOREM EngineRefinement == BatchSpec => Coarse!Init /\ [][Coarse!Next]_(Coarse!vars)
BY CoarseInit, CoarseNext, BatchSpecInv, PTL DEF BatchSpec

(* Every fused call that is made for an engine call, on the caller's batch *)
(* or on the sorted one, keeps the contract the unsafe kernels rely on     *)
(* (src/simd/wide.rs:317-323).                                             *)
THEOREM EngineKernelContract == BatchSpec => [](sphase # "out" => D!KernelContract)
<1>1. S!KernelContract => D!KernelContract
  BY DEF S!KernelContract, D!KernelContract, S!KernelsOf, D!KernelsOf,
         S!LanesIn, D!LanesIn, S!LanesOf, D!LanesOf, S!Ceil, D!Ceil, S!MaxGroups, D!MaxGroups,
         S!Length, D!Length
<1>2. BatchInv => (sphase # "out" => D!KernelContract)
  BY <1>1 DEF BatchInv, Inner, S!Inv
<1> QED BY <1>2, BatchSpecInv, PTL

(* And whatever bytes the messages hold, it is a call that module Wide has *)
(* among its initial states: what WideProofs says of those holds of it.    *)
THEOREM EngineCallsMayBeMade ==
  ASSUME NEW Byte
  PROVE  BatchSpec => [](sphase # "out" /\ scall.n > 0 /\ scall.kernel # "pair" =>
                           \A texts : S!IsText(texts, Byte) =>
                             /\ S!CallOf(texts) \in Seq(Seq(Byte))
                             /\ S!MayCall(scall.kernel, S!CallOf(texts)))
<1>1. BatchInv => (sphase # "out" /\ scall.n > 0 /\ scall.kernel # "pair" =>
                     \A texts : S!IsText(texts, Byte) =>
                       /\ S!CallOf(texts) \in Seq(Seq(Byte))
                       /\ S!MayCall(scall.kernel, S!CallOf(texts)))
  BY S!ContractIsMayCall, InnerAssumption DEF BatchInv, Inner
<1> QED BY <1>1, BatchSpecInv, PTL

(***************************************************************************)
(* Termination: a call of an entry point, with the scheduler inside, takes *)
(* no more than 4 * Len(inputs) + 8 steps.                                 *)
(***************************************************************************)
InnerLeft == IF sphase = "out" THEN 3 * Len(inputs) + 4 ELSE S!StepsLeft + 1

CallLeft ==
  CASE phase = "enter"  -> 4 * Len(inputs) + 8
    [] phase = "sort"   -> 4 * Len(inputs) + 7
    [] phase = "temp"   -> Len(inputs) + 2 + InnerLeft
    [] phase = "direct" -> InnerLeft
    [] phase = "copy"   -> Len(inputs) - k + 1
    [] phase \in {"done", "panicked"} -> 0

CallShrinks == CallLeft \in Nat /\ CallLeft' \in Nat /\ CallLeft' < CallLeft

LEMMA LeftFacts ==
  /\ phase = "enter" => CallLeft = 4 * Len(inputs) + 8
  /\ phase = "sort" => CallLeft = 4 * Len(inputs) + 7
  /\ phase = "temp" => CallLeft = Len(inputs) + 2 + InnerLeft
  /\ phase = "direct" => CallLeft = InnerLeft
  /\ phase = "copy" => CallLeft = Len(inputs) - k + 1
  /\ phase \in {"done", "panicked"} => CallLeft = 0
  /\ sphase = "out" => InnerLeft = 3 * Len(inputs) + 4
  /\ sphase # "out" => InnerLeft = S!StepsLeft + 1
BY DEF CallLeft, InnerLeft

LEMMA LeftFactsNext ==
  /\ phase' = "enter" => CallLeft' = 4 * Len(inputs') + 8
  /\ phase' = "sort" => CallLeft' = 4 * Len(inputs') + 7
  /\ phase' = "temp" => CallLeft' = Len(inputs') + 2 + InnerLeft'
  /\ phase' = "direct" => CallLeft' = InnerLeft'
  /\ phase' = "copy" => CallLeft' = Len(inputs') - k' + 1
  /\ phase' \in {"done", "panicked"} => CallLeft' = 0
  /\ sphase' = "out" => InnerLeft' = 3 * Len(inputs') + 4
  /\ sphase' # "out" => InnerLeft' = S!StepsLeft' + 1
BY DEF CallLeft, InnerLeft

(* Before hash_many is called, each step goes on to a later phase.         *)
LEMMA FrontShrinks ==
  ASSUME BatchInv, (Begin \/ Sort) /\ UNCHANGED <<platform, inner>>
  PROVE  CallShrinks
<1>1. /\ inputs' = inputs /\ Len(inputs) \in Nat /\ sphase' = "out"
      /\ phase \in {"enter", "sort"}
  BY DEF BatchInv, Fixed, Inner, Begin, EnterMany, Enter, Sort, inner
<1>2. /\ phase = "enter" => phase' \in {"direct", "temp", "sort", "panicked"}
      /\ phase = "sort" => phase' \in {"direct", "temp"}
  <2>1. CASE Begin
    BY <2>1 DEF Begin, EnterMany, Enter, BatchInv, Fixed
  <2>2. CASE Sort
    BY <2>2 DEF Sort
  <2> QED BY <2>1, <2>2
<1> DEFINE n == Len(inputs)
<1>3. InnerLeft' = 3 * n + 4 /\ n \in Nat
  BY <1>1, LeftFactsNext
<1>4. \/ phase = "enter" /\ CallLeft = 4 * n + 8
      \/ phase = "sort" /\ CallLeft = 4 * n + 7
  BY <1>1, LeftFacts
<1>5. \/ phase' = "temp" /\ CallLeft' = n + 2 + (3 * n + 4)
      \/ phase' = "direct" /\ CallLeft' = 3 * n + 4
      \/ phase' = "panicked" /\ CallLeft' = 0
      \/ phase = "enter" /\ phase' = "sort" /\ CallLeft' = 4 * n + 7
  BY <1>1, <1>2, <1>3, LeftFactsNext
<1> HIDE DEF n
<1> QED BY <1>3, <1>4, <1>5, SMT DEF CallShrinks

LEMMA CallDispatchShrinks ==
  ASSUME BatchInv, CallDispatch
  PROVE  CallShrinks
<1>1. /\ phase \in {"direct", "temp"} /\ phase' = phase /\ inputs' = inputs
      /\ sphase = "out" /\ sphase' = "enter" /\ Len(inputs) \in Nat /\ sin' = Hashed
  BY DEF CallDispatch, vars, Hashed, BatchInv, Fixed
<1>2. Len(sin') = Len(inputs)
  BY <1>1, HashedFacts
<1>3. S!StepsLeft' = 3 * Len(inputs) + 2
  BY <1>1, <1>2, S!PhaseFactsNext, InnerAssumption
<1> DEFINE n == Len(inputs)
<1>4. InnerLeft = 3 * n + 4 /\ InnerLeft' = 3 * n + 2 + 1 /\ n \in Nat
  BY <1>1, <1>3, LeftFacts, LeftFactsNext
<1>5. \/ CallLeft = n + 2 + InnerLeft /\ CallLeft' = n + 2 + InnerLeft'
      \/ CallLeft = InnerLeft /\ CallLeft' = InnerLeft'
  BY <1>1, LeftFacts, LeftFactsNext
<1> HIDE DEF n
<1> QED BY <1>4, <1>5, SMT DEF CallShrinks

LEMMA StepDispatchShrinks ==
  ASSUME BatchInv, StepDispatch
  PROVE  CallShrinks
<1>1. /\ phase \in {"direct", "temp"} /\ phase' = phase /\ inputs' = inputs
      /\ sphase # "out" /\ S!Inv /\ D!Next /\ Len(inputs) \in Nat
  BY DEF StepDispatch, BatchInv, Inner, Fixed
<1>2. sphase' # "out"
  BY <1>1, InnerStep DEF S!Inv, S!Places
<1>3. S!StepsLeft \in Nat /\ S!StepsLeft' \in Nat /\ S!StepsLeft' < S!StepsLeft
  BY <1>1, InnerNext, InnerAssumption, S!NextShrinks DEF S!Shrinks
<1>4. InnerLeft = S!StepsLeft + 1 /\ InnerLeft' = S!StepsLeft' + 1
  BY <1>1, <1>2, LeftFacts, LeftFactsNext
<1>5. \/ CallLeft = Len(inputs) + 2 + InnerLeft /\ CallLeft' = Len(inputs) + 2 + InnerLeft'
      \/ CallLeft = InnerLeft /\ CallLeft' = InnerLeft'
  BY <1>1, LeftFacts, LeftFactsNext
<1>6. ASSUME NEW n \in Nat, NEW a \in Nat, NEW b \in Nat, b < a
      PROVE  n + 2 + (b + 1) < n + 2 + (a + 1) /\ b + 1 < a + 1
  BY <1>6, SMT
<1> QED BY <1>1, <1>3, <1>4, <1>5, <1>6 DEF CallShrinks

LEMMA ReturnDispatchShrinks ==
  ASSUME BatchInv, ReturnDispatch
  PROVE  CallShrinks
<1>1. /\ phase \in {"direct", "temp"} /\ inputs' = inputs /\ k' = k /\ k = 0
      /\ sphase \in {"done", "panicked"} /\ Len(inputs) \in Nat
      /\ \/ phase = "temp" /\ phase' = "copy"
         \/ phase' \in {"done", "panicked"}
  BY DEF ReturnDispatch, BatchInv, Inner, Fixed, Places
<1>2. S!StepsLeft = 0
  BY <1>1, S!PhaseFacts, InnerAssumption
<1> DEFINE n == Len(inputs)
<1>3. InnerLeft = 0 + 1 /\ n \in Nat
  BY <1>1, <1>2, LeftFacts
<1>4. CallLeft = n + 2 + (0 + 1) \/ (phase = "direct" /\ CallLeft = 0 + 1)
  BY <1>1, <1>3, LeftFacts
<1>5. CallLeft' = 0 \/ (phase = "temp" /\ CallLeft' = n - 0 + 1)
  BY <1>1, LeftFactsNext
<1> HIDE DEF n
<1> QED BY <1>3, <1>4, <1>5, SMT DEF CallShrinks

LEMMA CopyShrinks ==
  ASSUME BatchInv, Copy \/ Return
  PROVE  CallShrinks
<1>1. /\ phase = "copy" /\ inputs' = inputs /\ Len(inputs) \in Nat /\ k \in 0 .. Len(inputs)
      /\ \/ phase' = "copy" /\ k < Len(inputs) /\ k' = k + 1
         \/ phase' = "done" /\ k = Len(inputs)
  BY DEF Copy, Return, BatchInv, Fixed, Places
<1> DEFINE n == Len(inputs)
<1>2. CallLeft = n - k + 1 /\ n \in Nat /\ k \in 0 .. n
  BY <1>1, LeftFacts
<1>3. \/ k < n /\ CallLeft' = n - (k + 1) + 1
      \/ CallLeft' = 0
  BY <1>1, LeftFactsNext
<1> HIDE DEF n
<1> QED BY <1>2, <1>3, SMT DEF CallShrinks

(* Each step of a call, of the entry point's own and of the scheduler's    *)
(* inside it, lowers a natural number: no batch, however it is sorted and  *)
(* cut into runs, keeps a call going forever.                              *)
THEOREM BatchCallsShrink == BatchSpec => [][CallShrinks]_allvars
<1>1. BatchInv /\ [BatchNext]_allvars => [CallShrinks]_allvars
  BY FrontShrinks, CallDispatchShrinks, StepDispatchShrinks, ReturnDispatchShrinks,
     CopyShrinks DEF BatchNext
<1> QED BY <1>1, BatchSpecInv, PTL DEF BatchSpec
=============================================================================
