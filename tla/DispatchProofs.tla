--------------------------- MODULE DispatchProofs --------------------------
(***************************************************************************)
(* The batch scheduler keeps the contract of the fused kernels and         *)
(* implements BatchHash, for every batch, every mix of lengths, every      *)
(* number of slots and every platform.                                     *)
(***************************************************************************)
EXTENDS Dispatch, WellFoundedInduction, TLAPS

(***************************************************************************)
(* Induction over the naturals, through their least elements.              *)
(***************************************************************************)
LEMMA LessWellFounded == IsWellFoundedOn({p \in Nat \X Nat : p[1] < p[2]}, Nat)
BY NatLessThanWellFounded, Zenon DEF OpToRel

LEMMA LeastNat ==
  ASSUME NEW T, T \subseteq Nat, T # {}
  PROVE  \E x \in T : \A y \in T : x <= y
<1> DEFINE R == {p \in Nat \X Nat : p[1] < p[2]}
<1>1. IsWellFoundedOn(R, Nat)
  BY LessWellFounded
<1>2. \A a, b \in Nat : <<a, b>> \in R <=> a < b
  OBVIOUS
<1> HIDE DEF R
<1>3. PICK x \in T : \A y \in T : ~(<<y, x>> \in R)
  BY <1>1, WFMin, Zenon
<1>4. \A y \in T : ~(y < x)
  BY <1>2, <1>3
<1> QED BY <1>4

(***************************************************************************)
(* The choice of a batch and of its kernel.                                *)
(***************************************************************************)
Wide == {"avx2", "avx512", "neon"}

LEMMA PlatformFacts ==
  ASSUME platform \in {"none", "pair", "avx2", "avx512", "neon"}
  PROVE  /\ Lanes > 1 <=> platform \in Wide
         /\ Lanes = 1 <=> platform \in {"none", "pair"}
         /\ platform \in {"avx2", "neon"} => Lanes = 8
         /\ platform = "avx512" => Lanes = 16
BY DEF Lanes, Wide

(* A batch is empty, or what a fused call may be given. *)
LEMMA PickBatchFacts ==
  ASSUME NEW left \in Nat, NEW max \in {8, 16}, NEW len \in Nat
  PROVE  /\ PickBatch(left, max, len) \in 0 .. left
         /\ PickBatch(left, max, len) > 0 =>
              /\ len >= 32
              /\ PickBatch(left, max, len) \in 4 .. 4 * max
BY SMT DEF PickBatch, LesserOf, MaxGroups

LEMMA LanesInFacts ==
  /\ LanesIn("neon4") = 4 /\ LanesIn("neon8") = 8 /\ LanesIn("avx2") = 8
  /\ LanesIn("avx512") = 16 /\ LanesIn("pair") = 2
BY DEF LanesIn, LanesOf

(* The kernel is there, and its groups fit the state array. *)
LEMMA KernelForFacts ==
  ASSUME platform \in Wide, NEW n \in 4 .. 4 * Lanes
  PROVE  /\ KernelFor(n) \in KernelsOf
         /\ Ceil(n, LanesIn(KernelFor(n))) <= MaxGroups
<1>1. CASE platform = "neon"
  <2>1. n \in 4 .. 32
    BY <1>1 DEF Lanes
  <2>2. KernelFor(n) = IF n >= 5 THEN "neon8" ELSE "neon4"
    BY <1>1 DEF KernelFor
  <2>3. n >= 5 => (n + 8 - 1) \div 8 <= 4
    BY <2>1, SMT
  <2>4. n < 5 => (n + 4 - 1) \div 4 <= 4
    BY <2>1, SMT
  <2>5. n >= 5 \/ n < 5
    BY <2>1, SMT
  <2> QED BY <1>1, <2>2, <2>3, <2>4, <2>5, LanesInFacts DEF KernelsOf, Ceil, MaxGroups
<1>2. CASE platform = "avx2"
  <2>1. n \in 4 .. 32
    BY <1>2 DEF Lanes
  <2>2. KernelFor(n) = "avx2"
    BY <1>2 DEF KernelFor
  <2>3. (n + 8 - 1) \div 8 <= 4
    BY <2>1, SMT
  <2> QED BY <1>2, <2>2, <2>3, LanesInFacts DEF KernelsOf, Ceil, MaxGroups
<1>3. CASE platform = "avx512"
  <2>1. n \in 4 .. 64
    BY <1>3 DEF Lanes
  <2>2. KernelFor(n) = IF n <= 8 THEN "avx2" ELSE "avx512"
    BY <1>3 DEF KernelFor
  <2>3. n <= 8 => (n + 8 - 1) \div 8 <= 4
    BY <2>1, SMT
  <2>4. n > 8 => (n + 16 - 1) \div 16 <= 4
    BY <2>1, SMT
  <2>5. n <= 8 \/ n > 8
    BY <2>1, SMT
  <2> QED BY <1>3, <2>2, <2>3, <2>4, <2>5, LanesInFacts DEF KernelsOf, Ceil, MaxGroups
<1> QED BY <1>1, <1>2, <1>3 DEF Wide

(***************************************************************************)
(* The inductive invariant: the slots up to the last finished input hold   *)
(* their digests, the others are as the caller left them; in a run, the    *)
(* inputs have one length; the path fits the platform.                     *)
(***************************************************************************)
Finished == IF phase = "batch" THEN i + done ELSE i

Slots ==
  /\ Len(outputs) \in Nat
  /\ outputs = [k \in 1 .. Len(outputs) |->
                  IF k <= Finished THEN Digest(inputs[k]) ELSE Untouched]

Places ==
  /\ phase \in {"enter", "scan", "batch", "scalar", "done", "panicked"}
  /\ i \in 0 .. Len(inputs) /\ run \in Nat /\ done \in 0 .. run
  /\ phase \in {"enter", "panicked"} => i = 0
  /\ phase \in {"scan", "batch", "scalar", "done"} => Len(inputs) <= Len(outputs)
  /\ phase = "panicked" => Len(outputs) < Len(inputs)
  /\ phase \in {"scan", "batch"} => platform \in Wide
  /\ phase = "scalar" => platform \in {"none", "pair"}
  /\ phase = "done" => i = Len(inputs)
  /\ phase = "batch" =>
       /\ i < Len(inputs) /\ i + run <= Len(inputs)
       /\ \A k \in i + 1 .. i + run : Length(inputs[k]) = Length(inputs[i + 1])

Fixed ==
  /\ platform \in {"none", "pair", "avx2", "avx512", "neon"}
  /\ Len(inputs) \in Nat
  /\ \A k \in 1 .. Len(inputs) : Length(inputs[k]) \in Nat

Inv ==
  /\ platform \in Platforms
  /\ Fixed /\ Places /\ Slots
  /\ call.n \in Nat /\ call.lo \in Nat /\ KernelContract

LEMMA InitInv == Init => Inv
<1> SUFFICES ASSUME Init PROVE Inv
  OBVIOUS
<1>1. Fixed /\ platform \in Platforms
  BY DispatchAssumption DEF Init, Fixed, Length
<1>2. PICK s \in Slack :
        /\ Len(inputs) + s >= 1
        /\ outputs = [k \in 1 .. Len(inputs) + s - 1 |-> Untouched]
  BY DEF Init
<1>3. Len(inputs) + s - 1 \in Nat /\ Len(outputs) = Len(inputs) + s - 1
  BY <1>1, <1>2, DispatchAssumption, SMT DEF Fixed
<1>4. i = 0 /\ phase = "enter" /\ run = 0 /\ done = 0 /\ call.n = 0 /\ call.lo = 0
  BY DEF Init, NoCall
<1>5. Slots
  <2>1. \A k \in 1 .. Len(outputs) : ~(k <= 0)
    BY <1>3, SMT
  <2> QED BY <1>2, <1>3, <1>4, <2>1 DEF Slots, Finished
<1>6. Places
  BY <1>1, <1>4 DEF Places, Fixed
<1> QED BY <1>1, <1>4, <1>5, <1>6 DEF Inv, KernelContract

(* What a step leaves alone. *)
LEMMA FixedFacts ==
  ASSUME Inv, platform' = platform, inputs' = inputs
  PROVE  /\ platform' \in Platforms /\ Fixed'
         /\ call' = call => call'.n \in Nat /\ call'.lo \in Nat /\ KernelContract'
BY DEF Inv, Fixed, KernelContract, Length, KernelsOf

(* Filling the next n slots finishes n inputs. *)
LEMMA FillFacts ==
  ASSUME Inv, NEW n \in Nat, Fill(Finished, n), inputs' = inputs,
         Finished' = Finished + n, Finished + n <= Len(outputs), Finished \in Nat
  PROVE  Slots' /\ Len(outputs') = Len(outputs)
<1>1. Len(outputs) \in Nat /\ outputs = [k \in 1 .. Len(outputs) |->
                  IF k <= Finished THEN Digest(inputs[k]) ELSE Untouched]
  BY DEF Inv, Slots
<1>2. outputs' = [k \in 1 .. Len(outputs) |->
        IF k \in Finished + 1 .. Finished + n THEN Digest(inputs[k]) ELSE outputs[k]]
  BY DEF Fill
<1> DEFINE f == Finished
           size == Len(outputs)
<1>3. f \in Nat /\ size \in Nat /\ Finished' = f + n
  BY <1>1
<1>4. outputs' = [k \in 1 .. size |->
        IF k \in f + 1 .. f + n THEN Digest(inputs[k])
        ELSE IF k <= f THEN Digest(inputs[k]) ELSE Untouched]
  BY <1>1, <1>2
<1> HIDE DEF f, size
<1>5. \A k \in 1 .. size : k \in f + 1 .. f + n \/ k <= f <=> k <= f + n
  BY <1>3, SMT
<1>6. outputs' = [k \in 1 .. size |->
        IF k <= f + n THEN Digest(inputs[k]) ELSE Untouched]
  BY <1>4, <1>5
<1>7. Len(outputs') = size
  BY <1>3, <1>6
<1> QED BY <1>3, <1>6, <1>7 DEF Slots, size, Digest

(* A step that finishes nothing and writes nothing. *)
LEMMA SameSlots ==
  ASSUME Inv, outputs' = outputs, inputs' = inputs, Finished' = Finished
  PROVE  Slots'
BY DEF Inv, Slots, Digest

LEMMA EnterInv == Inv /\ Enter => Inv'
<1> SUFFICES ASSUME Inv, Enter PROVE Inv'
  OBVIOUS
<1>1. /\ phase = "enter" /\ outputs' = outputs /\ inputs' = inputs /\ call' = call
      /\ platform' = platform /\ i' = i /\ run' = run /\ done' = done
      /\ Len(inputs) \in Nat /\ Len(outputs) \in Nat
  BY DEF Enter, Inv, Fixed, Slots
<1>2. \/ phase' = "panicked" /\ Len(outputs) < Len(inputs)
      \/ phase' = "scan" /\ Len(outputs) >= Len(inputs) /\ platform \in Wide
      \/ phase' = "scalar" /\ Len(outputs) >= Len(inputs)
         /\ platform \in {"none", "pair"}
  <2>1. platform \in {"none", "pair", "avx2", "avx512", "neon"}
    BY DEF Inv, Fixed
  <2>2. (Lanes > 1 /\ Lanes # 1) \/ (Lanes = 1 /\ ~(Lanes > 1))
    <3>1. Lanes \in {1, 8, 16}
      BY <2>1, PlatformFacts DEF Wide
    <3> QED BY <3>1, SMT
  <2>3. Len(outputs) < Len(inputs) <=> ~(Len(outputs) >= Len(inputs))
    BY <1>1, SMT
  <2> QED BY <2>1, <2>2, <2>3, PlatformFacts DEF Enter
<1>3. Finished' = Finished
  BY <1>1, <1>2 DEF Finished
<1>4. Places'
  BY <1>1, <1>2 DEF Inv, Places, Fixed
<1> QED BY <1>1, <1>3, <1>4, FixedFacts, SameSlots DEF Inv

LEMMA ScanInv == Inv /\ Scan => Inv'
<1> SUFFICES ASSUME Inv, Scan PROVE Inv'
  OBVIOUS
<1>1. /\ phase = "scan" /\ phase' = "batch" /\ outputs' = outputs /\ inputs' = inputs
      /\ platform' = platform /\ i' = i /\ done' = 0 /\ call' = call
      /\ i < Len(inputs) /\ i \in 0 .. Len(inputs) /\ Len(inputs) \in Nat
  BY DEF Scan, Inv, Places, Fixed
<1>2. PICK r \in 1 .. Len(inputs) - i :
        /\ \A k \in i + 1 .. i + r : Length(inputs[k]) = Length(inputs[i + 1])
        /\ run' = r
  BY DEF Scan
<1>3. r \in Nat /\ i + r <= Len(inputs) /\ 0 \in 0 .. r /\ i + 0 = i
  BY <1>1, <1>2, SMT
<1>4. Finished' = Finished
  BY <1>1, <1>3 DEF Finished
<1>5. Places'
  BY <1>1, <1>2, <1>3 DEF Inv, Places, Length
<1> QED BY <1>1, <1>4, <1>5, FixedFacts, SameSlots DEF Inv

(* In a run, a batch lies inside the run. *)
LEMMA BatchFacts ==
  ASSUME Inv, phase = "batch", done < run
  PROVE  /\ NextBatch \in 0 .. run - done
         /\ NextBatch > 0 => /\ NextBatch \in 4 .. 4 * Lanes
                             /\ Length(inputs[i + 1]) >= 32
         /\ platform \in Wide /\ i \in Nat /\ run \in Nat /\ done \in Nat
         /\ i + run <= Len(inputs) /\ Len(inputs) <= Len(outputs)
         /\ Len(inputs) \in Nat /\ Len(outputs) \in Nat
         /\ \A k \in i + 1 .. i + run : Length(inputs[k]) = Length(inputs[i + 1])
<1>1. /\ platform \in Wide /\ i \in 0 .. Len(inputs) /\ run \in Nat /\ done \in 0 .. run
      /\ i < Len(inputs) /\ i + run <= Len(inputs) /\ Len(inputs) <= Len(outputs)
      /\ Len(inputs) \in Nat /\ Len(outputs) \in Nat
      /\ \A k \in i + 1 .. i + run : Length(inputs[k]) = Length(inputs[i + 1])
  BY DEF Inv, Places, Fixed, Slots
<1>2. run - done \in Nat /\ i + 1 \in 1 .. Len(inputs) /\ done \in Nat /\ i \in Nat
  BY <1>1, SMT
<1>3. Length(inputs[i + 1]) \in Nat
  BY <1>2 DEF Inv, Fixed
<1>4. Lanes \in {8, 16}
  BY <1>1 DEF Lanes, Wide
<1> QED BY <1>1, <1>2, <1>3, <1>4, PickBatchFacts DEF NextBatch

LEMMA HashOneInv == Inv /\ HashOne => Inv' /\ Len(outputs') = Len(outputs)
<1> SUFFICES ASSUME Inv, HashOne PROVE Inv' /\ Len(outputs') = Len(outputs)
  OBVIOUS
<1>1. /\ phase = "batch" /\ phase' = "batch" /\ inputs' = inputs /\ call' = call
      /\ platform' = platform /\ i' = i /\ run' = run /\ done' = done + 1
      /\ done < run /\ Fill(i + done, 1)
  BY DEF HashOne
<1>2. /\ i \in Nat /\ run \in Nat /\ done \in Nat /\ i + run <= Len(inputs)
      /\ Len(inputs) <= Len(outputs) /\ Len(inputs) \in Nat /\ Len(outputs) \in Nat
  BY <1>1, BatchFacts
<1>3. /\ Finished = i + done /\ Finished' = Finished + 1 /\ Finished \in Nat
      /\ Finished + 1 <= Len(outputs) /\ done + 1 \in 0 .. run
  BY <1>1, <1>2, SMT DEF Finished
<1>4. Slots' /\ Len(outputs') = Len(outputs)
  BY <1>1, <1>3, FillFacts
<1>5. Places'
  BY <1>1, <1>3, <1>4 DEF Inv, Places, Length
<1> QED BY <1>1, <1>4, <1>5, FixedFacts DEF Inv

LEMMA HashEqualInv == Inv /\ HashEqual => Inv' /\ Len(outputs') = Len(outputs)
<1> SUFFICES ASSUME Inv, HashEqual PROVE Inv' /\ Len(outputs') = Len(outputs)
  OBVIOUS
<1> DEFINE n == NextBatch
<1>1. /\ phase = "batch" /\ phase' = "batch" /\ inputs' = inputs
      /\ platform' = platform /\ i' = i /\ run' = run /\ done' = done + n
      /\ done < run /\ n > 0 /\ Fill(i + done, n)
      /\ call' = [kernel |-> KernelFor(n), lo |-> i + done, n |-> n]
  BY DEF HashEqual
<1>2. /\ n \in 0 .. run - done /\ n \in 4 .. 4 * Lanes /\ Length(inputs[i + 1]) >= 32
      /\ platform \in Wide /\ i \in Nat /\ run \in Nat /\ done \in Nat
      /\ i + run <= Len(inputs)
      /\ Len(inputs) <= Len(outputs) /\ Len(inputs) \in Nat /\ Len(outputs) \in Nat
      /\ \A k \in i + 1 .. i + run : Length(inputs[k]) = Length(inputs[i + 1])
  BY <1>1, BatchFacts
<1> HIDE DEF n
<1>3. /\ Finished = i + done /\ Finished' = Finished + n /\ Finished \in Nat
      /\ Finished + n <= Len(outputs) /\ done + n \in 0 .. run /\ n \in Nat
      /\ i + done + n <= Len(inputs)
  BY <1>1, <1>2, SMT DEF Finished
<1>4. Slots' /\ Len(outputs') = Len(outputs)
  BY <1>1, <1>3, FillFacts
<1>5. Places'
  BY <1>1, <1>3, <1>4 DEF Inv, Places, Length
<1>6. call'.n \in Nat /\ call'.lo \in Nat /\ KernelContract'
  <2>1. /\ KernelFor(n) \in KernelsOf
        /\ Ceil(n, LanesIn(KernelFor(n))) <= MaxGroups
    BY <1>2, KernelForFacts
  <2>2. call'.n = n /\ call'.lo = i + done /\ call'.kernel = KernelFor(n)
    BY <1>1
  <2>3. /\ i + done + 1 \in i + 1 .. i + run
        /\ \A k \in i + done + 1 .. i + done + n : k \in i + 1 .. i + run
    BY <1>2, <1>3, SMT
  <2>4. \A k \in i + done + 1 .. i + done + n :
          /\ Length(inputs[k]) = Length(inputs[i + done + 1])
          /\ Length(inputs[k]) >= 32
    BY <1>2, <2>3
  <2>5. KernelsOf' = KernelsOf
    BY <1>1 DEF KernelsOf
  <2> QED
    BY <1>1, <1>3, <2>1, <2>2, <2>4, <2>5 DEF KernelContract, Length, Ceil
<1> QED BY <1>1, <1>4, <1>5, <1>6, FixedFacts DEF Inv

LEMMA RunDoneInv == Inv /\ RunDone => Inv'
<1> SUFFICES ASSUME Inv, RunDone PROVE Inv'
  OBVIOUS
<1>1. /\ phase = "batch" /\ phase' = "scan" /\ inputs' = inputs /\ outputs' = outputs
      /\ platform' = platform /\ i' = i + run /\ run' = run /\ done' = done
      /\ done = run /\ call' = call
  BY DEF RunDone
<1>2. Finished' = Finished
  BY <1>1 DEF Finished
<1>3. i + run \in 0 .. Len(inputs)
  <2>1. /\ i \in 0 .. Len(inputs) /\ run \in Nat /\ i + run <= Len(inputs)
        /\ Len(inputs) \in Nat
    BY <1>1 DEF Inv, Places, Fixed
  <2> QED BY <2>1, SMT
<1>4. Places'
  BY <1>1, <1>3 DEF Inv, Places
<1> QED BY <1>1, <1>2, <1>4, FixedFacts, SameSlots DEF Inv

(* Where the scalar loop is. *)
LEMMA ScalarFacts ==
  ASSUME Inv, phase = "scalar"
  PROVE  /\ i \in Nat /\ Len(inputs) \in Nat /\ Len(outputs) \in Nat
         /\ i <= Len(inputs) /\ Len(inputs) <= Len(outputs) /\ Finished = i
BY SMT DEF Inv, Places, Fixed, Slots, Finished

LEMMA HashPairInv == Inv /\ HashPair => Inv' /\ Len(outputs') = Len(outputs)
<1> SUFFICES ASSUME Inv, HashPair PROVE Inv' /\ Len(outputs') = Len(outputs)
  OBVIOUS
<1>1. /\ phase = "scalar" /\ phase' = "scalar" /\ inputs' = inputs
      /\ platform' = platform /\ i' = i + 2 /\ run' = run /\ done' = done
      /\ Fill(i, 2) /\ call' = [kernel |-> "pair", lo |-> i, n |-> 2]
      /\ platform = "pair" /\ i + 1 < Len(inputs)
      /\ Length(inputs[i + 1]) = Length(inputs[i + 2])
      /\ Length(inputs[i + 1]) >= 64
  BY DEF HashPair, Pairable
<1>2. /\ i \in Nat /\ Len(inputs) \in Nat /\ Len(outputs) \in Nat
      /\ Len(inputs) <= Len(outputs) /\ Finished = i /\ Finished' = i + 2
  BY <1>1, ScalarFacts DEF Finished
<1>3. i + 2 <= Len(inputs) /\ i + 2 <= Len(outputs) /\ i + 2 \in 0 .. Len(inputs)
  BY <1>1, <1>2, SMT
<1>4. Slots' /\ Len(outputs') = Len(outputs)
  BY <1>1, <1>2, <1>3, FillFacts
<1>5. Places'
  BY <1>1, <1>3, <1>4 DEF Inv, Places
<1>6. call'.n \in Nat /\ call'.lo \in Nat /\ KernelContract'
  <2>1. call'.n = 2 /\ call'.lo = i /\ call'.kernel = "pair"
    BY <1>1
  <2>2. Ceil(2, LanesIn("pair")) <= MaxGroups
    <3>1. (2 + 2 - 1) \div 2 <= 4
      BY SMT
    <3> QED BY <3>1, LanesInFacts DEF Ceil, MaxGroups
  <2>3. "pair" \in KernelsOf'
    BY <1>1 DEF KernelsOf
  <2>4. \A k \in i + 1 .. i + 2 : k = i + 1 \/ k = i + 2
    BY <1>2, SMT
  <2>5. /\ i + 1 \in 1 .. Len(inputs)
        /\ Length(inputs[i + 1]) \in Nat
    BY <1>2, <1>3, SMT DEF Inv, Fixed
  <2>6. \A k \in i + 1 .. i + 2 :
          /\ Length(inputs[k]) = Length(inputs[i + 1])
          /\ Length(inputs[k]) >= 32
    BY <1>1, <2>4, <2>5, SMT
  <2> QED BY <1>1, <1>2, <1>3, <2>1, <2>2, <2>3, <2>6 DEF KernelContract, Length, Ceil
<1> QED BY <1>1, <1>4, <1>5, <1>6, FixedFacts DEF Inv

LEMMA HashScalarInv == Inv /\ HashScalar => Inv' /\ Len(outputs') = Len(outputs)
<1> SUFFICES ASSUME Inv, HashScalar PROVE Inv' /\ Len(outputs') = Len(outputs)
  OBVIOUS
<1>1. /\ phase = "scalar" /\ phase' = "scalar" /\ inputs' = inputs /\ call' = call
      /\ platform' = platform /\ i' = i + 1 /\ run' = run /\ done' = done
      /\ Fill(i, 1) /\ i < Len(inputs)
  BY DEF HashScalar
<1>2. /\ i \in Nat /\ Len(inputs) \in Nat /\ Len(outputs) \in Nat
      /\ Len(inputs) <= Len(outputs) /\ Finished = i /\ Finished' = i + 1
  BY <1>1, ScalarFacts DEF Finished
<1>3. i + 1 <= Len(outputs) /\ i + 1 \in 0 .. Len(inputs)
  BY <1>1, <1>2, SMT
<1>4. Slots' /\ Len(outputs') = Len(outputs)
  BY <1>1, <1>2, <1>3, FillFacts
<1>5. Places'
  BY <1>1, <1>3, <1>4 DEF Inv, Places
<1> QED BY <1>1, <1>4, <1>5, FixedFacts DEF Inv

LEMMA ReturnInv == Inv /\ Return => Inv'
<1> SUFFICES ASSUME Inv, Return PROVE Inv'
  OBVIOUS
<1>1. /\ phase \in {"scan", "scalar"} /\ phase' = "done" /\ UNCHANGED <<inputs, outputs>>
      /\ platform' = platform /\ i' = i /\ run' = run /\ done' = done
      /\ i = Len(inputs) /\ call' = call
  BY DEF Return
<1>2. Finished' = Finished
  BY <1>1 DEF Finished
<1>3. Places'
  BY <1>1 DEF Inv, Places
<1> QED BY <1>1, <1>2, <1>3, FixedFacts, SameSlots DEF Inv

LEMMA NextInv == Inv /\ [Next]_vars => Inv'
<1> SUFFICES ASSUME Inv, [Next]_vars PROVE Inv'
  OBVIOUS
<1>1. CASE UNCHANGED vars
  <2>1. /\ UNCHANGED <<platform, inputs, outputs, phase, i, run, done, call>>
        /\ Finished' = Finished
    BY <1>1 DEF vars, Finished
  <2>2. Places'
    BY <2>1 DEF Inv, Places, Length, Wide
  <2> QED BY <2>1, <2>2, FixedFacts, SameSlots DEF Inv
<1> QED
  BY <1>1, EnterInv, ScanInv, HashOneInv, HashEqualInv, RunDoneInv, HashPairInv,
     HashScalarInv, ReturnInv DEF Next

LEMMA SpecInv == Spec => []Inv
BY InitInv, NextInv, PTL DEF Spec

LEMMA InvType == Inv => TypeOK
<1> SUFFICES ASSUME Inv PROVE TypeOK
  OBVIOUS
<1>1. /\ Len(inputs) \in Nat /\ Len(outputs) \in Nat /\ i \in 0 .. Len(inputs)
      /\ run \in Nat /\ done \in 0 .. run /\ platform \in Platforms
      /\ phase \in {"enter", "scan", "batch", "scalar", "done", "panicked"}
      /\ phase = "batch" => i + run <= Len(inputs)
      /\ outputs = [k \in 1 .. Len(outputs) |->
                      IF k <= Finished THEN Digest(inputs[k]) ELSE Untouched]
  BY DEF Inv, Fixed, Places, Slots
<1>2. Finished <= Len(inputs) /\ Finished \in Nat
  <2>1. CASE phase = "batch"
    BY <1>1, <2>1, SMT DEF Finished
  <2>2. CASE phase # "batch"
    BY <1>1, <2>2, SMT DEF Finished
  <2> QED BY <2>1, <2>2
<1>3. ASSUME NEW k \in 1 .. Len(outputs)
      PROVE  outputs[k] \in {Untouched} \cup {Digest(m) : m \in
               {inputs[j] : j \in 1 .. Len(inputs)}}
  <2>1. k <= Finished => k \in 1 .. Len(inputs)
    BY <1>1, <1>2, SMT
  <2>2. outputs[k] = IF k <= Finished THEN Digest(inputs[k]) ELSE Untouched
    BY <1>1
  <2> QED BY <2>1, <2>2
<1> QED BY <1>1, <1>3 DEF TypeOK

(* The indices of the scheduler stay inside the inputs on every batch.     *)
THEOREM DispatchTypeCorrect == Spec => []TypeOK
BY SpecInv, InvType, PTL

(* Every fused call gets messages of one length, enough of them to pay, no *)
(* more than its states hold, on a processor that has the kernel.          *)
THEOREM AlwaysKernelContract == Spec => []KernelContract
BY SpecInv, PTL DEF Inv

(***************************************************************************)
(* The interface to module Wide.  There a message is its bytes.            *)
(***************************************************************************)
(* What a text is for the inputs of the call. *)
IsText(texts, Byte) ==
  /\ texts \in Seq(Seq(Byte)) /\ Len(texts) = Len(inputs)
  /\ \A k \in 1 .. Len(inputs) : Len(texts[k]) = Length(inputs[k])

(* The slice that the last fused call is given. *)
CallOf(texts) == SubSeq(texts, call.lo + 1, call.lo + call.n)

LEMMA ContractIsMayCall ==
  ASSUME Inv, call.n > 0, call.kernel # "pair", NEW Byte, NEW texts, IsText(texts, Byte)
  PROVE  CallOf(texts) \in Seq(Seq(Byte)) /\ MayCall(call.kernel, CallOf(texts))
<1> DEFINE n == call.n
           lo == call.lo
           b == CallOf(texts)
<1>1. /\ n \in Nat \ {0} /\ lo \in Nat /\ lo + n <= Len(inputs) /\ Len(inputs) \in Nat
      /\ call.kernel \in KernelsOf
      /\ Ceil(n, LanesIn(call.kernel)) <= MaxGroups
      /\ \A k \in lo + 1 .. lo + n : Length(inputs[k]) = Length(inputs[lo + 1])
  BY DEF Inv, KernelContract, Fixed
<1>2. texts \in Seq(Seq(Byte)) /\ Len(texts) = Len(inputs)
      /\ \A k \in 1 .. Len(inputs) : Len(texts[k]) = Length(inputs[k])
  BY DEF IsText
<1>3. call.kernel \in Kernels /\ LanesIn(call.kernel) = LanesOf(call.kernel)
  BY <1>1 DEF KernelsOf, Kernels, LanesIn, Inv, Fixed
<1>4. b = SubSeq(texts, lo + 1, lo + n)
  BY DEF CallOf
<1> HIDE DEF n, lo, b
<1>5. /\ lo + 1 \in Nat /\ lo + n \in Nat /\ lo + n <= Len(texts)
      /\ lo + 1 >= 1 /\ lo + 1 <= lo + n + 1 /\ lo + n - (lo + 1) + 1 = n
  BY <1>1, <1>2, SMT
<1>6. /\ b \in Seq(Seq(Byte)) /\ Len(b) = n
      /\ \A k \in 1 .. n : b[k] = texts[lo + k]
  BY <1>1, <1>2, <1>4, <1>5, SMT
<1>7. ASSUME NEW k \in 1 .. n PROVE Len(b[k]) = Length(inputs[lo + 1])
  <2>1. lo + k \in lo + 1 .. lo + n /\ lo + k \in 1 .. Len(inputs)
    BY <1>1, SMT
  <2> QED BY <1>1, <1>2, <1>6, <2>1
<1>8. 1 \in 1 .. n /\ n >= 1
  BY <1>1
<1>9. /\ Len(b) >= 1 /\ \A k \in 1 .. Len(b) : Len(b[k]) = Len(b[1])
      /\ Ceil(Len(b), LanesOf(call.kernel)) <= MaxGroups
  BY <1>1, <1>3, <1>6, <1>7, <1>8
<1>10. b \in Seq(Seq(Byte)) /\ MayCall(call.kernel, b)
  BY <1>3, <1>6, <1>9 DEF MayCall
<1> QED BY <1>10 DEF b

(* Whatever bytes the messages hold, a fused call on vectors is one that   *)
(* module Wide has among its initial states (hash_equal_wide's assertions, *)
(* src/simd/wide.rs:317-323).                                              *)
THEOREM FusedCallsMayBeMade ==
  ASSUME NEW Byte
  PROVE  Spec => [](call.n > 0 /\ call.kernel # "pair" =>
                      \A texts : IsText(texts, Byte) =>
                        /\ CallOf(texts) \in Seq(Seq(Byte))
                        /\ MayCall(call.kernel, CallOf(texts)))
<1>1. Inv => (call.n > 0 /\ call.kernel # "pair" =>
                \A texts : IsText(texts, Byte) =>
                  /\ CallOf(texts) \in Seq(Seq(Byte))
                  /\ MayCall(call.kernel, CallOf(texts)))
  BY ContractIsMayCall
<1> QED BY <1>1, SpecInv, PTL

(***************************************************************************)
(* Refinement.                                                             *)
(***************************************************************************)
AbsPhase == IF phase \in {"done", "panicked"} THEN phase ELSE "running"
Want == [k \in 1 .. Len(inputs) |-> Digest(inputs[k])]

LEMMA WantFacts ==
  ASSUME Inv
  PROVE  Len(Want) = Len(inputs) /\ \A k \in 1 .. Len(inputs) : Want[k] = Digest(inputs[k])
BY DEF Inv, Fixed, Want

LEMMA AbsInit == Init => Batch!Init
<1> SUFFICES ASSUME Init PROVE Batch!Init
  OBVIOUS
<1>1. /\ Inv /\ phase = "enter" /\ i = 0
  BY InitInv DEF Init
<1>2. ASSUME NEW k \in 1 .. Len(outputs) PROVE outputs[k] = Untouched
  <2>1. ~(k <= Finished)
    BY <1>1, SMT DEF Finished, Inv, Slots
  <2> QED BY <1>1, <2>1 DEF Inv, Slots
<1> QED BY <1>1, <1>2 DEF Batch!Init

(* A step that finishes n inputs works on slots that nobody has touched.   *)
LEMMA WorkFacts ==
  ASSUME Inv, NEW n \in Nat, Fill(Finished, n), Finished \in Nat,
         inputs' = inputs, AbsPhase = "running", AbsPhase' = "running",
         Len(inputs) <= Len(outputs), Finished + n <= Len(inputs)
  PROVE  Batch!Work
<1>1. /\ Len(outputs) \in Nat /\ Len(inputs) \in Nat
      /\ outputs = [k \in 1 .. Len(outputs) |->
                      IF k <= Finished THEN Digest(inputs[k]) ELSE Untouched]
  BY DEF Inv, Slots, Fixed
<1>2. outputs' = [k \in 1 .. Len(outputs) |->
        IF k \in Finished + 1 .. Finished + n THEN Digest(inputs[k]) ELSE outputs[k]]
  BY DEF Fill
<1>3. Len(outputs') = Len(outputs)
  BY <1>1, <1>2
<1>4. ASSUME NEW k \in 1 .. Len(outputs)
      PROVE  \/ outputs'[k] = outputs[k]
             \/ outputs[k] = Untouched /\ k <= Len(Want) /\ outputs'[k] = Want[k]
  <2>1. CASE k \in Finished + 1 .. Finished + n
    <3>1. ~(k <= Finished) /\ k <= Len(inputs) /\ k \in 1 .. Len(inputs)
      BY <1>1, <2>1, SMT
    <3>2. outputs'[k] = Digest(inputs[k]) /\ outputs[k] = Untouched
      BY <1>1, <1>2, <2>1, <3>1
    <3> QED BY <3>1, <3>2, WantFacts
  <2>2. CASE k \notin Finished + 1 .. Finished + n
    BY <1>2, <2>2
  <2> QED BY <2>1, <2>2
<1>5. Want' = Want /\ Len(Want) <= Len(outputs)
  BY WantFacts DEF Want, Digest
<1>6. \A k \in 1 .. Len(outputs) : Batch!Progress(k)
  BY <1>4 DEF Batch!Progress, Want
<1> QED
  BY <1>3, <1>5, <1>6 DEF Batch!Work, AbsPhase, Want

(* A step that writes nothing and ends nothing is a stutter. *)
LEMMA StutterFacts ==
  ASSUME outputs' = outputs, inputs' = inputs, AbsPhase' = AbsPhase
  PROVE  UNCHANGED Batch!vars
BY DEF Batch!vars, AbsPhase, Digest

LEMMA AbsNext == Inv /\ [Next]_vars => [Batch!Next]_Batch!vars
<1> SUFFICES ASSUME Inv, [Next]_vars PROVE [Batch!Next]_Batch!vars
  OBVIOUS
<1>1. CASE UNCHANGED vars
  BY <1>1, StutterFacts DEF vars, AbsPhase
<1>2. CASE Enter
  <2>1. /\ phase = "enter" /\ inputs' = inputs /\ outputs' = outputs
        /\ Len(inputs) \in Nat /\ Len(outputs) \in Nat
    BY <1>2 DEF Enter, Inv, Fixed, Slots
  <2>2. CASE phase' = "panicked"
    <3>1. Len(outputs') < Len(inputs')
      BY <1>2, <2>2, EnterInv DEF Inv, Places
    <3>2. Len(Want) > Len(outputs) /\ Want' = Want
      BY <2>1, <3>1, WantFacts, SMT DEF Want, Digest
    <3> QED BY <2>1, <2>2, <3>2 DEF Batch!Next, Batch!Panic, Want
  <2>3. CASE phase' # "panicked"
    <3>1. phase' # "done"
      BY <1>2, <2>1 DEF Enter, Lanes, Inv, Fixed
    <3> QED BY <2>1, <2>3, <3>1, StutterFacts DEF AbsPhase
  <2> QED BY <2>2, <2>3
<1>3. CASE Scan
  BY <1>3, StutterFacts DEF Scan, AbsPhase
<1>4. CASE HashOne
  <2>1. /\ phase = "batch" /\ phase' = "batch" /\ inputs' = inputs
        /\ done < run /\ Fill(i + done, 1)
    BY <1>4 DEF HashOne
  <2>2. /\ Finished = i + done /\ Finished \in Nat /\ Finished + 1 <= Len(inputs)
        /\ Len(inputs) <= Len(outputs)
    BY <2>1, BatchFacts, SMT DEF Finished
  <2>3. AbsPhase = "running" /\ AbsPhase' = "running"
    BY <2>1 DEF AbsPhase
  <2> QED BY <2>1, <2>2, <2>3, WorkFacts DEF Batch!Next
<1>5. CASE HashEqual
  <2> DEFINE n == NextBatch
  <2>1. /\ phase = "batch" /\ phase' = "batch" /\ inputs' = inputs
        /\ done < run /\ Fill(i + done, n) /\ n \in 0 .. run - done
    BY <1>5, BatchFacts DEF HashEqual
  <2> HIDE DEF n
  <2>2. /\ Finished = i + done /\ Finished \in Nat /\ Finished + n <= Len(inputs)
        /\ Len(inputs) <= Len(outputs) /\ n \in Nat
    BY <2>1, BatchFacts, SMT DEF Finished
  <2>3. AbsPhase = "running" /\ AbsPhase' = "running"
    BY <2>1 DEF AbsPhase
  <2> QED BY <2>1, <2>2, <2>3, WorkFacts DEF Batch!Next
<1>6. CASE RunDone
  BY <1>6, StutterFacts DEF RunDone, AbsPhase
<1>7. CASE HashPair
  <2>1. /\ phase = "scalar" /\ phase' = "scalar" /\ inputs' = inputs
        /\ i + 1 < Len(inputs) /\ Fill(i, 2)
    BY <1>7 DEF HashPair, Pairable
  <2>2. /\ Finished = i /\ Finished \in Nat /\ Finished + 2 <= Len(inputs)
        /\ Len(inputs) <= Len(outputs)
    BY <2>1, ScalarFacts, SMT
  <2>3. AbsPhase = "running" /\ AbsPhase' = "running"
    BY <2>1 DEF AbsPhase
  <2> QED BY <2>1, <2>2, <2>3, WorkFacts DEF Batch!Next
<1>8. CASE HashScalar
  <2>1. /\ phase = "scalar" /\ phase' = "scalar" /\ inputs' = inputs
        /\ i < Len(inputs) /\ Fill(i, 1)
    BY <1>8 DEF HashScalar
  <2>2. /\ Finished = i /\ Finished \in Nat /\ Finished + 1 <= Len(inputs)
        /\ Len(inputs) <= Len(outputs)
    BY <2>1, ScalarFacts, SMT
  <2>3. AbsPhase = "running" /\ AbsPhase' = "running"
    BY <2>1 DEF AbsPhase
  <2> QED BY <2>1, <2>2, <2>3, WorkFacts DEF Batch!Next
<1>9. CASE Return
  <2>1. /\ phase \in {"scan", "scalar"} /\ phase' = "done" /\ UNCHANGED <<inputs, outputs>>
        /\ i = Len(inputs) /\ Finished = i /\ Len(inputs) <= Len(outputs)
        /\ Len(inputs) \in Nat /\ Len(outputs) \in Nat
    BY <1>9 DEF Return, Finished, Inv, Places, Fixed, Slots
  <2>2. ASSUME NEW k \in 1 .. Len(Want) PROVE outputs'[k] = Want[k]
    <3>1. k \in 1 .. Len(inputs) /\ k \in 1 .. Len(outputs) /\ k <= Finished
      BY <2>1, WantFacts, SMT
    <3>2. outputs[k] = Digest(inputs[k])
      BY <3>1 DEF Inv, Slots
    <3> QED BY <2>1, <3>1, <3>2, WantFacts
  <2>3. Want' = Want /\ Len(Want) <= Len(outputs)
    BY <2>1, WantFacts DEF Want, Digest
  <2>4. \A k \in 1 .. Len(outputs) : Batch!Progress(k)
    BY <2>1 DEF Batch!Progress
  <2> QED
    BY <2>1, <2>2, <2>3, <2>4 DEF Batch!Next, Batch!Work, Want
<1> QED BY <1>1, <1>2, <1>3, <1>4, <1>5, <1>6, <1>7, <1>8, <1>9 DEF Next

(* The scheduler implements the batch contract.                            *)
THEOREM DispatchRefinement == Spec => ImplementsBatchHash
BY AbsInit, AbsNext, SpecInv, PTL DEF Spec, Batch!Spec, ImplementsBatchHash

(***************************************************************************)
(* Termination.  Every step lowers a natural number, so that no call takes *)
(* more than 3 * Len(inputs) + 2 steps; and a call that has not ended has  *)
(* a step to take.                                                         *)
(***************************************************************************)
StepsLeft ==
  CASE phase = "enter"               -> 3 * Len(inputs) + 2
    [] phase \in {"scan", "scalar"}  -> 3 * (Len(inputs) - i) + 1
    [] phase = "batch"               -> 3 * (Len(inputs) - i - run) + 2 + (run - done)
    [] phase \in {"done", "panicked"} -> 0

Shrinks == StepsLeft \in Nat /\ StepsLeft' \in Nat /\ StepsLeft' < StepsLeft

LEMMA PhaseFacts ==
  /\ phase = "enter" => StepsLeft = 3 * Len(inputs) + 2
  /\ phase \in {"scan", "scalar"} => StepsLeft = 3 * (Len(inputs) - i) + 1
  /\ phase = "batch" => StepsLeft = 3 * (Len(inputs) - i - run) + 2 + (run - done)
  /\ phase \in {"done", "panicked"} => StepsLeft = 0
BY DEF StepsLeft

LEMMA PhaseFactsNext ==
  /\ phase' = "enter" => StepsLeft' = 3 * Len(inputs') + 2
  /\ phase' \in {"scan", "scalar"} => StepsLeft' = 3 * (Len(inputs') - i') + 1
  /\ phase' = "batch" => StepsLeft' = 3 * (Len(inputs') - i' - run') + 2 + (run' - done')
  /\ phase' \in {"done", "panicked"} => StepsLeft' = 0
BY DEF StepsLeft

LEMMA EnterShrinks == Inv /\ Enter => Shrinks
<1> SUFFICES ASSUME Inv, Enter PROVE Shrinks
  OBVIOUS
<1>1. /\ phase = "enter" /\ i' = i /\ inputs' = inputs /\ i = 0 /\ Len(inputs) \in Nat
  BY DEF Enter, Inv, Places, Fixed
<1>2. phase' \in {"panicked", "scan", "scalar"}
  BY <1>1, EnterInv DEF Enter, Inv, Places, Fixed, Lanes
<1>3. StepsLeft = 3 * Len(inputs) + 2
  BY <1>1, PhaseFacts
<1>4. StepsLeft' = 0 \/ StepsLeft' = 3 * (Len(inputs) - 0) + 1
  BY <1>1, <1>2, PhaseFactsNext
<1> QED BY <1>1, <1>3, <1>4, SMT DEF Shrinks

LEMMA ScanShrinks == Inv /\ Scan => Shrinks
<1> SUFFICES ASSUME Inv, Scan PROVE Shrinks
  OBVIOUS
<1>1. /\ phase = "scan" /\ phase' = "batch" /\ inputs' = inputs /\ i' = i /\ done' = 0
      /\ i \in 0 .. Len(inputs) /\ Len(inputs) \in Nat /\ i < Len(inputs)
      /\ run' \in 1 .. Len(inputs) - i
  BY DEF Scan, Inv, Places, Fixed
<1>2. StepsLeft = 3 * (Len(inputs) - i) + 1
  BY <1>1, PhaseFacts
<1>3. StepsLeft' = 3 * (Len(inputs) - i - run') + 2 + (run' - 0)
  BY <1>1, PhaseFactsNext
<1> DEFINE left == Len(inputs) - i
           r == run'
<1>4. left \in Nat /\ r \in 1 .. left
  BY <1>1, SMT
<1>5. StepsLeft = 3 * left + 1 /\ StepsLeft' = 3 * (left - r) + 2 + (r - 0)
  BY <1>2, <1>3
<1> HIDE DEF left, r
<1>6. /\ 3 * left + 1 \in Nat /\ 3 * (left - r) + 2 + (r - 0) \in Nat
      /\ 3 * (left - r) + 2 + (r - 0) < 3 * left + 1
  BY <1>4, SMT
<1> QED BY <1>5, <1>6 DEF Shrinks

(* A step inside a run finishes at least one message of it. *)
LEMMA BatchShrinks ==
  ASSUME Inv, phase = "batch", phase' = "batch", inputs' = inputs, i' = i, run' = run,
         done < run, NEW n \in 1 .. run - done, done' = done + n
  PROVE  Shrinks
<1>1. /\ i \in Nat /\ run \in Nat /\ done \in Nat /\ i + run <= Len(inputs)
      /\ Len(inputs) \in Nat
  BY BatchFacts
<1>2. StepsLeft = 3 * (Len(inputs) - i - run) + 2 + (run - done)
  BY PhaseFacts
<1>3. StepsLeft' = 3 * (Len(inputs) - i - run) + 2 + (run - (done + n))
  BY PhaseFactsNext
<1> DEFINE rest == Len(inputs) - i - run
           left == run - done
<1>4. rest \in Nat /\ left \in Nat /\ n \in 1 .. left /\ run - (done + n) = left - n
  BY <1>1, SMT
<1> HIDE DEF rest, left
<1>5. StepsLeft = 3 * rest + 2 + left /\ StepsLeft' = 3 * rest + 2 + (left - n)
  BY <1>2, <1>3, <1>4 DEF rest, left
<1>6. /\ 3 * rest + 2 + left \in Nat /\ 3 * rest + 2 + (left - n) \in Nat
      /\ 3 * rest + 2 + (left - n) < 3 * rest + 2 + left
  BY <1>4, SMT
<1> QED BY <1>5, <1>6 DEF Shrinks

LEMMA HashOneShrinks == Inv /\ HashOne => Shrinks
<1> SUFFICES ASSUME Inv, HashOne PROVE Shrinks
  OBVIOUS
<1>1. /\ phase = "batch" /\ phase' = "batch" /\ inputs' = inputs /\ i' = i /\ run' = run
      /\ done < run /\ done' = done + 1
  BY DEF HashOne
<1>2. 1 \in 1 .. run - done
  <2>1. run \in Nat /\ done \in Nat
    BY <1>1, BatchFacts
  <2> QED BY <1>1, <2>1, SMT
<1> QED BY <1>1, <1>2, BatchShrinks

LEMMA HashEqualShrinks == Inv /\ HashEqual => Shrinks
<1> SUFFICES ASSUME Inv, HashEqual PROVE Shrinks
  OBVIOUS
<1> DEFINE n == NextBatch
<1>1. /\ phase = "batch" /\ phase' = "batch" /\ inputs' = inputs /\ i' = i /\ run' = run
      /\ done < run /\ done' = done + n /\ n > 0 /\ n \in 0 .. run - done
  BY BatchFacts DEF HashEqual
<1> HIDE DEF n
<1>2. n \in 1 .. run - done
  BY <1>1, SMT
<1> QED BY <1>1, <1>2, BatchShrinks

LEMMA RunDoneShrinks == Inv /\ RunDone => Shrinks
<1> SUFFICES ASSUME Inv, RunDone PROVE Shrinks
  OBVIOUS
<1>1. /\ phase = "batch" /\ phase' = "scan" /\ inputs' = inputs /\ i' = i + run
      /\ done = run /\ i \in 0 .. Len(inputs) /\ run \in Nat /\ Len(inputs) \in Nat
      /\ i + run <= Len(inputs)
  BY DEF RunDone, Inv, Places, Fixed
<1>2. StepsLeft = 3 * (Len(inputs) - i - run) + 2 + (run - run)
  BY <1>1, PhaseFacts
<1>3. StepsLeft' = 3 * (Len(inputs) - (i + run)) + 1
  BY <1>1, PhaseFactsNext
<1> QED BY <1>1, <1>2, <1>3, SMT DEF Shrinks

(* A step of the scalar loops finishes one message or two. *)
LEMMA ScalarShrinks ==
  ASSUME Inv, phase = "scalar", phase' = "scalar", inputs' = inputs,
         NEW n \in 1 .. 2, i' = i + n, i + n <= Len(inputs)
  PROVE  Shrinks
<1>1. i \in Nat /\ Len(inputs) \in Nat
  BY ScalarFacts
<1>2. StepsLeft = 3 * (Len(inputs) - i) + 1 /\ StepsLeft' = 3 * (Len(inputs) - (i + n)) + 1
  BY PhaseFacts, PhaseFactsNext
<1> QED BY <1>1, <1>2, SMT DEF Shrinks

LEMMA ReturnShrinks == Inv /\ Return => Shrinks
<1> SUFFICES ASSUME Inv, Return PROVE Shrinks
  OBVIOUS
<1>1. /\ phase \in {"scan", "scalar"} /\ phase' = "done"
      /\ i = Len(inputs) /\ Len(inputs) \in Nat
  BY DEF Return, Inv, Fixed
<1>2. StepsLeft = 3 * (Len(inputs) - Len(inputs)) + 1 /\ StepsLeft' = 0
  BY <1>1, PhaseFacts, PhaseFactsNext
<1> QED BY <1>1, <1>2, SMT DEF Shrinks

LEMMA NextShrinks == Inv /\ Next => Shrinks
<1> SUFFICES ASSUME Inv, Next PROVE Shrinks
  OBVIOUS
<1>1. CASE HashPair
  <2>1. /\ phase = "scalar" /\ phase' = "scalar" /\ inputs' = inputs /\ i' = i + 2
        /\ i + 1 < Len(inputs)
    BY <1>1 DEF HashPair, Pairable
  <2>2. i + 2 <= Len(inputs) /\ 2 \in 1 .. 2
    BY <2>1, ScalarFacts, SMT
  <2> QED BY <2>1, <2>2, ScalarShrinks
<1>2. CASE HashScalar
  <2>1. /\ phase = "scalar" /\ phase' = "scalar" /\ inputs' = inputs /\ i' = i + 1
        /\ i < Len(inputs)
    BY <1>2 DEF HashScalar
  <2>2. i + 1 <= Len(inputs) /\ 1 \in 1 .. 2
    BY <2>1, ScalarFacts, SMT
  <2> QED BY <2>1, <2>2, ScalarShrinks
<1> QED
  BY <1>1, <1>2, EnterShrinks, ScanShrinks, HashOneShrinks, HashEqualShrinks,
     RunDoneShrinks, ReturnShrinks DEF Next

(* Each step of the scheduler, whatever the mix of lengths, lowers a       *)
(* natural number: neither loop runs forever.                              *)
THEOREM DispatchShrinks == Spec => [][Shrinks]_vars
<1>1. Inv /\ [Next]_vars => [Shrinks]_vars
  BY NextShrinks
<1> QED BY <1>1, SpecInv, PTL DEF Spec

(* The run that Scan measures at input i. *)
IsRun(r) ==
  /\ r \in 1 .. Len(inputs) - i
  /\ \A k \in i + 1 .. i + r : Length(inputs[k]) = Length(inputs[i + 1])
  /\ i + r < Len(inputs) => Length(inputs[i + r + 1]) # Length(inputs[i + 1])

LEMMA RunFound ==
  ASSUME Inv, phase = "scan", i < Len(inputs)
  PROVE  /\ \E r \in Nat : IsRun(r)
         /\ \A r, q \in Nat : IsRun(r) /\ IsRun(q) => r = q
<1> DEFINE left == Len(inputs) - i
           Ends(r) == i + r = Len(inputs) \/ Length(inputs[i + r + 1]) # Length(inputs[i + 1])
           T == {r \in 1 .. left : Ends(r)}
<1>1. i \in Nat /\ Len(inputs) \in Nat /\ left \in Nat /\ left >= 1 /\ i + left = Len(inputs)
  <2>1. i \in 0 .. Len(inputs) /\ Len(inputs) \in Nat
    BY DEF Inv, Places, Fixed
  <2> QED BY <2>1, SMT
<1>2. PICK r \in T : \A q \in T : r <= q
  <2>1. left \in T /\ T \subseteq Nat
    BY <1>1
  <2> HIDE DEF T
  <2> QED BY <2>1, LeastNat
<1> HIDE DEF left, Ends
<1>3. r \in 1 .. left /\ Ends(r) /\ \A q \in 1 .. left : q < r => ~Ends(q)
  <2>1. r \in 1 .. left /\ Ends(r)
    OBVIOUS
  <2>2. ASSUME NEW q \in 1 .. left, q < r PROVE ~Ends(q)
    <3>1. ~(r <= q)
      BY <2>1, <2>2
    <3> QED BY <1>2, <3>1
  <2> QED BY <2>1, <2>2
<1> HIDE DEF T
<1>4. ASSUME NEW k \in i + 1 .. i + r PROVE Length(inputs[k]) = Length(inputs[i + 1])
  <2>1. CASE k = i + 1
    BY <2>1
  <2>2. CASE k # i + 1
    <3>1. PICK q \in 1 .. left : q < r /\ k = i + q + 1
      <4>0. k \in i + 1 .. i + r /\ r \in Nat /\ r <= left
        BY <1>1, <1>3
      <4>1. k - i - 1 \in 1 .. left /\ k - i - 1 < r /\ k = i + (k - i - 1) + 1
        BY <1>1, <2>2, <4>0, SMT
      <4> QED BY <4>1
    <3>2. ~Ends(q)
      BY <1>3, <3>1
    <3> QED BY <3>1, <3>2 DEF Ends
  <2> QED BY <2>1, <2>2
<1>5. IsRun(r)
  <2>1. i + r < Len(inputs) => i + r # Len(inputs)
    <3>1. r \in Nat
      BY <1>1, <1>3
    <3> QED BY <1>1, <3>1, SMT
  <2> QED BY <1>3, <1>4, <2>1 DEF IsRun, Ends, left
<1>6. ASSUME NEW a \in Nat, NEW b \in Nat, IsRun(a), IsRun(b), a < b PROVE FALSE
  <2>0. b <= Len(inputs) - i
    BY <1>1, <1>6 DEF IsRun
  <2>1. i + a < Len(inputs) /\ i + a + 1 \in i + 1 .. i + b
    BY <1>1, <1>6, <2>0, SMT
  <2> QED BY <1>6, <2>1 DEF IsRun
<1>7. \A a, b \in Nat : IsRun(a) /\ IsRun(b) => a = b
  <2>1. \A a, b \in Nat : a < b \/ b < a \/ a = b
    OBVIOUS
  <2> QED BY <1>6, <2>1
<1>8. r \in Nat
  BY <1>1, <1>3
<1> QED BY <1>5, <1>7, <1>8

(* Before the last input the scan finds a run, and only one: the step that *)
(* measures it can always be taken and leaves no choice.                   *)
THEOREM ScanFindsRun ==
  Spec => [](phase = "scan" /\ i < Len(inputs) =>
               /\ \E r \in Nat : IsRun(r)
               /\ \A r, q \in Nat : IsRun(r) /\ IsRun(q) => r = q)
<1>1. Inv => (phase = "scan" /\ i < Len(inputs) =>
                /\ \E r \in Nat : IsRun(r)
                /\ \A r, q \in Nat : IsRun(r) /\ IsRun(q) => r = q)
  BY RunFound
<1> QED BY <1>1, SpecInv, PTL
=============================================================================
