--------------------------- MODULE Md5DigestProofs -------------------------
(***************************************************************************)
(* The digest-crate adapter answers like the native hasher and implements  *)
(* MessageDigest, for every chunking and every size.                       *)
(***************************************************************************)
EXTENDS Md5Digest, RawProofs

Core == [state : Chain, buf : {ZeroBuf}, buf_len : {0}, count : 0 .. CountMod - 1]

(***************************************************************************)
(* One core and its buffer.  Unlike a native Raw, a core does not count    *)
(* the bytes that wait in front of it.                                     *)
(***************************************************************************)
Counted(r) ==
  /\ r \in Core /\ r.state.seed = "iv"
  /\ Len(r.state.data) % BlockSize = 0
  /\ r.count = Len(r.state.data) % CountMod

LEMMA CoreFields ==
  ASSUME NEW r \in Core
  PROVE  /\ r.state \in Chain /\ r.state.data \in Seq(Byte)
         /\ Len(r.state.data) \in Nat /\ r.count \in 0 .. CountMod - 1
BY LenProperties DEF Core, Chain

LEMMA FreshCore == Counted(Fresh) /\ Fresh.state.data = << >>
<1>1. << >> \in Seq(Byte) /\ Len(<< >>) = 0
  BY EmptySeq
<1>2. 0 % BlockSize = 0 /\ 0 % CountMod = 0 /\ 0 \in 0 .. CountMod - 1
  BY SizeAssumption, SMT
<1> QED
  BY <1>1, <1>2 DEF Counted, Core, Fresh, FromParts, IV, Chain

(* The eager buffer passes the complete blocks on, in order, and keeps     *)
(* less than one.                                                          *)
LEMMA BufferFacts ==
  ASSUME NEW buf \in Seq(Byte), NEW data \in Seq(Byte)
  PROVE  /\ Waiting(buf, data) \in Seq(Byte) /\ Len(Waiting(buf, data)) < BlockSize
         /\ Ready(buf, data) \in Seq(Byte)
         /\ Len(Ready(buf, data)) % BlockSize = 0
         /\ Ready(buf, data) \o Waiting(buf, data) = buf \o data
<1> DEFINE all == buf \o data
           full == FullLen(Len(all))
<1>1. all \in Seq(Byte) /\ Len(all) \in Nat
  BY ByteConcat, LenProperties
<1>2. Waiting(buf, data) = Drop(all, full)
  BY DEF Waiting
<1>3. Ready(buf, data) = First(all, Len(all) - Len(Drop(all, full)))
  BY <1>2 DEF Ready
<1> HIDE DEF all
<1>4. /\ full \in 0 .. Len(all) /\ full % BlockSize = 0
      /\ Len(all) - full \in 0 .. BlockSize - 1
  BY <1>1, FullLenFacts
<1> HIDE DEF full
<1>5. /\ Drop(all, full) \in Seq(Byte) /\ Len(Drop(all, full)) = Len(all) - full
      /\ First(all, full) \in Seq(Byte) /\ Len(First(all, full)) = full
      /\ First(all, full) \o Drop(all, full) = all
  BY <1>1, <1>4, FirstDrop
<1>6. Len(all) - Len(Drop(all, full)) = full /\ Len(all) - full < BlockSize
  BY <1>1, <1>4, <1>5, SizeAssumption, SMT
<1> QED BY <1>2, <1>3, <1>4, <1>5, <1>6 DEF all

LEMMA UpdateBlocksFacts ==
  ASSUME NEW r, Counted(r), NEW blocks \in Seq(Byte), Len(blocks) % BlockSize = 0
  PROVE  /\ Counted(UpdateBlocks(r, blocks))
         /\ UpdateBlocks(r, blocks).state.data = r.state.data \o blocks
<1> DEFINE s == UpdateBlocks(r, blocks)
           d == r.state.data
<1>1. /\ r \in Core /\ r.state \in Chain /\ r.state.seed = "iv"
      /\ d \in Seq(Byte) /\ Len(d) \in Nat
      /\ Len(d) % BlockSize = 0 /\ r.count = Len(d) % CountMod
  BY CoreFields DEF Counted
<1>2. /\ d \o blocks \in Seq(Byte) /\ Len(d \o blocks) = Len(d) + Len(blocks)
      /\ Len(blocks) \in Nat
  BY <1>1, ByteConcat, LenProperties
<1>3. Len(d \o blocks) % BlockSize = 0
  <2>1. Len(d) \in Int /\ Len(blocks) \in Int /\ BlockSize \in Nat \ {0}
    BY <1>1, <1>2, SizeAssumption, SMT
  <2>2. (Len(d) + Len(blocks)) % BlockSize = Len(d) % BlockSize
    BY <2>1, AlignedSum
  <2> QED BY <1>1, <1>2, <2>2
<1>4. /\ ((Len(d) % CountMod) + Len(blocks)) % CountMod = Len(d \o blocks) % CountMod
      /\ Len(d \o blocks) % CountMod \in 0 .. CountMod - 1
  <2>1. /\ Len(d) \in Int /\ Len(blocks) \in Int /\ CountMod \in Nat \ {0}
        /\ Len(d) + Len(blocks) \in Int
    BY <1>1, <1>2, SizeAssumption, SMT
  <2> DEFINE a == Len(d)
             b == Len(blocks)
             all == Len(d \o blocks)
  <2>2. a \in Int /\ b \in Int /\ all = a + b /\ all \in Int
    BY <1>2, <2>1
  <2> HIDE DEF a, b, all
  <2>3. ((a % CountMod) + b) % CountMod = all % CountMod
    <3>1. a \in Int /\ b \in Int /\ CountMod \in Nat \ {0}
      BY <2>1, <2>2
    <3>2. ((a % CountMod) + b) % CountMod = (a + b) % CountMod
      BY <3>1, ModSum
    <3> QED BY <3>2, <2>2
  <2>4. all % CountMod \in 0 .. CountMod - 1
    BY <2>1, <2>2, DivMod
  <2> QED BY <2>3, <2>4 DEF a, b, all
<1> HIDE DEF d
<1>5. s.state = [seed |-> "iv", data |-> d \o blocks]
  BY <1>1 DEF UpdateBlocks, CompressBlocks, Core, d
<1>6. s.count = Len(d \o blocks) % CountMod
  BY <1>1, <1>4 DEF UpdateBlocks, CountAdd, Core
<1>7. s \in Core
  <2>1. s = [state |-> s.state, buf |-> r.buf, buf_len |-> r.buf_len, count |-> s.count]
    <3> DEFINE st == CompressBlocks(r.state, blocks)
               n == CountAdd(r.count, Len(blocks))
    <3>1. s = [r EXCEPT !.state = st, !.count = n]
      BY DEF UpdateBlocks
    <3> HIDE DEF s, st, n
    <3> QED BY <1>1, <3>1 DEF Core
  <2>2. s.state \in Chain
    BY <1>2, <1>5 DEF Chain
  <2>3. s.count \in 0 .. CountMod - 1
    BY <1>4, <1>6
  <2> HIDE DEF s
  <2> QED BY <1>1, <2>1, <2>2, <2>3 DEF Core
<1> QED BY <1>3, <1>5, <1>6, <1>7 DEF Counted, d

(* The digest of a core and its tail is the digest of both. *)
LEMMA FinalizeCoreFacts ==
  ASSUME NEW r, Counted(r), NEW tail \in Seq(Byte), Len(tail) < BlockSize
  PROVE  /\ FinalizeCore(r, tail) = RfcDigest(r.state.data \o tail)
         /\ FinalizeCore(r, tail) \in Digests
         /\ CountAdd(r.count, Len(tail)) = Len(r.state.data \o tail) % CountMod
<1> DEFINE d == r.state.data
           total == CountAdd(r.count, Len(tail))
<1>1. /\ r.state \in Chain /\ r.state.seed = "iv" /\ d \in Seq(Byte)
      /\ Len(d) \in Nat /\ Len(tail) \in Nat
      /\ Len(d) % BlockSize = 0 /\ r.count = Len(d) % CountMod
  BY CoreFields, LenProperties DEF Counted
<1>2. total = (Len(d) + Len(tail)) % CountMod /\ total \in Nat
  <2>1. /\ Len(d) \in Int /\ Len(tail) \in Int /\ CountMod \in Nat \ {0}
        /\ Len(d) + Len(tail) \in Int
    BY <1>1, SizeAssumption, SMT
  <2> DEFINE a == Len(d)
             b == Len(tail)
  <2>2. a \in Int /\ b \in Int /\ a + b \in Int
    BY <2>1
  <2>3. total = ((a % CountMod) + b) % CountMod
    BY <1>1 DEF CountAdd
  <2> HIDE DEF a, b, total
  <2>4. ((a % CountMod) + b) % CountMod = (a + b) % CountMod
    BY <2>1, <2>2, ModSum
  <2>5. (a + b) % CountMod \in Nat
    <3>1. (a + b) % CountMod \in 0 .. CountMod - 1
      BY <2>1, <2>2, DivMod
    <3> QED BY <2>1, <3>1, SMT
  <2> QED BY <2>3, <2>4, <2>5 DEF a, b
<1>3. Len(d \o tail) = Len(d) + Len(tail)
  BY <1>1, ByteConcat
<1>4. FinalizeCore(r, tail) = RfcDigest(d \o tail)
  BY <1>1, <1>2, FinalizeWithCorrect DEF FinalizeCore
<1>5. FinalizeCore(r, tail) \in Digests
  <2> DEFINE last == FinalBlocks(total, tail)
  <2>1. last \in Seq(Byte)
    BY <1>2, FinalBlocksFacts
  <2> HIDE DEF last
  <2>2. CompressBlocks(r.state, last) \in Chain
    BY <1>1, <2>1, ByteConcat DEF CompressBlocks, Chain
  <2> QED BY <2>2 DEF FinalizeCore, FinalizeWith, StateToBytes, Digests, last
<1> QED BY <1>2, <1>3, <1>4, <1>5

(***************************************************************************)
(* The inductive invariant: every core, of a live handle or a dead one.    *)
(***************************************************************************)
Inv ==
  /\ TypeOK
  /\ \A h \in Handles : Counted(core[h])
  /\ buffer \in [Handles -> Seq(Byte)]

LEMMA Answers ==
  /\ << >> \in Seq(Digests) /\ Len(<< >>) <= 1
  /\ \A d \in Digests : <<d>> \in Seq(Digests) /\ Len(<<d>>) = 1
BY SMT

LEMMA InvFacts ==
  ASSUME Inv, NEW h \in Handles
  PROVE  /\ Counted(core[h]) /\ core[h].state.data \in Seq(Byte)
         /\ buffer[h] \in Seq(Byte) /\ Len(buffer[h]) < BlockSize
BY CoreFields DEF Inv, TypeOK, Counted

LEMMA NoBytes == << >> \in Seq(Byte) /\ Len(<< >>) < BlockSize
<1>1. << >> \in Seq(Byte) /\ Len(<< >>) = 0
  BY EmptySeq
<1> QED BY <1>1, SizeAssumption, SMT

(* One handle gets a core and a buffer, the others keep theirs. *)
LEMMA PutFacts ==
  ASSUME Inv, NEW h \in Handles, NEW r, Counted(r),
         NEW b \in Seq(Byte), Len(b) < BlockSize,
         core' = [core EXCEPT ![h] = r], buffer' = [buffer EXCEPT ![h] = b],
         live' \subseteq Handles, out' \in Seq(Digests), Len(out') <= 1
  PROVE  Inv'
<1>1. r \in Core /\ core \in [Handles -> Core] /\ buffer \in [Handles -> Seq(Byte)]
  BY DEF Inv, TypeOK, Counted, Core
<1>2. core' \in [Handles -> Core] /\ buffer' \in [Handles -> Seq(Byte)]
  BY <1>1
<1>3. \A g \in Handles :
        /\ core'[g] = IF g = h THEN r ELSE core[g]
        /\ buffer'[g] = IF g = h THEN b ELSE buffer[g]
  BY <1>1
<1>4. \A g \in Handles :
        Counted(core'[g]) /\ buffer'[g] \in Seq(Byte) /\ Len(buffer'[g]) < BlockSize
  BY <1>3, InvFacts
<1> QED BY <1>2, <1>4 DEF Inv, TypeOK, Core, Counted

(* A call that touches neither the core nor the buffer of any handle.      *)
LEMMA KeepFacts ==
  ASSUME Inv, UNCHANGED <<core, buffer>>,
         live' \subseteq Handles, out' \in Seq(Digests), Len(out') <= 1
  PROVE  Inv'
BY DEF Inv, TypeOK, Counted, Core

LEMMA InitInv == Init => Inv
<1> SUFFICES ASSUME Init PROVE Inv
  OBVIOUS
<1>1. Fresh \in Core
  BY FreshCore DEF Counted
<1>2. core \in [Handles -> Core] /\ buffer \in [Handles -> Seq(Byte)]
  BY <1>1, NoBytes DEF Init
<1>3. \A h \in Handles : Counted(core[h]) /\ buffer[h] = << >>
  BY FreshCore DEF Init
<1> QED BY <1>2, <1>3, NoBytes, Answers DEF Init, Inv, TypeOK, Core

(* The digest of a live handle has its type, and is that of its bytes.     *)
LEMMA FinalFacts ==
  ASSUME Inv, NEW h \in Handles
  PROVE  /\ FinalizeCore(core[h], buffer[h]) = RfcDigest(Absorbed(h))
         /\ FinalizeCore(core[h], buffer[h]) \in Digests
         /\ CountAdd(core[h].count, Len(buffer[h])) = Len(Absorbed(h)) % CountMod
         /\ Absorbed(h) \in Seq(Byte)
         /\ <<FinalizeCore(core[h], buffer[h])>> \in Seq(Digests)
         /\ Len(<<FinalizeCore(core[h], buffer[h])>>) = 1
BY InvFacts, FinalizeCoreFacts, Answers, ByteConcat DEF Absorbed

(* An update extends the bytes of its handle. *)
LEMMA UpdateFacts ==
  ASSUME Inv, NEW h \in Handles, NEW c \in Seq(Byte)
  PROVE  LET ready == Ready(buffer[h], c)
             r == IF ready = << >> THEN core[h] ELSE UpdateBlocks(core[h], ready)
         IN  /\ Counted(r)
             /\ r.state.data \o Waiting(buffer[h], c) = Absorbed(h) \o c
<1> DEFINE ready == Ready(buffer[h], c)
           wait == Waiting(buffer[h], c)
           d == core[h].state.data
           r == IF ready = << >> THEN core[h] ELSE UpdateBlocks(core[h], ready)
<1>1. /\ Counted(core[h]) /\ d \in Seq(Byte) /\ buffer[h] \in Seq(Byte)
      /\ wait \in Seq(Byte) /\ ready \in Seq(Byte) /\ Len(ready) % BlockSize = 0
      /\ ready \o wait = buffer[h] \o c
  BY InvFacts, BufferFacts
<1> HIDE DEF ready, wait
<1>2. Counted(r) /\ r.state.data = d \o ready
  <2>1. CASE ready = << >>
    BY <1>1, <2>1, ByteConcat
  <2>2. CASE ready # << >>
    BY <1>1, <2>2, UpdateBlocksFacts
  <2> QED BY <2>1, <2>2
<1> HIDE DEF r, d
<1>3. (d \o ready) \o wait = (d \o buffer[h]) \o c
  <2> DEFINE b == buffer[h]
  <2>1. /\ d \in Seq(Byte) /\ ready \in Seq(Byte) /\ wait \in Seq(Byte)
        /\ b \in Seq(Byte) /\ c \in Seq(Byte)
    BY <1>1
  <2>2. ready \o wait = b \o c
    BY <1>1
  <2> HIDE DEF b
  <2>3. (d \o ready) \o wait = d \o (ready \o wait)
    BY <2>1, ByteAssociative
  <2>4. (d \o b) \o c = d \o (b \o c)
    BY <2>1, ByteAssociative
  <2> QED BY <2>2, <2>3, <2>4 DEF b
<1> QED BY <1>2, <1>3 DEF Absorbed, r, d, ready, wait

LEMMA NextInv == Inv /\ [Next]_vars => Inv'
<1> SUFFICES ASSUME Inv, [Next]_vars PROVE Inv'
  OBVIOUS
<1>1. live \subseteq Handles /\ out \in Seq(Digests) /\ Len(out) <= 1
  BY DEF Inv, TypeOK
<1>2. CASE UNCHANGED vars
  BY <1>1, <1>2, KeepFacts DEF vars
<1>3. ASSUME NEW h \in Handles, New(h) PROVE Inv'
  BY <1>1, <1>3, FreshCore, NoBytes, Answers, PutFacts DEF New
<1>4. ASSUME NEW h \in Handles, Update(h) PROVE Inv'
  <2>1. PICK c \in Chunks :
          /\ core' = [core EXCEPT ![h] =
                        IF Ready(buffer[h], c) = << >> THEN @
                        ELSE UpdateBlocks(@, Ready(buffer[h], c))]
          /\ buffer' = [buffer EXCEPT ![h] = Waiting(@, c)]
    BY <1>4 DEF Update
  <2>2. c \in Seq(Byte) /\ live' = live /\ out' = << >>
    BY <1>4, DigestAssumption DEF Update
  <2> DEFINE ready == Ready(buffer[h], c)
             r == IF ready = << >> THEN core[h] ELSE UpdateBlocks(core[h], ready)
             w == Waiting(buffer[h], c)
  <2>3. Counted(r) /\ w \in Seq(Byte) /\ Len(w) < BlockSize
    BY <2>2, InvFacts, UpdateFacts, BufferFacts
  <2>4. core' = [core EXCEPT ![h] = r] /\ buffer' = [buffer EXCEPT ![h] = w]
    BY <2>1
  <2> HIDE DEF r, w
  <2> QED BY <1>1, <2>2, <2>3, <2>4, Answers, PutFacts
<1>5. ASSUME NEW h \in Handles, Reset(h) PROVE Inv'
  BY <1>1, <1>5, FreshCore, NoBytes, Answers, PutFacts DEF Reset
<1>6. ASSUME NEW h \in Handles, FinalizeReset(h) PROVE Inv'
  <2>1. out' \in Seq(Digests) /\ Len(out') <= 1
    BY <1>6, FinalFacts DEF FinalizeReset
  <2> QED BY <1>1, <1>6, <2>1, FreshCore, NoBytes, PutFacts DEF FinalizeReset
<1>7. ASSUME NEW h \in Handles, Finalize(h) PROVE Inv'
  BY <1>1, <1>7, FinalFacts, KeepFacts DEF Finalize
<1>8. ASSUME NEW h \in Handles, Discard(h) PROVE Inv'
  BY <1>1, <1>8, Answers, KeepFacts DEF Discard
<1>9. ASSUME NEW h \in Handles, NEW g \in Handles, Clone(h, g) PROVE Inv'
  BY <1>1, <1>9, InvFacts, Answers, PutFacts DEF Clone
<1> QED
  BY <1>2, <1>3, <1>4, <1>5, <1>6, <1>7, <1>8, <1>9 DEF Next

LEMMA SpecInv == Spec => []Inv
BY InitInv, NextInv, PTL DEF Spec

(* The core never holds a partial block, the buffer never a whole one.     *)
THEOREM DigestTypeCorrect == Spec => []TypeOK
BY SpecInv, PTL DEF Inv

LEMMA InvSame == Inv => SameAsNative
<1> SUFFICES ASSUME Inv, NEW h \in live
             PROVE  LET native == Absorb(Fresh, Absorbed(h)) IN
                    /\ FinalizeCore(core[h], buffer[h]) = Digest(native)
                    /\ CountAdd(core[h].count, Len(buffer[h])) = native.count
  BY DEF SameAsNative
<1> DEFINE native == Absorb(Fresh, Absorbed(h))
<1>1. h \in Handles
  BY DEF Inv, TypeOK
<1>2. /\ FinalizeCore(core[h], buffer[h]) = RfcDigest(Absorbed(h))
      /\ CountAdd(core[h].count, Len(buffer[h])) = Len(Absorbed(h)) % CountMod
      /\ Absorbed(h) \in Seq(Byte)
  BY <1>1, FinalFacts
<1>3. /\ native \in Raw /\ WellFormed(native) /\ native.state.seed = "iv"
      /\ Message(native) = Absorbed(h)
  <2>1. Absorbed(h) \in Seq(Byte)
    BY <1>2
  <2>2. Fresh \in Raw /\ WellFormed(Fresh) /\ Fresh.state.seed = "iv" /\ Message(Fresh) = << >>
    BY FreshFacts
  <2>3. /\ native \in Raw /\ WellFormed(native) /\ native.state.seed = Fresh.state.seed
        /\ Message(native) = << >> \o Absorbed(h)
    BY <2>1, <2>2, AbsorbFacts
  <2> QED BY <2>1, <2>2, <2>3, ByteConcat
<1> HIDE DEF native
<1>4. Digest(native) = RfcDigest(Absorbed(h))
  BY <1>3, DigestFacts
<1>5. native.count = Len(Absorbed(h)) % CountMod
  BY <1>3 DEF WellFormed
<1> QED BY <1>2, <1>4, <1>5 DEF native

(* The adapter and the native hasher answer alike after every history.     *)
THEOREM AlwaysSameAsNative == Spec => []SameAsNative
BY SpecInv, InvSame, PTL

(***************************************************************************)
(* Refinement.                                                             *)
(***************************************************************************)
AbsMsg == [h \in Handles |-> IF h \in live THEN Absorbed(h) ELSE << >>]

LEMMA AbsInit == Init => Abstract!Init
BY DEF Init, Abstract!Init

(* A call that leaves h with core r and buffer b is the abstract step that *)
(* leaves it with the bytes of both.                                       *)
LEMMA HoldFacts ==
  ASSUME Inv, NEW h \in Handles, NEW r, NEW b, NEW m, r.state.data \o b = m,
         core' = [core EXCEPT ![h] = r], buffer' = [buffer EXCEPT ![h] = b],
         live' = live \cup {h}
  PROVE  Abstract!Hold(h, m, {})
<1>1. core \in [Handles -> Core] /\ buffer \in [Handles -> Seq(Byte)]
  BY DEF Inv, TypeOK, Core
<1>2. AbsMsg' = [g \in Handles |->
                   IF g \in live' THEN core'[g].state.data \o buffer'[g] ELSE << >>]
  BY DEF AbsMsg, Absorbed
<1>3. ASSUME NEW g \in Handles
      PROVE  (IF g \in live' THEN core'[g].state.data \o buffer'[g] ELSE << >>)
               = IF g = h THEN m ELSE IF g \in live THEN Absorbed(g) ELSE << >>
  BY <1>1 DEF Absorbed
<1>4. AbsMsg' = [AbsMsg EXCEPT ![h] = m]
  BY <1>2, <1>3 DEF AbsMsg
<1> QED BY <1>4, Zenon DEF Abstract!Hold, AbsMsg

LEMMA GoneFacts ==
  ASSUME Inv, NEW h \in Handles, live' = live \ {h}, UNCHANGED <<core, buffer>>
  PROVE  Abstract!Gone(h)
<1>1. AbsMsg' = [g \in Handles |->
                   IF g \in live \ {h} THEN Absorbed(g) ELSE << >>]
  BY DEF AbsMsg, Absorbed
<1>2. AbsMsg' = [AbsMsg EXCEPT ![h] = << >>]
  BY <1>1 DEF AbsMsg
<1> QED BY <1>2, Zenon DEF Abstract!Gone, AbsMsg

(* The abstract specification speaks of the same digests. *)
LEMMA SameDigests ==
  /\ Abstract!Digests = Digests
  /\ \A m : Abstract!RfcDigest(m) = RfcDigest(m)
<1>1. Abstract!Digests = Digests
  BY DEF Abstract!Digests, Abstract!Chain, Abstract!Byte, Digests, Chain, Byte
<1>2. \A m : Abstract!RfcPadded(m) = RfcPadded(m)
  BY DEF Abstract!RfcPadded, Abstract!PaddedLen, Abstract!IsPaddedLen,
         Abstract!BitLen, Abstract!Mark, Abstract!LeByte,
         RfcPadded, PaddedLen, IsPaddedLen, BitLen, Mark, LeByte
<1>3. \A m : Abstract!RfcDigest(m) = RfcDigest(m)
  BY <1>2 DEF Abstract!RfcDigest, Abstract!StateToBytes,
              Abstract!CompressBlocks, Abstract!IV,
              RfcDigest, StateToBytes, CompressBlocks, IV
<1> QED BY <1>1, <1>3

LEMMA ReturnsFacts ==
  ASSUME Inv, NEW h \in Handles, h \in live,
         out' = <<FinalizeCore(core[h], buffer[h])>>
  PROVE  Abstract!Returns(h)
<1>1. AbsMsg[h] = Absorbed(h)
  BY DEF AbsMsg
<1>2. out' = <<RfcDigest(AbsMsg[h])>> /\ out' \in Seq(Digests) /\ Len(out') = 1
  BY <1>1, FinalFacts
<1> QED BY <1>2, SameDigests, Zenon DEF Abstract!Returns, AbsMsg

LEMMA AbsNext == Inv /\ [Next]_vars => [Abstract!Next]_Abstract!vars
<1> SUFFICES ASSUME Inv, [Next]_vars PROVE [Abstract!Next]_Abstract!vars
  OBVIOUS
<1>1. CASE UNCHANGED vars
  BY <1>1 DEF vars, Abstract!vars, Absorbed
<1>2. ASSUME NEW h \in Handles, live' = live \cup {h},
             core' = [core EXCEPT ![h] = Fresh], buffer' = [buffer EXCEPT ![h] = << >>]
      PROVE  Abstract!Hold(h, << >>, {})
  <2>1. Fresh.state.data \o << >> = << >>
    BY FreshCore, NoBytes, ByteConcat
  <2> QED BY <1>2, <2>1, HoldFacts
<1>3. ASSUME NEW h \in Handles, New(h) PROVE Abstract!New(h)
  <2>1. h \notin live /\ out' = << >> /\ Abstract!Hold(h, << >>, {})
    BY <1>2, <1>3 DEF New
  <2>2. {} \ {h} = {}
    OBVIOUS
  <2> QED BY <2>1, <2>2, Zenon DEF Abstract!New
<1>4. ASSUME NEW h \in Handles, Update(h) PROVE Abstract!Update(h)
  <2>1. PICK c \in Chunks :
          /\ core' = [core EXCEPT ![h] =
                        IF Ready(buffer[h], c) = << >> THEN @
                        ELSE UpdateBlocks(@, Ready(buffer[h], c))]
          /\ buffer' = [buffer EXCEPT ![h] = Waiting(@, c)]
    BY <1>4 DEF Update
  <2>2. c \in Seq(Byte) /\ h \in live /\ live' = live \cup {h} /\ out' = << >>
    BY <1>4, DigestAssumption DEF Update
  <2> DEFINE ready == Ready(buffer[h], c)
             r == IF ready = << >> THEN core[h] ELSE UpdateBlocks(core[h], ready)
             w == Waiting(buffer[h], c)
  <2>3. r.state.data \o w = Absorbed(h) \o c
    BY <2>2, UpdateFacts
  <2>4. core' = [core EXCEPT ![h] = r] /\ buffer' = [buffer EXCEPT ![h] = w]
    BY <2>1
  <2> HIDE DEF r, w
  <2>5. Abstract!Hold(h, Absorbed(h) \o c, {})
    BY <2>2, <2>3, <2>4, HoldFacts
  <2>6. AbsMsg[h] = Absorbed(h)
    BY <2>2 DEF AbsMsg
  <2>7. Abstract!Hold(h, AbsMsg[h] \o c, {})
    BY <2>5, <2>6
  <2> QED BY <2>2, <2>7, Zenon DEF Abstract!Update, AbsMsg
<1>5. ASSUME NEW h \in Handles, Reset(h) PROVE Abstract!Reset(h)
  <2>1. h \in live /\ out' = << >> /\ Abstract!Hold(h, << >>, {})
    BY <1>2, <1>5 DEF Reset
  <2>2. {} \ {h} = {}
    OBVIOUS
  <2> QED BY <2>1, <2>2, Zenon DEF Abstract!Reset
<1>6. ASSUME NEW h \in Handles, FinalizeReset(h) PROVE Abstract!FinalizeReset(h)
  <2>1. h \in live /\ Abstract!Returns(h) /\ Abstract!Hold(h, << >>, {})
    BY <1>2, <1>6, ReturnsFacts DEF FinalizeReset
  <2>2. {} \ {h} = {}
    OBVIOUS
  <2> QED BY <2>1, <2>2, Zenon DEF Abstract!FinalizeReset
<1>7. ASSUME NEW h \in Handles, Finalize(h) PROVE Abstract!Finalize(h)
  <2>1. h \in live /\ Abstract!Returns(h) /\ Abstract!Gone(h)
    BY <1>7, ReturnsFacts, GoneFacts DEF Finalize
  <2> QED BY <2>1, Zenon DEF Abstract!Finalize
<1>8. ASSUME NEW h \in Handles, Discard(h) PROVE Abstract!Discard(h)
  <2>1. h \in live /\ out' = << >> /\ Abstract!Gone(h)
    BY <1>8, GoneFacts DEF Discard
  <2> QED BY <2>1, Zenon DEF Abstract!Discard
<1>9. ASSUME NEW h \in Handles, NEW g \in Handles, Clone(h, g)
      PROVE  Abstract!Clone(h, g)
  <2>1. /\ h \in live /\ g \notin live /\ out' = << >> /\ live' = live \cup {g}
        /\ core' = [core EXCEPT ![g] = core[h]]
        /\ buffer' = [buffer EXCEPT ![g] = buffer[h]]
    BY <1>9 DEF Clone
  <2>2. Abstract!Hold(g, Absorbed(h), {}) /\ AbsMsg[h] = Absorbed(h)
    BY <2>1, HoldFacts DEF Absorbed, AbsMsg
  <2>3. Abstract!Hold(g, AbsMsg[h], {})
    BY <2>2
  <2>4. (IF h \in {} THEN {} \cup {g} ELSE {} \ {g}) = {}
    OBVIOUS
  <2> QED BY <2>1, <2>3, <2>4, Zenon DEF Abstract!Clone, AbsMsg
<1> QED
  BY <1>1, <1>3, <1>4, <1>5, <1>6, <1>7, <1>8, <1>9 DEF Next, Abstract!Next

(* The adapter implements MessageDigest. *)
THEOREM DigestRefinement == Spec => ImplementsMessageDigest
BY AbsInit, AbsNext, SpecInv, PTL DEF Spec, Abstract!Spec, ImplementsMessageDigest
=============================================================================
