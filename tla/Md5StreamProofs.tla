--------------------------- MODULE Md5StreamProofs -------------------------
(***************************************************************************)
(* Md5Stream implements MessageDigest, for every set of handles, every     *)
(* chunking, every block size and every counter width.                     *)
(***************************************************************************)
EXTENDS Md5Stream, RawProofs

LEMMA ResumeFacts ==
  ASSUME NEW p \in Prefixes
  PROVE  LET r == FromParts(CompressBlocks(IV, p), Len(p) % CountMod) IN
         /\ r \in Raw /\ WellFormed(r)
         /\ r.state.seed = "iv" /\ Message(r) = p
<1> DEFINE st == CompressBlocks(IV, p)
<1>1. p \in Seq(Byte) /\ Len(p) % BlockSize = 0
  BY StreamAssumption
<1>2. st = [seed |-> "iv", data |-> p]
  BY <1>1, ByteConcat DEF CompressBlocks, IV
<1>3. st \in Chain /\ st.seed = "iv" /\ st.data = p
  BY <1>1, <1>2 DEF Chain
<1> HIDE DEF st
<1> QED BY <1>1, <1>3, FromPartsFacts DEF st

(***************************************************************************)
(* The inductive invariant: every Raw, of a live handle or a dead one, is  *)
(* well formed.  Accounted alone is not inductive: its step needs the      *)
(* types of the fields, and TypeOK alone says nothing of their sizes.      *)
(***************************************************************************)
Inv == TypeOK /\ Accounted

(* One handle gets a well-formed Raw, the others keep theirs. *)
LEMMA PutFacts ==
  ASSUME Inv, NEW h \in Handles, NEW r \in Raw, WellFormed(r),
         hasher' = [hasher EXCEPT ![h] = r], live' \subseteq Handles,
         out' \in Seq(Digests) /\ Len(out') <= 1
  PROVE  Inv'
<1>1. hasher' \in [Handles -> Raw]
  BY DEF Inv, TypeOK
<1>2. \A g \in Handles : WellFormed(hasher'[g])
  BY DEF Inv, TypeOK, Accounted
<1> QED BY <1>1, <1>2 DEF Inv, TypeOK, Accounted

LEMMA Answer ==
  /\ << >> \in Seq(Digests) /\ Len(<< >>) <= 1
  /\ \A d \in Digests : <<d>> \in Seq(Digests) /\ Len(<<d>>) = 1
BY SMT

LEMMA InitInv == Init => Inv
BY FreshFacts, Answer DEF Init, Inv, TypeOK, Accounted

LEMMA NextInv == Inv /\ [Next]_vars => Inv'
<1> SUFFICES ASSUME Inv, [Next]_vars PROVE Inv'
  OBVIOUS
<1>1. /\ live \subseteq Handles
      /\ \A h \in Handles : hasher[h] \in Raw /\ WellFormed(hasher[h])
  BY DEF Inv, TypeOK, Accounted
<1>2. CASE UNCHANGED vars
  BY <1>2 DEF vars, Inv, TypeOK, Accounted
<1>3. ASSUME NEW h \in Handles, New(h) PROVE Inv'
  BY <1>1, <1>3, FreshFacts, Answer, PutFacts DEF New
<1>4. ASSUME NEW h \in Handles, Resume(h) PROVE Inv'
  <2>1. PICK p \in Prefixes :
          hasher' = [hasher EXCEPT ![h] =
                       FromParts(CompressBlocks(IV, p), Len(p) % CountMod)]
    BY <1>4 DEF Resume
  <2>2. live' \subseteq Handles /\ out' = << >>
    BY <1>1, <1>4 DEF Resume
  <2> QED BY <2>1, <2>2, ResumeFacts, Answer, PutFacts
<1>5. ASSUME NEW h \in Handles, Update(h) PROVE Inv'
  <2>1. PICK c \in Chunks : hasher' = [hasher EXCEPT ![h] = Absorb(hasher[h], c)]
    BY <1>5 DEF Update
  <2>2. c \in Seq(Byte)
    BY StreamAssumption
  <2>3. live' \subseteq Handles /\ out' = << >>
    BY <1>1, <1>5 DEF Update
  <2>4. Absorb(hasher[h], c) \in Raw /\ WellFormed(Absorb(hasher[h], c))
    BY <1>1, <2>2, AbsorbFacts
  <2> QED BY <2>1, <2>3, <2>4, Answer, PutFacts
<1>6. ASSUME NEW h \in Handles, Reset(h) PROVE Inv'
  BY <1>1, <1>6, FreshFacts, Answer, PutFacts DEF Reset
<1>7. ASSUME NEW h \in Handles, Zeroize(h) PROVE Inv'
  BY <1>1, <1>7, FreshFacts, Answer, PutFacts DEF Zeroize
<1>8. ASSUME NEW h \in Handles, Snapshot(h) PROVE Inv'
  BY <1>1, <1>8, DigestFacts, Answer DEF Snapshot, Inv, TypeOK, Accounted
<1>9. ASSUME NEW h \in Handles, FinalizeReset(h) PROVE Inv'
  <2>1. out' \in Seq(Digests) /\ Len(out') <= 1
    BY <1>1, <1>9, DigestFacts, Answer DEF FinalizeReset
  <2> QED BY <1>1, <1>9, <2>1, FreshFacts, PutFacts DEF FinalizeReset
<1>10. ASSUME NEW h \in Handles, DropValue(h),
              out' \in Seq(Digests) /\ Len(out') <= 1
       PROVE  Inv'
  <2>1. live' \subseteq Handles
    BY <1>1, <1>10 DEF DropValue
  <2>2. CASE ZeroizeOnDrop
    BY <1>1, <1>10, <2>1, <2>2, FreshFacts, PutFacts DEF DropValue
  <2>3. CASE ~ZeroizeOnDrop
    BY <1>1, <1>10, <2>1, <2>3 DEF DropValue, Inv, TypeOK, Accounted
  <2> QED BY <2>2, <2>3
<1>11. ASSUME NEW h \in Handles, Finalize(h) PROVE Inv'
  <2>1. out' \in Seq(Digests) /\ Len(out') <= 1
    BY <1>1, <1>11, DigestFacts, Answer DEF Finalize
  <2> QED BY <1>10, <1>11, <2>1 DEF Finalize
<1>12. ASSUME NEW h \in Handles, Discard(h) PROVE Inv'
  BY <1>10, <1>12, Answer DEF Discard
<1>13. ASSUME NEW h \in Handles, NEW g \in Handles, Clone(h, g) PROVE Inv'
  BY <1>1, <1>13, Answer, PutFacts DEF Clone
<1> QED
  BY <1>2, <1>3, <1>4, <1>5, <1>6, <1>7, <1>8, <1>9, <1>11, <1>12, <1>13 DEF Next

LEMMA SpecInv == Spec => []Inv
BY InitInv, NextInv, PTL DEF Spec

(* Every Raw keeps its type in every execution (src/core.rs: no index into *)
(* the buffer is out of range).                                            *)
THEOREM TypeCorrect == Spec => []TypeOK
BY SpecInv, PTL DEF Inv

(* Between two calls only complete blocks have been compressed, less than  *)
(* a block waits, and the counter counts both, whatever the chunking.      *)
THEOREM AlwaysAccounted == Spec => []Accounted
BY SpecInv, PTL DEF Inv

LEMMA InvSplit == Inv => SplitInvariance
<1> SUFFICES ASSUME Inv, NEW g \in live, NEW h \in live,
                    hasher[g].state.seed = hasher[h].state.seed,
                    Message(hasher[g]) = Message(hasher[h])
             PROVE  Observable(hasher[g]) = Observable(hasher[h])
  BY DEF SplitInvariance
<1>1. /\ hasher[g] \in Raw /\ WellFormed(hasher[g])
      /\ hasher[h] \in Raw /\ WellFormed(hasher[h])
  BY DEF Inv, TypeOK, Accounted
<1> QED BY <1>1, MessageDetermines

(* How a message was split into chunks, cloned or resumed is never visible. *)
THEOREM AlwaysSplitInvariant == Spec => []SplitInvariance
BY SpecInv, InvSplit, PTL

(***************************************************************************)
(* Refinement.                                                             *)
(***************************************************************************)
(* The abstract state of the handles: what they hold, and which of them    *)
(* were cleared.                                                           *)
AbsMsg == [h \in Handles |-> IF h \in live THEN Message(hasher[h]) ELSE << >>]
AbsCleared == {h \in live : hasher[h].state.seed = "zero"}

LEMMA AbsInit == Init => Abstract!Init
BY DEF Init, Abstract!Init

(* The cleared handles once h holds r. *)
Marked(h, r) == IF r.state.seed = "zero" THEN AbsCleared \cup {h} ELSE AbsCleared \ {h}

(* A call that leaves h with the Raw r is the abstract step that leaves it *)
(* with the message of r.                                                  *)
LEMMA HoldFacts ==
  ASSUME Inv, NEW h \in Handles, NEW r \in Raw,
         hasher' = [hasher EXCEPT ![h] = r], live' = live \cup {h}
  PROVE  /\ AbsMsg' = [AbsMsg EXCEPT ![h] = Message(r)]
         /\ AbsCleared' = Marked(h, r)
<1>1. hasher \in [Handles -> Raw] /\ live \subseteq Handles
  BY DEF Inv, TypeOK
<1>2. AbsMsg' = [AbsMsg EXCEPT ![h] = Message(r)]
  <2>1. AbsMsg' = [g \in Handles |-> IF g \in live' THEN Message(hasher'[g]) ELSE << >>]
    BY DEF AbsMsg, Message, First
  <2>2. ASSUME NEW g \in Handles
        PROVE  (IF g \in live' THEN Message(hasher'[g]) ELSE << >>)
                 = IF g = h THEN Message(r)
                   ELSE IF g \in live THEN Message(hasher[g]) ELSE << >>
    BY <1>1
  <2> QED BY <2>1, <2>2 DEF AbsMsg
<1>3. AbsCleared' = Marked(h, r)
  BY <1>1 DEF AbsCleared, Marked
<1> QED BY <1>2, <1>3

LEMMA HeldMessage ==
  ASSUME Inv, NEW h \in Handles, h \in live
  PROVE  /\ AbsMsg[h] = Message(hasher[h])
         /\ h \in AbsCleared <=> hasher[h].state.seed = "zero"
         /\ hasher[h] \in Raw /\ WellFormed(hasher[h])
         /\ hasher[h].state.seed \in {"iv", "zero"}
         /\ live \cup {h} = live
BY RawFields DEF AbsMsg, AbsCleared, Inv, TypeOK, Accounted

(* The abstract specification speaks of the same digests. *)
LEMMA SameDigests ==
  /\ Abstract!Digests = Digests
  /\ \A m : Abstract!RfcDigest(m) = RfcDigest(m)
<1>1. Abstract!Digests = Digests
  BY DEF Abstract!Digests, Abstract!Chain, Abstract!Byte, Digests, Chain, Byte
<1>2. \A m : Abstract!RfcPadded(m) = RfcPadded(m)
  BY DEF Abstract!RfcPadded, Abstract!PaddedLen, Abstract!IsPaddedLen,
         Abstract!BitLen, Abstract!Mark, Abstract!LeByte,
         RfcPadded, PaddedLen, IsPaddedLen, BitLen, Mark, LeByte
<1>3. \A m : Abstract!RfcDigest(m) = RfcDigest(m)
  BY <1>2 DEF Abstract!RfcDigest, Abstract!StateToBytes,
              Abstract!CompressBlocks, Abstract!IV,
              RfcDigest, StateToBytes, CompressBlocks, IV
<1> QED BY <1>1, <1>3

(* A digest the code returns is one the specification allows. *)
LEMMA ReturnsFacts ==
  ASSUME Inv, NEW h \in Handles, h \in live, out' = <<Digest(hasher[h])>>
  PROVE  Abstract!Returns(h)
<1>1. out' \in Seq(Digests) /\ Len(out') = 1
  BY HeldMessage, DigestFacts, Answer
<1>2. h \notin AbsCleared => out' = <<RfcDigest(AbsMsg[h])>>
  BY HeldMessage, DigestFacts
<1> QED
  BY <1>1, <1>2, SameDigests, Zenon DEF Abstract!Returns, AbsMsg, AbsCleared

(* A handle that loses its hasher: whatever stays in memory is not seen.   *)
LEMMA GoneFacts ==
  ASSUME Inv, NEW h \in Handles, h \in live, DropValue(h)
  PROVE  Abstract!Gone(h)
<1>1. /\ hasher \in [Handles -> Raw] /\ live \subseteq Handles
      /\ live' = live \ {h}
      /\ \A g \in Handles \ {h} : hasher'[g] = hasher[g]
  BY DEF Inv, TypeOK, DropValue
<1>2. AbsMsg' = [AbsMsg EXCEPT ![h] = << >>]
  <2>1. AbsMsg' = [g \in Handles |-> IF g \in live' THEN Message(hasher'[g]) ELSE << >>]
    BY DEF AbsMsg, Message, First
  <2>2. ASSUME NEW g \in Handles
        PROVE  (IF g \in live' THEN Message(hasher'[g]) ELSE << >>)
                 = IF g = h THEN << >>
                   ELSE IF g \in live THEN Message(hasher[g]) ELSE << >>
    BY <1>1
  <2> QED BY <2>1, <2>2 DEF AbsMsg
<1>3. AbsCleared' = AbsCleared \ {h}
  BY <1>1 DEF AbsCleared
<1> QED BY <1>1, <1>2, <1>3 DEF Abstract!Gone, AbsMsg, AbsCleared

LEMMA AbsNext == Inv /\ [Next]_vars => [Abstract!Next]_Abstract!vars
<1> SUFFICES ASSUME Inv, [Next]_vars PROVE [Abstract!Next]_Abstract!vars
  OBVIOUS
<1>1. /\ live \subseteq Handles /\ hasher \in [Handles -> Raw]
      /\ \A h \in Handles : hasher[h] \in Raw
  BY DEF Inv, TypeOK
<1>2. CASE UNCHANGED vars
  BY <1>2 DEF vars, Abstract!vars
<1>3. ASSUME NEW h \in Handles, New(h) PROVE Abstract!New(h)
  <2>1. AbsMsg' = [AbsMsg EXCEPT ![h] = << >>] /\ AbsCleared' = AbsCleared \ {h}
    BY <1>3, FreshFacts, HoldFacts DEF New, Marked
  <2> QED
    BY <1>3, <2>1, Zenon DEF New, Abstract!New, Abstract!Hold, AbsMsg, AbsCleared
<1>4. ASSUME NEW h \in Handles, Resume(h) PROVE Abstract!Resume(h)
  <2>1. PICK p \in Prefixes :
          hasher' = [hasher EXCEPT ![h] =
                       FromParts(CompressBlocks(IV, p), Len(p) % CountMod)]
    BY <1>4 DEF Resume
  <2> DEFINE r == FromParts(CompressBlocks(IV, p), Len(p) % CountMod)
  <2>2. r \in Raw /\ r.state.seed = "iv" /\ Message(r) = p
    BY ResumeFacts
  <2>3. hasher' = [hasher EXCEPT ![h] = r]
    BY <2>1
  <2> HIDE DEF r
  <2>4. AbsMsg' = [AbsMsg EXCEPT ![h] = p] /\ AbsCleared' = AbsCleared \ {h}
    BY <1>4, <2>2, <2>3, HoldFacts DEF Resume, Marked
  <2> QED
    BY <1>4, <2>4, Zenon
       DEF Resume, Abstract!Resume, Abstract!Hold, AbsMsg, AbsCleared
<1>5. ASSUME NEW h \in Handles, Update(h) PROVE Abstract!Update(h)
  <2>1. PICK c \in Chunks : hasher' = [hasher EXCEPT ![h] = Absorb(hasher[h], c)]
    BY <1>5 DEF Update
  <2>2. h \in live /\ live' = live /\ out' = << >>
    BY <1>5 DEF Update
  <2>3. /\ AbsMsg[h] = Message(hasher[h])
        /\ h \in AbsCleared <=> hasher[h].state.seed = "zero"
        /\ hasher[h] \in Raw /\ WellFormed(hasher[h]) /\ live \cup {h} = live
    BY <2>2, HeldMessage
  <2> DEFINE r == Absorb(hasher[h], c)
  <2>4. /\ r \in Raw /\ r.state.seed = hasher[h].state.seed
        /\ Message(r) = Message(hasher[h]) \o c
    BY <2>3, StreamAssumption, AbsorbFacts
  <2>5. hasher' = [hasher EXCEPT ![h] = r]
    BY <2>1
  <2> HIDE DEF r
  <2>6. AbsMsg' = [AbsMsg EXCEPT ![h] = Message(r)] /\ AbsCleared' = Marked(h, r)
    BY <2>2, <2>3, <2>4, <2>5, HoldFacts
  <2>7. Marked(h, r) = AbsCleared
    BY <2>3, <2>4 DEF Marked
  <2>8. AbsMsg' = [AbsMsg EXCEPT ![h] = AbsMsg[h] \o c] /\ AbsCleared' = AbsCleared
    BY <2>3, <2>4, <2>6, <2>7
  <2>9. live' = live \cup {h}
    BY <2>2, <2>3
  <2> QED
    BY <2>2, <2>8, <2>9, Zenon
       DEF Abstract!Update, Abstract!Hold, AbsMsg, AbsCleared
<1>6. ASSUME NEW h \in Handles, h \in live, live' = live,
             hasher' = [hasher EXCEPT ![h] = Fresh]
      PROVE  Abstract!Hold(h, << >>, AbsCleared \ {h})
  <2>1. live' = live \cup {h}
    BY <1>6
  <2>2. AbsMsg' = [AbsMsg EXCEPT ![h] = << >>] /\ AbsCleared' = AbsCleared \ {h}
    BY <1>6, <2>1, FreshFacts, HoldFacts DEF Marked
  <2> QED BY <2>1, <2>2, Zenon DEF Abstract!Hold, AbsMsg, AbsCleared
<1>7. ASSUME NEW h \in Handles, Reset(h) PROVE Abstract!Reset(h)
  <2>1. Abstract!Hold(h, << >>, AbsCleared \ {h})
    BY <1>6, <1>7 DEF Reset
  <2> QED BY <1>7, <2>1, Zenon DEF Reset, Abstract!Reset, Abstract!Hold, AbsCleared
<1>8. ASSUME NEW h \in Handles, Zeroize(h) PROVE Abstract!Clear(h)
  <2>1. live' = live \cup {h}
    BY <1>8 DEF Zeroize
  <2>2. AbsMsg' = [AbsMsg EXCEPT ![h] = << >>] /\ AbsCleared' = AbsCleared \cup {h}
    BY <1>8, <2>1, FreshFacts, HoldFacts DEF Zeroize, Marked
  <2> QED
    BY <1>8, <2>1, <2>2, Zenon
       DEF Zeroize, Abstract!Clear, Abstract!Hold, AbsMsg, AbsCleared
<1>9. ASSUME NEW h \in Handles, Snapshot(h) PROVE Abstract!Snapshot(h)
  <2>1. Abstract!Returns(h)
    BY <1>9, ReturnsFacts DEF Snapshot
  <2> QED BY <1>9, <2>1 DEF Snapshot, Abstract!Snapshot
<1>10. ASSUME NEW h \in Handles, FinalizeReset(h) PROVE Abstract!FinalizeReset(h)
  <2>1. Abstract!Returns(h)
    BY <1>10, ReturnsFacts DEF FinalizeReset
  <2>2. Abstract!Hold(h, << >>, AbsCleared \ {h})
    BY <1>6, <1>10 DEF FinalizeReset
  <2> QED
    BY <1>10, <2>1, <2>2, Zenon
       DEF FinalizeReset, Abstract!FinalizeReset, Abstract!Hold, AbsCleared
<1>11. ASSUME NEW h \in Handles, Finalize(h) PROVE Abstract!Finalize(h)
  BY <1>11, ReturnsFacts, GoneFacts DEF Finalize, Abstract!Finalize
<1>12. ASSUME NEW h \in Handles, Discard(h) PROVE Abstract!Discard(h)
  BY <1>12, GoneFacts DEF Discard, Abstract!Discard
<1>13. ASSUME NEW h \in Handles, NEW g \in Handles, Clone(h, g)
       PROVE  Abstract!Clone(h, g)
  <2>1. /\ h \in live /\ g \notin live /\ out' = << >> /\ live' = live \cup {g}
        /\ hasher' = [hasher EXCEPT ![g] = hasher[h]]
    BY <1>13 DEF Clone
  <2>2. /\ AbsMsg[h] = Message(hasher[h]) /\ hasher[h] \in Raw
        /\ h \in AbsCleared <=> hasher[h].state.seed = "zero"
    BY <2>1, HeldMessage
  <2> DEFINE r == hasher[h]
  <2>3. AbsMsg' = [AbsMsg EXCEPT ![g] = Message(r)] /\ AbsCleared' = Marked(g, r)
    <3>1. r \in Raw /\ hasher' = [hasher EXCEPT ![g] = r]
      BY <2>1, <2>2
    <3> HIDE DEF r
    <3> QED BY <2>1, <3>1, HoldFacts
  <2>4. AbsMsg' = [AbsMsg EXCEPT ![g] = AbsMsg[h]]
    BY <2>2, <2>3
  <2>5. AbsCleared'
          = IF h \in AbsCleared THEN AbsCleared \cup {g} ELSE AbsCleared \ {g}
    BY <2>2, <2>3 DEF Marked
  <2> QED
    BY <2>1, <2>4, <2>5, Zenon
       DEF Abstract!Clone, Abstract!Hold, AbsMsg, AbsCleared
<1> QED
  BY <1>2, <1>3, <1>4, <1>5, <1>7, <1>8, <1>9, <1>10, <1>11, <1>12, <1>13
     DEF Next, Abstract!Next

(* The hasher of src/core.rs implements MessageDigest.                     *)
THEOREM StreamRefinement == Spec => ImplementsMessageDigest
BY AbsInit, AbsNext, SpecInv, PTL DEF Spec, Abstract!Spec, ImplementsMessageDigest
=============================================================================
