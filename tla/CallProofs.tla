----------------------------- MODULE CallProofs ----------------------------
(***************************************************************************)
(* The calls that are built on Raw and on the one-shot frame, one after    *)
(* the other: the reader loop, the calls on many streams, one-shot hashing *)
(* and hexadecimal output.                                                 *)
(***************************************************************************)
EXTENDS Reader, ManyStreams, OneShot, RawProofs, WellFoundedInduction

(***************************************************************************)
(* The reader loop hashes the stream that was delivered, for every reader, *)
(* every buffer size and every pattern of short reads, interruptions and   *)
(* failures.                                                               *)
(***************************************************************************)
LEMMA AnswerTags ==
  /\ \A n : Ok(n).tag = "ok" /\ Ok(n).n = n
  /\ None.tag = "none" /\ Interrupted.tag = "interrupted" /\ Failed.tag = "failed"
  /\ \A d : Digested(d).tag = "digest" /\ Digested(d).digest = d
BY DEF Ok, None, Interrupted, Failed, Digested

(* A filled buffer has its size, and the data in front.                    *)
LEMMA FilledFacts ==
  ASSUME buf \in Seq(Byte), NEW data \in Seq(Byte), Len(data) <= Len(buf),
         NEW b \in Filled(data)
  PROVE  b \in Seq(Byte) /\ Len(b) = Len(buf) /\ First(b, Len(data)) = data
<1>1. /\ Len(buf) \in Nat /\ Len(data) \in Nat /\ Radix - 1 \in Byte
      /\ \A i \in 1 .. Len(buf) : buf[i] \in Byte
      /\ \A i \in 1 .. Len(data) : data[i] \in Byte
  BY LenProperties, ElementOfSeq, SizeAssumption, SMT DEF Byte
<1>2. \A i \in 1 .. Len(buf) : i <= Len(data) => i \in 1 .. Len(data)
  BY <1>1, SMT
<1>3. /\ b \in [1 .. Len(buf) -> Byte]
      /\ \A i \in 1 .. Len(buf) : i <= Len(data) => b[i] = data[i]
  BY <1>1, <1>2 DEF Filled
<1>4. b \in Seq(Byte) /\ Len(b) = Len(buf)
  BY <1>1, <1>3, FunctionIsSeq
<1>5. Len(data) \in 0 .. Len(b)
  BY <1>1, <1>4, SMT
<1>6. /\ First(b, Len(data)) \in Seq(Byte) /\ Len(First(b, Len(data))) = Len(data)
      /\ \A i \in 1 .. Len(data) : First(b, Len(data))[i] = b[i]
  BY <1>4, <1>5, FirstDrop
<1>7. \A i \in 1 .. Len(data) : i \in 1 .. Len(buf) /\ i <= Len(data)
  BY <1>1, SMT
<1>8. \A i \in 1 .. Len(data) : First(b, Len(data))[i] = data[i]
  BY <1>3, <1>6, <1>7
<1> QED BY <1>4, <1>6, <1>8, SeqEqual

LEMMA NoBytes ==
  /\ << >> \in Seq(Byte) /\ Len(<< >>) = 0
  /\ \A s \in Seq(Byte) : First(s, 0) = << >>
<1>1. << >> \in Seq(Byte) /\ Len(<< >>) = 0
  BY EmptySeq
<1>2. ASSUME NEW s \in Seq(Byte) PROVE First(s, 0) = << >>
  <2>1. 0 \in 0 .. Len(s)
    BY LenProperties, SMT
  <2>2. First(s, 0) \in Seq(Byte) /\ Len(First(s, 0)) = 0
    BY <2>1, FirstDrop
  <2> QED BY <2>2, EmptySeq
<1> QED BY <1>1, <1>2

(***************************************************************************)
(* The inductive invariant.  Follows speaks of the moments before a read;  *)
(* between a read and the match on its answer, the bytes of that answer    *)
(* are neither in the hasher nor with the reader, but in the buffer.       *)
(***************************************************************************)
InFlight == IF answer.tag = "ok" THEN First(buf, answer.n) ELSE << >>

Inv ==
  /\ TypeOK
  /\ WellFormed(hasher) /\ hasher.state.seed = "iv"
  /\ pc = "reading" => Message(hasher) \o rest = stream
  /\ pc = "answered" =>
       /\ answer # None
       /\ Message(hasher) \o (InFlight \o rest) = stream
       /\ answer = Ok(0) => rest = << >>
  /\ Faithful

LEMMA InitInv == Init => Inv
<1> SUFFICES ASSUME Init PROVE Inv
  OBVIOUS
<1>1. TypeOK
  BY NoBytes, AnswerTags, FreshFacts, ReaderAssumption DEF Init, TypeOK
<1> QED BY <1>1, FreshFacts, AnswerTags DEF Init, Inv, Faithful

LEMMA CallInv ==
  ASSUME Inv, NEW size \in MinChunk .. MaxChunk \cup {StackBuf}, Call(size)
  PROVE  Inv'
<1>1. size \in Nat
  BY ReaderAssumption, SMT
<1>2. buf' \in [1 .. size -> Byte]
  BY ByteFacts DEF Call
<1>3. buf' \in Seq(Byte) /\ Len(buf') = size
  BY <1>1, <1>2, FunctionIsSeq
<1>4. /\ stream' \in Seq(Byte) /\ rest' = stream' /\ pc' = "reading"
      /\ hasher' = Fresh /\ answer' = None /\ result' = None /\ interrupts' = 0
  BY ReaderAssumption DEF Call
<1>5. TypeOK'
  BY <1>3, <1>4, FreshFacts, AnswerTags, ReaderAssumption, SMT DEF TypeOK
<1>6. Message(hasher') \o rest' = stream'
  BY <1>4, FreshFacts, ByteConcat
<1> QED BY <1>4, <1>5, <1>6, FreshFacts, AnswerTags DEF Inv, Faithful

LEMMA ReadInv == Inv /\ Read => Inv'
<1> SUFFICES ASSUME Inv, Read PROVE Inv'
  OBVIOUS
<1>1. /\ pc = "reading" /\ pc' = "answered"
      /\ stream' = stream /\ hasher' = hasher /\ result' = result
  BY DEF Read
<1>2. /\ buf \in Seq(Byte) /\ rest \in Seq(Byte) /\ stream \in Seq(Byte)
      /\ Len(buf) \in MinChunk .. MaxChunk \cup {StackBuf} /\ Len(buf) \in Nat
      /\ Message(hasher) \o rest = stream
      /\ hasher \in Raw /\ interrupts \in 0 .. MaxInterrupts
  BY <1>1, LenProperties DEF Inv, TypeOK
<1>3. ASSUME NEW n \in 0 .. Len(buf), answer' = Ok(n),
             buf' \in Seq(Byte), Len(buf') = Len(buf), rest' \in Seq(Byte),
             interrupts' = interrupts,
             First(buf', n) \o rest' = rest, n = 0 => rest' = << >>
      PROVE  Inv'
  <2>1. answer'.tag = "ok" /\ answer'.n = n /\ answer' # None
    BY <1>3, AnswerTags
  <2>2. InFlight' = First(buf', n)
    BY <2>1 DEF InFlight, First
  <2>3. answer' = Ok(0) => n = 0
    <3>1. Ok(0).n = 0
      BY AnswerTags
    <3> QED BY <2>1, <3>1
  <2>4. TypeOK'
    BY <1>1, <1>2, <1>3 DEF TypeOK, Inv
  <2> QED
    BY <1>1, <1>2, <1>3, <2>1, <2>2, <2>3, <2>4 DEF Inv, Faithful, Message, First
<1>4. CASE Deliver
  <2>1. PICK n \in 1 .. Len(rest) :
          /\ n <= Len(buf) /\ buf' \in Filled(First(rest, n))
          /\ rest' = Drop(rest, n) /\ answer' = Ok(n)
    BY <1>4 DEF Deliver
  <2>2. n \in 0 .. Len(rest) /\ n \in 0 .. Len(buf) /\ n # 0
    BY <1>2, <2>1, LenProperties, SMT
  <2>3. /\ First(rest, n) \in Seq(Byte) /\ Len(First(rest, n)) = n
        /\ Drop(rest, n) \in Seq(Byte)
        /\ First(rest, n) \o Drop(rest, n) = rest
    BY <1>2, <2>2, FirstDrop
  <2>4. buf' \in Seq(Byte) /\ Len(buf') = Len(buf) /\ First(buf', n) = First(rest, n)
    BY <1>2, <2>1, <2>3, FilledFacts
  <2>5. interrupts' = interrupts
    BY <1>4 DEF Deliver
  <2> QED BY <1>3, <2>1, <2>2, <2>3, <2>4, <2>5
<1>5. CASE DeliverNothing
  <2>1. rest = << >> /\ rest' = rest /\ buf' = buf /\ interrupts' = interrupts
    <3>1. Len(buf) # 0
      BY <1>2, ReaderAssumption, SMT
    <3>2. buf # << >>
      BY <3>1, NoBytes
    <3> QED BY <1>5, <3>2 DEF DeliverNothing
  <2>2. 0 \in 0 .. Len(buf) /\ answer' = Ok(0)
    BY <1>2, <1>5, SMT DEF DeliverNothing
  <2>3. First(buf, 0) \o rest = rest
    BY <1>2, <2>1, NoBytes, ByteConcat
  <2> QED BY <1>2, <1>3, <2>1, <2>2, <2>3
<1>6. ASSUME answer' \in {Interrupted, Failed}, buf' \in Filled(<< >>), rest' = rest,
             interrupts' \in 0 .. MaxInterrupts
      PROVE  Inv'
  <2>1. buf' \in Seq(Byte) /\ Len(buf') = Len(buf)
    <3>1. Len(<< >>) <= Len(buf)
      BY <1>2, NoBytes, SMT
    <3> QED BY <1>2, <1>6, <3>1, NoBytes, FilledFacts
  <2>2. answer'.tag # "ok" /\ answer' # None /\ answer' # Ok(0)
    BY <1>6, AnswerTags
  <2>3. InFlight' = << >> /\ << >> \o rest = rest
    BY <1>2, <2>2, ByteConcat DEF InFlight
  <2>4. TypeOK'
    BY <1>1, <1>2, <1>6, <2>1 DEF TypeOK, Inv
  <2> QED
    BY <1>1, <1>2, <1>6, <2>2, <2>3, <2>4 DEF Inv, Faithful, Message, First
<1>7. CASE Interrupt
  <2>1. interrupts' \in 0 .. MaxInterrupts
    BY <1>2, <1>7, ReaderAssumption, SMT DEF Interrupt
  <2> QED BY <1>6, <1>7, <2>1 DEF Interrupt
<1>8. CASE Fail
  BY <1>2, <1>6, <1>8 DEF Fail
<1> QED BY <1>4, <1>5, <1>7, <1>8 DEF Read

LEMMA MatchInv == Inv /\ Match => Inv'
<1> SUFFICES ASSUME Inv, Match PROVE Inv'
  OBVIOUS
<1>1. /\ pc = "answered" /\ stream' = stream /\ rest' = rest /\ buf' = buf
      /\ answer' = answer /\ interrupts' = interrupts
  BY DEF Match
<1>2. /\ hasher \in Raw /\ WellFormed(hasher) /\ hasher.state.seed = "iv"
      /\ buf \in Seq(Byte) /\ rest \in Seq(Byte) /\ stream \in Seq(Byte)
      /\ Message(hasher) \in Seq(Byte)
      /\ Message(hasher) \o (InFlight \o rest) = stream
      /\ answer \in {Interrupted, Failed} \cup {Ok(n) : n \in 0 .. Len(buf)}
      /\ Len(buf) \in MinChunk .. MaxChunk \cup {StackBuf}
      /\ interrupts \in 0 .. MaxInterrupts
      /\ result.tag \in {"none", "failed", "digest"}
      /\ answer = Ok(0) => rest = << >>
      /\ Faithful
  BY <1>1, RawFields DEF Inv, TypeOK
<1>3. ASSUME NEW h \in Raw, Goon(h), WellFormed(h), h.state.seed = "iv",
             Message(h) \o rest = stream
      PROVE  Inv'
  <2>1. pc' = "reading" /\ hasher' = h /\ result' = result
    BY <1>3 DEF Goon
  <2>2. TypeOK'
    BY <1>1, <1>2, <2>1 DEF TypeOK
  <2> QED
    BY <1>1, <1>2, <1>3, <2>1, <2>2 DEF Inv, Faithful
<1>4. ASSUME NEW r, Return(r), r.tag = IF answer = Failed THEN "failed" ELSE "digest",
             r.tag = "digest" => r.digest = RfcDigest(stream)
      PROVE  Inv'
  <2>1. pc' = "returned" /\ hasher' = hasher /\ result' = r
    BY <1>4 DEF Return
  <2>2. TypeOK'
    <3>1. r.tag \in {"none", "failed", "digest"}
      BY <1>4
    <3> QED BY <1>1, <1>2, <2>1, <3>1 DEF TypeOK
  <2>3. Faithful'
    BY <1>1, <1>4, <2>1, AnswerTags DEF Faithful, Failed
  <2> QED
    BY <1>1, <1>2, <2>1, <2>2, <2>3 DEF Inv
<1>5. CASE answer = Ok(0)
  <2>1. Return(Digested(Digest(hasher)))
    <3>1. answer # Interrupted /\ answer # Failed
      BY <1>5, AnswerTags
    <3> QED BY <1>5, <3>1 DEF Match
  <2>2. InFlight = << >> /\ rest = << >>
    BY <1>2, <1>5, AnswerTags, NoBytes DEF InFlight
  <2>3. Message(hasher) = stream
    BY <1>2, <2>2, ByteConcat, NoBytes
  <2>4. Digest(hasher) = RfcDigest(stream)
    BY <1>2, <2>3, DigestFacts
  <2>5. answer # Failed
    BY <1>5, AnswerTags
  <2> QED BY <1>4, <2>1, <2>4, <2>5, AnswerTags
<1>6. ASSUME NEW n \in 0 .. Len(buf), answer = Ok(n), n # 0 PROVE Inv'
  <2> DEFINE c == First(buf, n)
             h == Absorb(hasher, c)
  <2>1. /\ answer.tag = "ok" /\ answer.n = n
        /\ answer # Ok(0) /\ answer # Interrupted /\ answer # Failed
    <3>1. Ok(0).n = 0
      BY AnswerTags
    <3> QED BY <1>6, <3>1, AnswerTags
  <2>2. Goon(h)
    BY <2>1 DEF Match
  <2>3. c \in Seq(Byte) /\ InFlight = c
    BY <1>2, <2>1, FirstDrop DEF InFlight
  <2> HIDE DEF c
  <2>4. /\ h \in Raw /\ WellFormed(h) /\ h.state.seed = "iv"
        /\ Message(h) = Message(hasher) \o c
    BY <1>2, <2>3, AbsorbFacts
  <2>5. Message(h) \o rest = stream
    <3> DEFINE m == Message(hasher)
    <3>1. m \in Seq(Byte) /\ c \in Seq(Byte) /\ rest \in Seq(Byte)
      BY <1>2, <2>3
    <3>2. Message(h) \o rest = (m \o c) \o rest /\ m \o (c \o rest) = stream
      BY <1>2, <2>3, <2>4
    <3> HIDE DEF m
    <3> QED BY <3>1, <3>2, ByteAssociative
  <2> HIDE DEF h
  <2> QED BY <1>3, <2>2, <2>4, <2>5
<1>7. CASE answer \in {Interrupted, Failed}
  <2>1. answer.tag # "ok" /\ InFlight = << >> /\ Message(hasher) \o rest = stream
    BY <1>2, <1>7, AnswerTags, ByteConcat DEF InFlight
  <2>2. CASE answer = Interrupted
    <3>1. Goon(hasher)
      BY <2>1, <2>2, AnswerTags DEF Match
    <3> QED BY <1>2, <1>3, <2>1, <3>1
  <2>3. CASE answer = Failed
    <3>1. Return(Failed)
      BY <2>1, <2>3, AnswerTags DEF Match
    <3>2. Failed.tag = IF answer = Failed THEN "failed" ELSE "digest"
      BY <2>3, AnswerTags
    <3>3. Failed.tag # "digest"
      BY AnswerTags
    <3> QED BY <1>4, <3>1, <3>2, <3>3
  <2> QED BY <1>7, <2>2, <2>3
<1> QED BY <1>2, <1>5, <1>6, <1>7

LEMMA ClampFacts ==
  ASSUME NEW chunk \in Nat
  PROVE  Clamp(chunk) \in MinChunk .. MaxChunk
BY ReaderAssumption, SMT DEF Clamp

LEMMA NextInv == Inv /\ [Next]_vars => Inv'
<1> SUFFICES ASSUME Inv, [Next]_vars PROVE Inv'
  OBVIOUS
<1>1. CASE UNCHANGED vars
  BY <1>1 DEF vars, Inv, TypeOK, Faithful, InFlight, Message, First
<1>2. CASE DigestReader
  BY <1>2, CallInv DEF DigestReader
<1>3. CASE EtagHexStreaming
  BY <1>3, CallInv, ClampFacts, ReaderAssumption DEF EtagHexStreaming
<1> QED BY <1>1, <1>2, <1>3, ReadInv, MatchInv DEF Next

LEMMA SpecInv == Spec => []Inv
BY InitInv, NextInv, PTL DEF Spec

(* The reader is never lent an empty buffer, nor one above the documented  *)
(* megabyte, whatever chunk size the caller asks for.                      *)
THEOREM ReaderTypeCorrect == Spec => []TypeOK
BY SpecInv, PTL DEF Inv

(* Before every read the hasher has absorbed exactly what was delivered.   *)
THEOREM ReaderFollows == Spec => []Follows
<1>1. Inv => Follows
  BY DEF Inv, Follows
<1> QED BY <1>1, SpecInv, PTL

(* A digest that is returned is the digest of the whole stream, and only a *)
(* failed read makes a call fail.                                          *)
THEOREM ReaderFaithful == Spec => []Faithful
BY SpecInv, PTL DEF Inv

(***************************************************************************)
(* Termination: a call of the loop reads at most once for each byte of the *)
(* stream and for each interruption, and once more.                        *)
(***************************************************************************)
ToCome == Len(rest) + (MaxInterrupts - interrupts)

ReaderLeft ==
  CASE pc = "reading"  -> 2 * ToCome + 2
    [] pc = "answered" -> IF answer \in {Ok(0), Failed} THEN 1 ELSE 2 * ToCome + 3
    [] OTHER           -> 0

ReaderShrinks == ReaderLeft \in Nat /\ ReaderLeft' \in Nat /\ ReaderLeft' < ReaderLeft

LEMMA ReadShrinks == Inv /\ Read => ReaderShrinks
<1> SUFFICES ASSUME Inv, Read PROVE ReaderShrinks
  OBVIOUS
<1>1. pc = "reading" /\ pc' = "answered"
  BY DEF Read
<1>2. /\ rest \in Seq(Byte) /\ Len(rest) \in Nat /\ interrupts \in 0 .. MaxInterrupts
      /\ MaxInterrupts \in Nat
  BY LenProperties, ReaderAssumption DEF Inv, TypeOK
<1> DEFINE t == ToCome
<1>3. t \in Nat
  BY <1>2, SMT DEF ToCome
<1>4. ReaderLeft = 2 * t + 2
  BY <1>1 DEF ReaderLeft
<1>5. ReaderLeft' = 1 \/ ReaderLeft' = 2 * t' + 3
  BY <1>1 DEF ReaderLeft
<1>6. ASSUME answer' \in {Ok(0), Failed} PROVE ReaderLeft' = 1
  BY <1>1, <1>6 DEF ReaderLeft, Ok, Failed
<1>7. CASE Deliver
  <2>1. PICK n \in 1 .. Len(rest) : rest' = Drop(rest, n) /\ interrupts' = interrupts
    BY <1>7 DEF Deliver
  <2>2. n \in 0 .. Len(rest)
    BY <1>2, <2>1, SMT
  <2>3. Len(Drop(rest, n)) = Len(rest) - n
    BY <1>2, <2>2, FirstDrop
  <2>4. t' \in Nat /\ t' < t
    BY <1>2, <2>1, <2>3, SMT DEF ToCome
  <2> HIDE DEF t
  <2> QED BY <1>3, <1>4, <1>5, <2>4, SMT DEF ReaderShrinks
<1>8. CASE DeliverNothing
  <2>1. ReaderLeft' = 1
    BY <1>6, <1>8 DEF DeliverNothing
  <2> HIDE DEF t
  <2> QED BY <1>3, <1>4, <2>1, SMT DEF ReaderShrinks
<1>9. CASE Interrupt
  <2>1. /\ rest' = rest /\ interrupts' = interrupts + 1 /\ interrupts < MaxInterrupts
    BY <1>9 DEF Interrupt
  <2>2. t' \in Nat /\ t' < t
    BY <1>2, <2>1, SMT DEF ToCome
  <2> HIDE DEF t
  <2> QED BY <1>3, <1>4, <1>5, <2>2, SMT DEF ReaderShrinks
<1>10. CASE Fail
  <2>1. ReaderLeft' = 1
    BY <1>6, <1>10 DEF Fail
  <2> HIDE DEF t
  <2> QED BY <1>3, <1>4, <2>1, SMT DEF ReaderShrinks
<1> QED BY <1>7, <1>8, <1>9, <1>10 DEF Read

LEMMA MatchShrinks == Inv /\ Match => ReaderShrinks
<1> SUFFICES ASSUME Inv, Match PROVE ReaderShrinks
  OBVIOUS
<1>1. pc = "answered" /\ rest' = rest /\ interrupts' = interrupts
  BY DEF Match
<1>2. /\ rest \in Seq(Byte) /\ Len(rest) \in Nat /\ interrupts \in 0 .. MaxInterrupts
      /\ MaxInterrupts \in Nat
  BY LenProperties, ReaderAssumption DEF Inv, TypeOK
<1> DEFINE t == ToCome
<1>3. t \in Nat /\ t' = t
  BY <1>1, <1>2, SMT DEF ToCome
<1>4. CASE answer \in {Ok(0), Failed}
  <2>1. pc' = "returned"
    <3>1. /\ Ok(0) # Failed /\ Ok(0) # Interrupted /\ Failed # Interrupted
          /\ Failed.tag # "ok"
      BY AnswerTags
    <3> QED BY <1>4, <3>1 DEF Match, Return
  <2>2. ReaderLeft = 1 /\ ReaderLeft' = 0
    BY <1>1, <1>4, <2>1 DEF ReaderLeft
  <2> QED BY <2>2, SMT DEF ReaderShrinks
<1>5. CASE answer \notin {Ok(0), Failed}
  <2>1. pc' = "reading"
    <3>1. answer \in {None, Interrupted, Failed} \cup {Ok(n) : n \in 0 .. Len(buf)}
      BY DEF Inv, TypeOK
    <3>2. answer # None
      BY <1>1 DEF Inv
    <3>3. answer = Interrupted \/ (answer.tag = "ok" /\ answer # Ok(0) /\ answer # Interrupted)
      BY <1>5, <3>1, <3>2, AnswerTags
    <3> QED BY <1>5, <3>3, AnswerTags DEF Match, Goon
  <2>2. ReaderLeft = 2 * t + 3 /\ ReaderLeft' = 2 * t' + 2
    BY <1>1, <1>5, <2>1 DEF ReaderLeft
  <2> HIDE DEF t
  <2> QED BY <1>3, <2>2, SMT DEF ReaderShrinks
<1> QED BY <1>4, <1>5

InLoop == pc \in {"reading", "answered"}

(* While a call is in its loop, each step lowers a natural number: short   *)
(* reads and interruptions, in any pattern, do not keep it there.          *)
THEOREM ReaderLoopShrinks == Spec => [][InLoop => ReaderShrinks]_vars
<1>1. Inv /\ [Next]_vars => [InLoop => ReaderShrinks]_vars
  <2> SUFFICES ASSUME Inv, Next, InLoop PROVE ReaderShrinks
    OBVIOUS
  <2>1. Read \/ Match
    BY DEF InLoop, Next, DigestReader, EtagHexStreaming, Call
  <2> QED BY <2>1, ReadShrinks, MatchShrinks
<1> QED BY <1>1, SpecInv, PTL DEF Spec

(***************************************************************************)
(* Many streams: a call on a slice of streams extends or answers all of    *)
(* them, in order, or none, for every number of streams and of inputs.     *)
(***************************************************************************)
(* What a stream absorbed before the step that gave it c.                  *)
LEMMA FirstOfConcat ==
  ASSUME NEW m \in Seq(Byte), NEW c \in Seq(Byte)
  PROVE  /\ First(m \o c, Len(m \o c) - Len(c)) = m
         /\ Len(m \o c) - Len(c) = Len(m)
<1>1. Len(m) \in Nat /\ Len(c) \in Nat
  BY LenProperties
<1>2. /\ m \o c \in Seq(Byte) /\ Len(m \o c) = Len(m) + Len(c)
      /\ \A i \in 1 .. Len(m) + Len(c) :
           (m \o c)[i] = IF i <= Len(m) THEN m[i] ELSE c[i - Len(m)]
  BY ByteConcat
<1>3. Len(m \o c) - Len(c) = Len(m) /\ Len(m) \in 0 .. Len(m \o c)
  BY <1>1, <1>2, SMT
<1>4. /\ First(m \o c, Len(m)) \in Seq(Byte) /\ Len(First(m \o c, Len(m))) = Len(m)
      /\ \A i \in 1 .. Len(m) : First(m \o c, Len(m))[i] = (m \o c)[i]
  BY <1>2, <1>3, FirstDrop
<1>5. \A i \in 1 .. Len(m) : i \in 1 .. Len(m) + Len(c) /\ i <= Len(m)
  BY <1>1, SMT
<1>6. \A i \in 1 .. Len(m) : First(m \o c, Len(m))[i] = m[i]
  BY <1>2, <1>4, <1>5
<1>7. First(m \o c, Len(m)) = m
  BY <1>4, <1>6, SeqEqual
<1> QED BY <1>3, <1>7

(* The streams stay well-formed.                                           *)
Lanes ==
  /\ states \in [Stream -> Raw]
  /\ \A s \in Stream : WellFormed(states[s]) /\ states[s].state.seed = "iv"

(* The streams that the update_many in progress has passed have absorbed   *)
(* their input, after what they held when it began.                        *)
Extended ==
  \A s \in Stream :
    /\ Seen(s) \in Seq(Byte)
    /\ phase = "update" /\ s <= j => Message(states[s]) = Seen(s) \o inputs[s]

(* The slots that the finalize_many in progress has passed are filled.     *)
Answered ==
  slots = [q \in 1 .. Len(slots) |-> IF q <= j THEN Digest(states[q]) ELSE Untouched]

ManyInv ==
  /\ Lanes /\ Extended
  /\ phase \in {"idle", "update", "finalize"} /\ j \in 0 .. StreamCount
  /\ phase = "update" => inputs \in [Stream -> Chunks]
  /\ phase = "finalize" => Len(slots) \in Nat /\ Len(slots) >= StreamCount /\ Answered

LEMMA StreamFacts ==
  /\ StreamCount \in Nat /\ Stream = 1 .. StreamCount /\ Chunks \subseteq Seq(Byte)
  /\ \A s \in Stream : s \in Nat
BY ManyAssumption DEF Stream

LEMMA LaneFacts ==
  ASSUME Lanes, NEW s \in Stream
  PROVE  /\ states[s] \in Raw /\ WellFormed(states[s]) /\ states[s].state.seed = "iv"
         /\ Message(states[s]) \in Seq(Byte)
         /\ Digest(states[s]) = RfcDigest(Message(states[s]))
BY RawFields, DigestFacts DEF Lanes

(* Between and before the steps of update_many a stream shows what it has. *)
LEMMA SeenPlain ==
  ASSUME NEW s \in Stream, ~(phase = "update" /\ s <= j)
  PROVE  Seen(s) = Message(states[s])
BY DEF Seen

LEMMA SeenPlainNext ==
  ASSUME NEW s \in Stream, ~(phase' = "update" /\ s <= j')
  PROVE  Seen(s)' = Message(states'[s])
BY DEF Seen, Message, First

LEMMA ManyInitInv == ManyInit => ManyInv
<1> SUFFICES ASSUME ManyInit PROVE ManyInv
  OBVIOUS
<1>1. /\ states = [s \in Stream |-> Fresh] /\ phase = "idle" /\ j = 0
  BY DEF ManyInit
<1>2. Lanes
  BY <1>1, FreshFacts DEF Lanes
<1>3. Extended
  BY <1>1, <1>2, LaneFacts, SeenPlain DEF Extended
<1> QED BY <1>1, <1>2, <1>3, StreamFacts DEF ManyInv

(* What the beginnings and the ends of the calls leave alone.              *)
LEMMA LanesStep == ASSUME Lanes, states' = states PROVE Lanes'
BY DEF Lanes, WellFormed, Message, First

LEMMA ExtendedStep ==
  ASSUME Lanes', \A s \in Stream : ~(phase' = "update" /\ s <= j')
  PROVE  Extended'
<1>1. ASSUME NEW s \in Stream
      PROVE  Seen(s)' = Message(states'[s]) /\ Message(states'[s]) \in Seq(Byte)
  <2>1. states'[s] \in Raw
    BY DEF Lanes
  <2> QED BY <2>1, RawFields, SeenPlainNext
<1> QED BY <1>1 DEF Extended

LEMMA UpdateManyInv == ManyInv /\ UpdateMany => ManyInv'
<1> SUFFICES ASSUME ManyInv, UpdateMany PROVE ManyInv'
  OBVIOUS
<1>1. /\ phase = "idle" /\ UNCHANGED <<states, slots>> /\ j \in 0 .. StreamCount
      /\ \/ phase' = "update" /\ inputs' \in [Stream -> Chunks] /\ j' = 0
         \/ UNCHANGED <<phase, inputs, j>>
  BY StreamFacts DEF UpdateMany, ManyInv
<1>2. Lanes'
  BY <1>1, LanesStep DEF ManyInv
<1>3. \A s \in Stream : ~(phase' = "update" /\ s <= j')
  BY <1>1, StreamFacts
<1>4. Extended'
  BY <1>2, <1>3, ExtendedStep
<1> QED BY <1>1, <1>2, <1>4, StreamFacts DEF ManyInv

LEMMA UpdateNextFacts ==
  ASSUME ManyInv, UpdateNext
  PROVE  /\ phase = "update" /\ UNCHANGED <<phase, inputs, slots, outcome>>
         /\ j' = j + 1 /\ j + 1 \in Stream /\ j \in Nat
         /\ inputs \in [Stream -> Chunks] /\ inputs[j + 1] \in Seq(Byte)
         /\ states' = [states EXCEPT ![j + 1] = Absorb(states[j + 1], inputs[j + 1])]
<1>1. /\ phase = "update" /\ UNCHANGED <<phase, inputs, slots, outcome>> /\ j' = j + 1
      /\ states' = [states EXCEPT ![j + 1] = Absorb(states[j + 1], inputs[j + 1])]
      /\ j < Steps
  BY DEF UpdateNext
<1>2. j \in 0 .. StreamCount /\ inputs \in [Stream -> Chunks] /\ StreamCount \in Nat
  BY <1>1, StreamFacts DEF ManyInv
<1>3. Len(inputs) = StreamCount /\ Steps = StreamCount
  BY <1>1, <1>2 DEF Stream, Steps
<1>4. j + 1 \in Stream /\ j \in Nat
  BY <1>1, <1>2, <1>3 DEF Stream
<1> QED BY <1>1, <1>2, <1>4, StreamFacts

(* A stream keeps what it showed when update_many began. *)
LEMMA UpdateNextSeen ==
  ASSUME ManyInv, UpdateNext, NEW s \in Stream
  PROVE  /\ states'[s] \in Raw /\ WellFormed(states'[s]) /\ states'[s].state.seed = "iv"
         /\ Seen(s)' = Seen(s)
         /\ s <= j' => Message(states'[s]) = Seen(s) \o inputs[s]
<1>1. /\ phase = "update" /\ phase' = "update" /\ inputs' = inputs
      /\ j' = j + 1 /\ j + 1 \in Stream /\ j \in Nat
      /\ inputs \in [Stream -> Chunks] /\ inputs[j + 1] \in Seq(Byte)
      /\ states' = [states EXCEPT ![j + 1] = Absorb(states[j + 1], inputs[j + 1])]
  BY UpdateNextFacts
<1>2. /\ states[s] \in Raw /\ WellFormed(states[s]) /\ states[s].state.seed = "iv"
      /\ Message(states[s]) \in Seq(Byte) /\ states \in [Stream -> Raw]
  BY LaneFacts DEF ManyInv, Lanes
<1>3. CASE s = j + 1
  <2> DEFINE r == states[s]
             c == inputs[s]
             a == Absorb(r, c)
  <2>1. states'[s] = a /\ c \in Seq(Byte)
    BY <1>1, <1>2, <1>3
  <2>2. /\ a \in Raw /\ WellFormed(a) /\ a.state.seed = "iv"
        /\ Message(a) = Message(r) \o c
    BY <1>2, <2>1, AbsorbFacts
  <2> HIDE DEF a
  <2>3. Seen(s) = Message(r)
    <3>1. ~(s <= j)
      BY <1>1, <1>3
    <3> QED BY <3>1, SeenPlain
  <2>4. Seen(s)' = First(Message(a), Len(Message(a)) - Len(c))
    <3>1. s <= j'
      BY <1>1, <1>3
    <3>2. Seen(s)' = First(Message(states'[s]), Len(Message(states'[s])) - Len(inputs'[s]))
      BY <1>1, <3>1 DEF Seen, Message, First
    <3> QED BY <1>1, <2>1, <3>2
  <2>5. Seen(s)' = Message(r)
    BY <1>2, <2>1, <2>2, <2>4, FirstOfConcat
  <2> QED BY <2>1, <2>2, <2>3, <2>5
<1>4. CASE s # j + 1
  <2>1. states'[s] = states[s]
    BY <1>1, <1>2, <1>4
  <2>2. s <= j' <=> s <= j
    BY <1>1, <1>4, StreamFacts
  <2>3. Seen(s)' = Seen(s)
    <3>1. CASE s <= j
      <4>1. s <= j' /\ phase = "update" /\ phase' = "update"
        BY <1>1, <2>2, <3>1
      <4>2. Seen(s) = First(Message(states[s]), Len(Message(states[s])) - Len(inputs[s]))
        BY <3>1, <4>1 DEF Seen
      <4>3. Seen(s)' = First(Message(states'[s]), Len(Message(states'[s])) - Len(inputs'[s]))
        BY <4>1 DEF Seen, Message, First
      <4> QED BY <1>1, <2>1, <4>2, <4>3
    <3>2. CASE ~(s <= j)
      BY <2>1, <2>2, <3>2, SeenPlain, SeenPlainNext
    <3> QED BY <3>1, <3>2
  <2>4. s <= j => Message(states[s]) = Seen(s) \o inputs[s]
    BY <1>1 DEF ManyInv, Extended
  <2> QED BY <1>2, <2>1, <2>2, <2>3, <2>4
<1> QED BY <1>3, <1>4

LEMMA UpdateNextInv == ManyInv /\ UpdateNext => ManyInv'
<1> SUFFICES ASSUME ManyInv, UpdateNext PROVE ManyInv'
  OBVIOUS
<1>1. /\ phase = "update" /\ phase' = "update" /\ UNCHANGED <<inputs, slots>>
      /\ j' = j + 1 /\ j + 1 \in Stream /\ j \in Nat
      /\ inputs \in [Stream -> Chunks]
      /\ states' = [states EXCEPT ![j + 1] = Absorb(states[j + 1], inputs[j + 1])]
  BY UpdateNextFacts
<1>2. Lanes'
  <2>1. states' \in [Stream -> Raw]
    <3>1. states' = [s \in Stream |-> states'[s]]
      BY <1>1 DEF ManyInv, Lanes
    <3>2. \A s \in Stream : states'[s] \in Raw
      BY UpdateNextSeen
    <3> QED BY <3>1, <3>2
  <2> QED BY <2>1, UpdateNextSeen DEF Lanes
<1>3. Extended'
  <2>1. ASSUME NEW s \in Stream
        PROVE  /\ Seen(s)' \in Seq(Byte)
               /\ s <= j' => Message(states'[s]) = Seen(s)' \o inputs'[s]
    <3>1. Seen(s) \in Seq(Byte) /\ Seen(s)' = Seen(s)
      BY UpdateNextSeen DEF ManyInv, Extended
    <3> QED BY <1>1, <3>1, UpdateNextSeen
  <2> QED BY <2>1 DEF Extended
<1>4. j' \in 0 .. StreamCount
  BY <1>1, StreamFacts
<1> QED BY <1>1, <1>2, <1>3, <1>4 DEF ManyInv

LEMMA FinalizeManyInv == ManyInv /\ FinalizeMany => ManyInv'
<1> SUFFICES ASSUME ManyInv, FinalizeMany PROVE ManyInv'
  OBVIOUS
<1>1. /\ phase = "idle" /\ UNCHANGED <<states, inputs>> /\ j \in 0 .. StreamCount
  BY DEF FinalizeMany, ManyInv
<1>2. PICK n \in 0 .. StreamCount + 1 :
        \/ /\ n >= StreamCount /\ slots' = [q \in 1 .. n |-> Untouched]
           /\ phase' = "finalize" /\ j' = 0
        \/ UNCHANGED <<phase, slots, j>>
  BY DEF FinalizeMany
<1>3. n \in Nat /\ 0 \in 0 .. StreamCount
  BY StreamFacts
<1>4. Lanes'
  BY <1>1, LanesStep DEF ManyInv
<1>5. Extended'
  BY <1>1, <1>2, <1>4, ExtendedStep
<1>6. phase' = "finalize" => Len(slots') \in Nat /\ Len(slots') >= StreamCount /\ Answered'
  <2>1. ASSUME phase' = "finalize"
        PROVE  n >= StreamCount /\ slots' = [q \in 1 .. n |-> Untouched] /\ j' = 0
    BY <1>1, <1>2, <2>1
  <2>2. ASSUME phase' = "finalize" PROVE Len(slots') = n /\ Answered'
    <3>1. \A q \in 1 .. n : ~(q <= 0)
      BY <1>3
    <3>2. Len(slots') = n
      BY <1>3, <2>1, <2>2
    <3> QED BY <2>1, <2>2, <3>1, <3>2 DEF Answered
  <2> QED BY <1>3, <2>1, <2>2
<1> QED BY <1>1, <1>2, <1>3, <1>4, <1>5, <1>6 DEF ManyInv

LEMMA FinalizeNextFacts ==
  ASSUME ManyInv, FinalizeNext
  PROVE  /\ phase = "finalize" /\ UNCHANGED <<states, phase, inputs, outcome>>
         /\ j' = j + 1 /\ j + 1 \in Stream /\ j \in Nat
         /\ Len(slots) \in Nat /\ Len(slots) >= StreamCount /\ Answered
         /\ slots' = [slots EXCEPT ![j + 1] = Digest(states[j + 1])]
<1>1. /\ phase = "finalize" /\ UNCHANGED <<states, phase, inputs, outcome>> /\ j' = j + 1
      /\ slots' = [slots EXCEPT ![j + 1] = Digest(states[j + 1])]
      /\ j < Steps
  BY DEF FinalizeNext
<1>2. /\ j \in 0 .. StreamCount /\ StreamCount \in Nat
      /\ Len(slots) \in Nat /\ Len(slots) >= StreamCount /\ Answered
  BY <1>1, StreamFacts DEF ManyInv
<1>3. Steps = StreamCount
  BY <1>1, <1>2 DEF Steps
<1>4. j + 1 \in Stream /\ j \in Nat
  BY <1>1, <1>2, <1>3 DEF Stream
<1> QED BY <1>1, <1>2, <1>4

LEMMA FinalizeNextInv == ManyInv /\ FinalizeNext => ManyInv'
<1> SUFFICES ASSUME ManyInv, FinalizeNext PROVE ManyInv'
  OBVIOUS
<1>1. /\ phase = "finalize" /\ UNCHANGED <<states, phase, inputs>>
      /\ j' = j + 1 /\ j + 1 \in Stream /\ j \in Nat
      /\ Len(slots) \in Nat /\ Len(slots) >= StreamCount /\ Answered
      /\ slots' = [slots EXCEPT ![j + 1] = Digest(states[j + 1])]
  BY FinalizeNextFacts
<1>2. Lanes'
  BY <1>1, LanesStep DEF ManyInv
<1>3. Extended'
  BY <1>1, <1>2, ExtendedStep
<1>4. j + 1 \in 1 .. Len(slots) /\ j' \in 0 .. StreamCount
  BY <1>1, StreamFacts
<1>5. slots' = [q \in 1 .. Len(slots) |->
                  IF q <= j + 1 THEN Digest(states[q]) ELSE Untouched]
  <2>1. slots' = [q \in 1 .. Len(slots) |->
                    IF q = j + 1 THEN Digest(states[q])
                    ELSE IF q <= j THEN Digest(states[q]) ELSE Untouched]
    BY <1>1, <1>4 DEF Answered
  <2>2. \A q \in 1 .. Len(slots) : q <= j + 1 <=> q = j + 1 \/ q <= j
    BY <1>1
  <2> QED BY <2>1, <2>2
<1>6. Len(slots') = Len(slots)
  BY <1>1, <1>5
<1>7. Answered'
  BY <1>1, <1>5, <1>6 DEF Answered, Digest, FinalizeWith, First
<1> QED BY <1>1, <1>2, <1>3, <1>4, <1>6, <1>7 DEF ManyInv

LEMMA LoopDoneInv == ManyInv /\ LoopDone => ManyInv'
<1> SUFFICES ASSUME ManyInv, LoopDone PROVE ManyInv'
  OBVIOUS
<1>1. phase' = "idle" /\ j' = 0 /\ states' = states
  BY DEF LoopDone
<1>2. Lanes'
  BY <1>1, LanesStep DEF ManyInv
<1>3. Extended'
  BY <1>1, <1>2, ExtendedStep
<1> QED BY <1>1, <1>2, <1>3, StreamFacts DEF ManyInv

LEMMA SingleInv ==
  ASSUME ManyInv, NEW s \in Stream, NEW r \in Raw, WellFormed(r), r.state.seed = "iv",
         Single(s, r)
  PROVE  ManyInv'
<1>1. /\ phase = "idle" /\ UNCHANGED <<phase, inputs, slots, j>>
      /\ states' = [states EXCEPT ![s] = r] /\ states \in [Stream -> Raw]
  BY DEF Single, ManyInv, Lanes
<1>2. Lanes'
  <2>1. states' \in [Stream -> Raw]
    BY <1>1
  <2>2. ASSUME NEW q \in Stream
        PROVE  WellFormed(states'[q]) /\ states'[q].state.seed = "iv"
    <3>1. states'[q] = r \/ states'[q] = states[q]
      BY <1>1
    <3> QED BY <3>1, LaneFacts DEF ManyInv
  <2> QED BY <2>1, <2>2 DEF Lanes
<1>3. Extended'
  BY <1>1, <1>2, ExtendedStep
<1> QED BY <1>1, <1>2, <1>3 DEF ManyInv

(* What the calls on one stream make of it. *)
LEMMA SingleCalls ==
  ASSUME ManyInv, NEW s \in Stream
  PROVE  /\ Update(s) => \E c \in Chunks :
              /\ c \in Seq(Byte) /\ Single(s, Absorb(states[s], c))
              /\ Absorb(states[s], c) \in Raw /\ WellFormed(Absorb(states[s], c))
              /\ Absorb(states[s], c).state.seed = "iv"
              /\ Message(Absorb(states[s], c)) = Message(states[s]) \o c
         /\ Reset(s) => Single(s, Fresh)
         /\ \A t \in Stream : Copy(s, t) => Single(t, states[s])
<1>1. states[s] \in Raw /\ WellFormed(states[s]) /\ states[s].state.seed = "iv"
  BY LaneFacts DEF ManyInv
<1>2. ASSUME Update(s)
      PROVE  \E c \in Chunks :
               /\ c \in Seq(Byte) /\ Single(s, Absorb(states[s], c))
               /\ Absorb(states[s], c) \in Raw /\ WellFormed(Absorb(states[s], c))
               /\ Absorb(states[s], c).state.seed = "iv"
               /\ Message(Absorb(states[s], c)) = Message(states[s]) \o c
  <2>1. PICK c \in Chunks : Single(s, Absorb(states[s], c))
    BY <1>2 DEF Update
  <2>2. c \in Seq(Byte)
    BY StreamFacts
  <2> QED BY <1>1, <2>1, <2>2, AbsorbFacts
<1> QED BY <1>2 DEF Reset, Copy

LEMMA ManyNextInv == ManyInv /\ [ManyNext]_manyVars => ManyInv'
<1> SUFFICES ASSUME ManyInv, [ManyNext]_manyVars PROVE ManyInv'
  OBVIOUS
<1>1. CASE UNCHANGED manyVars
  <2>1. UNCHANGED <<states, phase, inputs, slots, j>>
    BY <1>1 DEF manyVars
  <2>2. Lanes'
    BY <2>1, LanesStep DEF ManyInv
  <2>3. Extended'
    BY <2>1 DEF ManyInv, Extended, Seen, Message, First
  <2>4. Answered => Answered'
    BY <2>1 DEF Answered, Digest, FinalizeWith, First
  <2> QED BY <2>1, <2>2, <2>3, <2>4 DEF ManyInv
<1>2. ASSUME NEW s \in Stream, Update(s) \/ Reset(s) \/ \E t \in Stream : Copy(s, t)
      PROVE  ManyInv'
  <2>1. CASE Update(s)
    <3>1. PICK c \in Chunks :
              /\ Single(s, Absorb(states[s], c))
              /\ Absorb(states[s], c) \in Raw /\ WellFormed(Absorb(states[s], c))
              /\ Absorb(states[s], c).state.seed = "iv"
      BY <2>1, SingleCalls
    <3> QED BY <3>1, SingleInv
  <2>2. CASE Reset(s)
    BY <2>2, SingleCalls, SingleInv, FreshFacts
  <2>3. ASSUME NEW t \in Stream, Copy(s, t) PROVE ManyInv'
    <3>1. Single(t, states[s])
      BY <2>3, SingleCalls
    <3>2. states[s] \in Raw /\ WellFormed(states[s]) /\ states[s].state.seed = "iv"
      BY LaneFacts DEF ManyInv
    <3> QED BY <3>1, <3>2, SingleInv
  <2> QED BY <1>2, <2>1, <2>2, <2>3
<1> QED
  BY <1>1, <1>2, UpdateManyInv, UpdateNextInv, FinalizeManyInv, FinalizeNextInv,
     LoopDoneInv DEF ManyNext

LEMMA ManySpecInv == ManySpec => []ManyInv
BY ManyInitInv, ManyNextInv, PTL DEF ManySpec

(* Every stream is a well-formed Raw, also in the middle of a loop.        *)
THEOREM ManyTypeCorrect == ManySpec => []ManyTypeOK
<1>1. ManyInv => ManyTypeOK
  BY DEF ManyInv, ManyTypeOK, Lanes
<1> QED BY <1>1, ManySpecInv, PTL

(* bytes_hashed and is_empty say what was absorbed, up to the width of the *)
(* counter.                                                                *)
THEOREM AlwaysQueriesExact == ManySpec => []QueriesExact
<1>1. ManyInv => QueriesExact
  <2> SUFFICES ASSUME ManyInv, NEW s \in Stream
               PROVE  /\ Len(Message(states[s])) < CountMod =>
                           /\ BytesHashed(states[s]) = Len(Message(states[s]))
                           /\ IsEmpty(states[s]) <=> Len(Message(states[s])) = 0
                      /\ IsEmpty(states[s]) => Len(Message(states[s])) % CountMod = 0
    BY DEF QueriesExact
  <2> DEFINE absorbed == Len(Message(states[s]))
  <2>1. absorbed \in Nat /\ states[s].count = absorbed % CountMod
    BY LaneFacts, LenProperties DEF ManyInv, WellFormed
  <2> HIDE DEF absorbed
  <2>2. absorbed < CountMod => states[s].count = absorbed
    <3>1. absorbed < CountMod => absorbed \in 0 .. CountMod - 1 /\ CountMod \in Nat \ {0}
      BY <2>1, SizeAssumption, SMT
    <3> QED BY <2>1, <3>1, ModSmall
  <2> QED BY <2>1, <2>2 DEF BytesHashed, IsEmpty, absorbed
<1> QED BY <1>1, ManySpecInv, PTL

(* What the calls show of the streams, between the calls.                  *)
LEMMA SeenIdle ==
  ASSUME NEW s \in Stream, phase # "update"
  PROVE  Seen(s) = Message(states[s])
BY SeenPlain

LEMMA SeenIdleNext ==
  ASSUME NEW s \in Stream, phase' # "update" \/ j' = 0
  PROVE  Seen(s)' = Message(states'[s])
<1>1. ~(phase' = "update" /\ s <= j')
  BY StreamFacts
<1> QED BY <1>1, SeenPlainNext

(* The beginning of a call shows nothing, or the panic.                    *)
LEMMA UpdateManyShows ==
  ASSUME ManyInv, UpdateMany PROVE Many!Quiet \/ Many!Panic
<1>1. /\ phase = "idle" /\ states' = states
      /\ phase' # "update" \/ j' = 0
      /\ \/ outcome' = NoResult
         \/ \E n \in 0 .. StreamCount + 1 :
              n # StreamCount /\ outcome' = Outcome("update", n, TRUE, << >>)
  BY DEF UpdateMany
<1>2. [s \in Stream |-> Seen(s)]' = [s \in Stream |-> Seen(s)]
  BY <1>1, SeenIdle, SeenIdleNext
<1>3. CASE outcome' = NoResult
  BY <1>2, <1>3 DEF Many!Quiet, NoResult, Outcome, Many!NoResult, Many!Outcome
<1>4. ASSUME NEW n \in 0 .. StreamCount + 1, n # StreamCount,
             outcome' = Outcome("update", n, TRUE, << >>)
      PROVE  Many!Panic
  BY <1>2, <1>4 DEF Many!Panic, Outcome, Many!Outcome
<1> QED BY <1>1, <1>3, <1>4

LEMMA FinalizeManyShows ==
  ASSUME ManyInv, FinalizeMany PROVE Many!Quiet \/ Many!Panic
<1>1. /\ phase = "idle" /\ states' = states /\ phase' # "update"
      /\ \/ outcome' = NoResult
         \/ \E n \in 0 .. StreamCount + 1 :
              ~(n >= StreamCount) /\ outcome' = Outcome("finalize", n, TRUE, << >>)
  BY DEF FinalizeMany
<1>2. [s \in Stream |-> Seen(s)]' = [s \in Stream |-> Seen(s)]
  BY <1>1, SeenIdle, SeenIdleNext
<1>3. CASE outcome' = NoResult
  BY <1>2, <1>3 DEF Many!Quiet, NoResult, Outcome, Many!NoResult, Many!Outcome
<1>4. ASSUME NEW n \in 0 .. StreamCount + 1, ~(n >= StreamCount),
             outcome' = Outcome("finalize", n, TRUE, << >>)
      PROVE  Many!Panic
  <2>1. n < StreamCount
    BY <1>4, StreamFacts
  <2> QED BY <1>2, <1>4, <2>1 DEF Many!Panic, Outcome, Many!Outcome
<1> QED BY <1>1, <1>3, <1>4

(* The loops show nothing while they run, although the streams change.     *)
LEMMA LoopsShow ==
  ASSUME ManyInv, UpdateNext \/ FinalizeNext PROVE UNCHANGED Many!vars
<1>1. CASE UpdateNext
  BY <1>1, UpdateNextSeen, UpdateNextFacts DEF Many!vars
<1>2. CASE FinalizeNext
  <2>1. states' = states /\ phase = "finalize" /\ phase' = phase /\ outcome' = outcome
    BY <1>2, FinalizeNextFacts
  <2>2. [s \in Stream |-> Seen(s)]' = [s \in Stream |-> Seen(s)]
    BY <2>1, SeenIdle, SeenIdleNext
  <2> QED BY <2>1, <2>2 DEF Many!vars
<1> QED BY <1>1, <1>2

(* The abstract specification speaks of the same digests. *)
LEMMA ManySameDigests == \A m : Many!RfcDigest(m) = RfcDigest(m)
<1>1. \A m : Many!RfcPadded(m) = RfcPadded(m)
  BY DEF Many!RfcPadded, Many!PaddedLen, Many!IsPaddedLen,
         Many!BitLen, Many!Mark, Many!LeByte,
         RfcPadded, PaddedLen, IsPaddedLen, BitLen, Mark, LeByte
<1> QED
  BY <1>1 DEF Many!RfcDigest, Many!StateToBytes, Many!CompressBlocks, Many!IV,
              RfcDigest, StateToBytes, CompressBlocks, IV

(* The end of a loop shows all of its effect.                              *)
LEMMA LoopDoneShows ==
  ASSUME ManyInv, LoopDone PROVE Many!UpdateMany \/ Many!FinalizeMany
<1>1. /\ phase \in {"update", "finalize"} /\ j = Steps /\ phase' = "idle"
      /\ states' = states /\ StreamCount \in Nat
  BY StreamFacts DEF ManyInv, LoopDone
<1>2. \A s \in Stream : Seen(s)' = Message(states[s])
  BY <1>1, SeenIdleNext
<1>3. CASE phase = "update"
  <2>1. inputs \in [Stream -> Chunks] /\ Len(inputs) = StreamCount
    BY <1>1, <1>3 DEF ManyInv, Stream
  <2>2. j = StreamCount
    BY <1>1, <1>3, <2>1 DEF Steps
  <2>3. \A s \in Stream : Seen(s)' = Seen(s) \o inputs[s]
    BY <1>1, <1>2, <1>3, <2>2, StreamFacts DEF ManyInv, Extended, Stream
  <2>4. outcome' = Outcome("update", StreamCount, FALSE, << >>)
    BY <1>3, <2>1 DEF LoopDone
  <2>5. Many!Stream = Stream
    BY DEF Many!Stream, Stream
  <2>6. [s \in Stream |-> Seen(s)]' = [s \in Stream |-> Seen(s) \o inputs[s]]
    BY <2>3
  <2>7. [s \in Stream |-> Seen(s)]' =
          [s \in Stream |-> [q \in Stream |-> Seen(q)][s] \o inputs[s]]
    BY <2>6
  <2>8. Many!UpdateMany
    BY <2>1, <2>4, <2>5, <2>7 DEF Many!UpdateMany, Outcome, Many!Outcome
  <2> QED BY <2>8
<1>4. CASE phase = "finalize"
  <2>1. /\ Len(slots) \in Nat /\ Len(slots) >= StreamCount /\ Answered
        /\ outcome' = Outcome("finalize", Len(slots), FALSE, slots)
    BY <1>4 DEF ManyInv, LoopDone
  <2>2. j = StreamCount
    BY <1>1, <1>4, <2>1 DEF Steps
  <2>3. \A q \in 1 .. Len(slots) : q <= j <=> q \in Stream
    BY <1>1, <2>1, <2>2 DEF Stream
  <2>4. \A q \in Stream : Digest(states[q]) = RfcDigest(Seen(q))
    BY <1>4, SeenIdle, LaneFacts DEF ManyInv
  <2>5. slots = [q \in 1 .. Len(slots) |->
                   IF q \in Stream THEN RfcDigest([s \in Stream |-> Seen(s)][q])
                   ELSE Untouched]
    BY <2>1, <2>3, <2>4 DEF Answered
  <2>6. [s \in Stream |-> Seen(s)]' = [s \in Stream |-> Seen(s)]
    BY <1>2, <1>4, SeenIdle
  <2>7. /\ outcome'.given = Len(slots) /\ Many!Stream = Stream
        /\ outcome' = Many!Outcome("finalize", Len(slots), FALSE, slots)
    BY <2>1 DEF Outcome, Many!Outcome, Many!Stream, Stream
  <2>8. outcome' = Many!Outcome("finalize", outcome'.given, FALSE,
                     [q \in 1 .. outcome'.given |->
                        IF q \in Many!Stream
                        THEN Many!RfcDigest([s \in Stream |-> Seen(s)][q])
                        ELSE Untouched])
    BY <2>5, <2>7, ManySameDigests
  <2>9. outcome'.given >= StreamCount
    BY <2>1, <2>7
  <2>10. Many!FinalizeMany
    BY <2>6, <2>8, <2>9 DEF Many!FinalizeMany
  <2> QED BY <2>10
<1> QED BY <1>1, <1>3, <1>4

(* A call on one stream is that call on its message.                       *)
LEMMA SingleShows ==
  ASSUME ManyInv, NEW s \in Stream, NEW r, Single(s, r)
  PROVE  /\ outcome' = Many!NoResult
         /\ [q \in Stream |-> Seen(q)]' =
              [[q \in Stream |-> Seen(q)] EXCEPT ![s] = Message(r)]
<1>1. /\ phase = "idle" /\ phase' = "idle" /\ outcome' = NoResult
      /\ states' = [states EXCEPT ![s] = r] /\ states \in [Stream -> Raw]
  BY DEF Single, ManyInv, Lanes
<1>2. ASSUME NEW q \in Stream
      PROVE  Seen(q)' = IF q = s THEN Message(r) ELSE Seen(q)
  <2>1. Seen(q)' = Message(states'[q]) /\ Seen(q) = Message(states[q])
    BY <1>1, SeenIdle, SeenIdleNext
  <2> QED BY <1>1, <2>1
<1>3. outcome' = Many!NoResult
  BY <1>1 DEF NoResult, Outcome, Many!NoResult, Many!Outcome
<1> QED BY <1>2, <1>3

LEMMA SingleCallsShow ==
  ASSUME ManyInv, NEW s \in Stream, Update(s) \/ Reset(s) \/ \E t \in Stream : Copy(s, t)
  PROVE  Many!Quiet
<1> DEFINE msg == [q \in Stream |-> Seen(q)]
<1>1. Many!Stream = Stream
  BY DEF Many!Stream, Stream
<1>2. msg[s] = Message(states[s])
  <2>1. phase # "update"
    BY DEF Update, Reset, Copy, Single
  <2> QED BY <2>1, SeenIdle
<1>3. CASE Update(s)
  <2>1. PICK c \in Chunks :
          /\ Single(s, Absorb(states[s], c))
          /\ Message(Absorb(states[s], c)) = Message(states[s]) \o c
    BY <1>3, SingleCalls
  <2>2. outcome' = Many!NoResult /\ msg' = [msg EXCEPT ![s] = msg[s] \o c]
    <3> DEFINE a == Absorb(states[s], c)
    <3>1. Single(s, a) /\ Message(a) = msg[s] \o c
      BY <1>2, <2>1
    <3> HIDE DEF a
    <3>2. outcome' = Many!NoResult /\ msg' = [msg EXCEPT ![s] = Message(a)]
      BY <3>1, SingleShows
    <3> QED BY <3>1, <3>2
  <2>3. Many!Update(s)
    BY <2>2 DEF Many!Update
  <2> QED BY <1>1, <2>2, <2>3 DEF Many!Quiet
<1>4. CASE Reset(s)
  <2>1. Message(Fresh) = << >>
    BY FreshFacts
  <2>2. outcome' = Many!NoResult /\ msg' = [msg EXCEPT ![s] = << >>]
    BY <1>4, <2>1, SingleCalls, SingleShows
  <2>3. Many!Reset(s)
    BY <2>2 DEF Many!Reset
  <2> QED BY <1>1, <2>2, <2>3 DEF Many!Quiet
<1>5. ASSUME NEW t \in Stream, Copy(s, t) PROVE Many!Quiet
  <2>1. Single(t, states[s])
    BY <1>5, SingleCalls
  <2>2. outcome' = Many!NoResult /\ msg' = [msg EXCEPT ![t] = msg[s]]
    BY <1>2, <2>1, SingleShows
  <2>3. Many!Copy(s, t)
    BY <2>2 DEF Many!Copy
  <2> QED BY <1>1, <2>2, <2>3 DEF Many!Quiet
<1> QED BY <1>3, <1>4, <1>5

LEMMA ManyStepShows == ManyInv /\ [ManyNext]_manyVars => [Many!Next]_(Many!vars)
<1> SUFFICES ASSUME ManyInv, [ManyNext]_manyVars PROVE [Many!Next]_(Many!vars)
  OBVIOUS
<1>1. CASE UNCHANGED manyVars
  BY <1>1 DEF manyVars, Many!vars, Seen, Message, First
<1>2. CASE UpdateMany
  BY <1>2, UpdateManyShows DEF Many!Next
<1>3. CASE FinalizeMany
  BY <1>3, FinalizeManyShows DEF Many!Next
<1>4. CASE UpdateNext \/ FinalizeNext
  BY <1>4, LoopsShow
<1>5. CASE LoopDone
  BY <1>5, LoopDoneShows DEF Many!Next
<1>6. ASSUME NEW s \in Stream, Update(s) \/ Reset(s) \/ \E t \in Stream : Copy(s, t)
      PROVE  Many!Next
  BY <1>6, SingleCallsShow DEF Many!Next
<1> QED BY <1>1, <1>2, <1>3, <1>4, <1>5, <1>6 DEF ManyNext

LEMMA ManyInitShows == ManyInit => Many!Init
<1> SUFFICES ASSUME ManyInit PROVE Many!Init
  OBVIOUS
<1>1. ASSUME NEW s \in Stream PROVE Seen(s) = << >>
  <2>1. states[s] = Fresh /\ phase # "update"
    BY DEF ManyInit
  <2> QED BY <2>1, SeenIdle, FreshFacts
<1>2. outcome = Many!NoResult /\ Many!Stream = Stream
  BY DEF ManyInit, NoResult, Outcome, Many!NoResult, Many!Outcome, Many!Stream, Stream
<1>3. [s \in Stream |-> Seen(s)] = [s \in Stream |-> << >>]
  BY <1>1
<1> QED BY <1>2, <1>3 DEF Many!Init

(* update_many extends every stream or none, finalize_many answers every   *)
(* stream in order or none, for every number of streams.                   *)
THEOREM ManyRefinement == ManySpec => ImplementsManyDigests
BY ManyInitShows, ManySpecInv, ManyStepShows, PTL
   DEF ManySpec, ImplementsManyDigests, Many!Spec

(***************************************************************************)
(* The pure functions: one-shot hashing and hexadecimal output.            *)
(***************************************************************************)
(* Induction over the naturals, through their least elements.              *)
LEMMA LeastNat ==
  ASSUME NEW T, T \subseteq Nat, T # {}
  PROVE  \E x \in T : \A y \in T : x <= y
<1> DEFINE R == {p \in Nat \X Nat : p[1] < p[2]}
<1>1. IsWellFoundedOn(R, Nat)
  BY NatLessThanWellFounded, Zenon DEF OpToRel
<1>2. \A a, b \in Nat : <<a, b>> \in R <=> a < b
  OBVIOUS
<1> HIDE DEF R
<1>3. PICK x \in T : \A y \in T : ~(<<y, x>> \in R)
  BY <1>1, WFMin, Zenon
<1>4. \A y \in T : ~(y < x)
  BY <1>2, <1>3
<1> QED BY <1>4

(* The first t blocks are the first t - 1 and the t-th.                    *)
LEMMA BlockAdjoins ==
  ASSUME NEW x \in Seq(Byte), NEW t \in Nat \ {0}, t * BlockSize <= Len(x)
  PROVE  /\ First(x, (t - 1) * BlockSize) \o Block(x, t) = First(x, t * BlockSize)
         /\ First(x, (t - 1) * BlockSize) \in Seq(Byte) /\ Block(x, t) \in Seq(Byte)
<1> DEFINE lo == (t - 1) * BlockSize
           hi == t * BlockSize
<1>1. lo \in Nat /\ hi \in Nat /\ lo <= hi /\ Len(x) \in Nat
  <2>1. hi = lo + BlockSize
    BY SizeAssumption, SMT
  <2>2. (t - 1) * BlockSize \in Nat
    BY SizeAssumption, SMT
  <2> QED BY <2>1, <2>2, SizeAssumption, LenProperties, SMT
<1>2. hi <= Len(x)
  OBVIOUS
<1>3. First(x, lo) = SubSeq(x, 1, lo) /\ First(x, hi) = SubSeq(x, 1, hi)
      /\ Block(x, t) = SubSeq(x, lo + 1, hi)
  BY DEF First, Block
<1> HIDE DEF lo, hi
<1>4. 1 \in 1 .. Len(x) + 1 /\ lo \in 1 - 1 .. Len(x) /\ hi \in lo .. Len(x)
  BY <1>1, <1>2, SMT
<1>5. SubSeq(x, 1, lo) \o SubSeq(x, lo + 1, hi) = SubSeq(x, 1, hi)
  BY <1>4, ConcatAdjacentSubSeq
<1>6. \A p \in 1 .. Len(x) : x[p] \in Byte
  BY ElementOfSeq
<1>7. SubSeq(x, lo + 1, hi) \in Seq(Byte) /\ SubSeq(x, 1, lo) \in Seq(Byte)
  <2>1. \A p \in lo + 1 .. hi : x[p] \in Byte
    BY <1>1, <1>2, <1>6, SMT
  <2>2. \A p \in 1 .. lo : x[p] \in Byte
    BY <1>1, <1>2, <1>6, SMT
  <2>3. lo + 1 \in Int /\ hi \in Int /\ lo \in Int
    BY <1>1, SMT
  <2> QED BY <2>1, <2>2, <2>3, SubSeqProperties, <1>1, <1>2, <1>4, SMT
<1> QED BY <1>3, <1>5, <1>7 DEF lo, hi

(* Absorbing a block after others.                                         *)
LEMMA CompressMore ==
  ASSUME NEW st \in Chain, NEW x \in Seq(Byte), NEW y \in Seq(Byte)
  PROVE  /\ CompressBlocks(CompressBlocks(st, x), y) = CompressBlocks(st, x \o y)
         /\ CompressBlocks(st, << >>) = st
         /\ CompressBlocks(st, x) \in Chain
<1>1. st = [seed |-> st.seed, data |-> st.data] /\ st.data \in Seq(Byte)
  BY DEF Chain
<1>2. (st.data \o x) \o y = st.data \o (x \o y)
  BY <1>1, ByteAssociative
<1>3. st.data \o << >> = st.data /\ st.data \o x \in Seq(Byte)
  BY <1>1, ByteConcat
<1> QED BY <1>1, <1>2, <1>3 DEF CompressBlocks, Chain

(* In step, each of the two states absorbs the first n blocks of its own   *)
(* bytes.                                                                  *)
LEMMA PairsAbsorb ==
  ASSUME NEW st, st[1] \in Chain, st[2] \in Chain,
         NEW x \in Seq(Byte), NEW y \in Seq(Byte), NEW n \in Nat,
         n * BlockSize <= Len(x), n * BlockSize <= Len(y)
  PROVE  /\ CompressPairs(st, x, y, n)[1] = CompressBlocks(st[1], First(x, n * BlockSize))
         /\ CompressPairs(st, x, y, n)[2] = CompressBlocks(st[2], First(y, n * BlockSize))
<1> DEFINE z(lane) == IF lane = 1 THEN x ELSE y
           Took(lane, t) == CompressBlocks(st[lane], First(z(lane), t * BlockSize))
           blocks(t) == <<Block(x, t), Block(y, t)>>
           Rec(f) == f = [t \in 0 .. n |->
             IF t = 0 THEN st ELSE CompressPair(f[t - 1], blocks(t))]
           g == [t \in 0 .. n |-> IF t = 0 THEN st ELSE [lane \in 1 .. 2 |-> Took(lane, t)]]
<1>1. ASSUME NEW t \in 1 .. n, NEW lane \in 1 .. 2
      PROVE  CompressBlocks(Took(lane, t - 1), blocks(t)[lane]) = Took(lane, t)
  <2>1. /\ t \in Nat \ {0} /\ z(lane) \in Seq(Byte) /\ n * BlockSize <= Len(z(lane))
        /\ st[lane] \in Chain /\ blocks(t)[lane] = Block(z(lane), t)
    BY SMT
  <2>2. t * BlockSize <= n * BlockSize /\ n * BlockSize \in Nat /\ t * BlockSize \in Nat
    BY SizeAssumption, SMT
  <2>3. t * BlockSize <= Len(z(lane))
    <3>1. Len(z(lane)) \in Nat
      BY <2>1, LenProperties
    <3> DEFINE u == Len(z(lane))
    <3>2. u \in Nat /\ n * BlockSize <= u
      BY <2>1, <3>1
    <3> HIDE DEF u, z
    <3>3. t * BlockSize <= u
      BY <2>2, <3>2, SMT
    <3> QED BY <3>3 DEF u
  <2> HIDE DEF z, blocks
  <2>4. /\ First(z(lane), (t - 1) * BlockSize) \o Block(z(lane), t) = First(z(lane), t * BlockSize)
        /\ First(z(lane), (t - 1) * BlockSize) \in Seq(Byte) /\ Block(z(lane), t) \in Seq(Byte)
    BY <2>1, <2>3, BlockAdjoins
  <2>5. /\ Took(lane, t - 1) = CompressBlocks(st[lane], First(z(lane), (t - 1) * BlockSize))
        /\ Took(lane, t) = CompressBlocks(st[lane], First(z(lane), t * BlockSize))
    OBVIOUS
  <2> DEFINE p == First(z(lane), (t - 1) * BlockSize)
             w == First(z(lane), t * BlockSize)
             d == Block(z(lane), t)
             c == st[lane]
  <2>6. p \o d = w /\ p \in Seq(Byte) /\ d \in Seq(Byte) /\ c \in Chain
    BY <2>1, <2>4
  <2> HIDE DEF p, w, d, c, Took
  <2>7. CompressBlocks(CompressBlocks(c, p), d) = CompressBlocks(c, p \o d)
    BY <2>6, CompressMore
  <2> QED BY <2>1, <2>5, <2>6, <2>7 DEF p, w, d, c
<1>2. ASSUME NEW lane \in 1 .. 2 PROVE st[lane] = Took(lane, 0)
  <2>1. 0 * BlockSize = 0 /\ st[lane] \in Chain /\ z(lane) \in Seq(Byte)
    BY SizeAssumption, SMT
  <2>2. First(z(lane), 0) = << >> /\ << >> \in Seq(Byte)
    BY <2>1, NoBytes
  <2> QED BY <2>1, <2>2, CompressMore
<1> HIDE DEF Took, blocks
(* Functions that obey the recursion exist, so the one defined does.       *)
<1>3. Rec(g)
  <2>1. ASSUME NEW t \in 1 .. n
        PROVE  g[t] = CompressPair(g[t - 1], blocks(t))
    <3>1. t - 1 \in 0 .. n /\ t \in 0 .. n /\ t # 0 /\ (t - 1 # 0 => t - 1 \in 1 .. n)
      OBVIOUS
    <3>2. \A lane \in 1 .. 2 : g[t - 1][lane] = Took(lane, t - 1)
      BY <1>2, <3>1
    <3>3. CompressPair(g[t - 1], blocks(t)) = [lane \in 1 .. 2 |-> Took(lane, t)]
      BY <1>1, <3>2 DEF CompressPair
    <3> QED BY <3>1, <3>3
  <2>2. \A t \in 0 .. n : t # 0 => t \in 1 .. n
    OBVIOUS
  <2>3. \A t \in 0 .. n : g[t] = IF t = 0 THEN st ELSE CompressPair(g[t - 1], blocks(t))
    BY <2>1, <2>2
  <2>4. g = [t \in 0 .. n |-> g[t]]
    OBVIOUS
  <2> HIDE DEF g
  <2> QED BY <2>3, <2>4, Zenon
<1> DEFINE f == CHOOSE h : Rec(h)
<1>4. Rec(f)
  BY <1>3
<1>5. CompressPairs(st, x, y, n) = f[n]
  BY DEF CompressPairs, blocks
<1> HIDE DEF f, g
<1>6. \A t \in 0 .. n : f[t] = IF t = 0 THEN st ELSE CompressPair(f[t - 1], blocks(t))
  BY <1>4, Zenon
<1> DEFINE Bad == {t \in 0 .. n : \E lane \in 1 .. 2 : f[t][lane] # Took(lane, t)}
<1>7. Bad = {}
  <2>1. SUFFICES ASSUME Bad # {} PROVE FALSE
    OBVIOUS
  <2>2. Bad \subseteq Nat
    OBVIOUS
  <2> HIDE DEF Bad
  <2>3. PICK t \in Bad : \A u \in Bad : t <= u
    BY <2>1, <2>2, LeastNat
  <2>4. PICK lane \in 1 .. 2 : f[t][lane] # Took(lane, t)
    BY <2>3 DEF Bad
  <2>5. t \in 0 .. n /\ t # 0
    <3>1. t \in 0 .. n
      BY <2>3 DEF Bad
    <3> QED BY <1>2, <1>6, <2>4, <3>1
  <2>6. t \in 1 .. n /\ t - 1 \in 0 .. n /\ t - 1 \notin Bad
    BY <2>2, <2>3, <2>5
  <2>7. f[t - 1][lane] = Took(lane, t - 1)
    BY <2>6 DEF Bad
  <2>8. f[t][lane] = CompressBlocks(f[t - 1][lane], blocks(t)[lane])
    BY <1>6, <2>5 DEF CompressPair
  <2> QED BY <1>1, <2>4, <2>6, <2>7, <2>8
<1>8. f[n][1] = Took(1, n) /\ f[n][2] = Took(2, n)
  <2>1. n \in 0 .. n /\ n \notin Bad
    BY <1>7
  <2> QED BY <2>1
<1> QED BY <1>5, <1>8 DEF Took

(* hash_pair hashes each of two messages as if it were alone, whatever     *)
(* their bytes and lengths and in every build: the lanes stay apart, and   *)
(* the number of final blocks of the first is that of the second.          *)
THEOREM HashPairCorrect ==
  ASSUME NEW a \in Seq(Byte), NEW b \in Seq(Byte),
         NEW active \in BOOLEAN, NEW hasOpt \in BOOLEAN
  PROVE  HashPair(a, b, active, hasOpt) = <<RfcDigest(a), RfcDigest(b)>>
<1>1. CASE ~active \/ Len(a) # Len(b)
  <2>1. Hash(a, hasOpt) = RfcDigest(a) /\ Hash(b, hasOpt) = RfcDigest(b)
    BY HashCorrect
  <2> QED BY <1>1, <2>1 DEF HashPair
<1>2. CASE active /\ Len(a) = Len(b)
  <2> DEFINE len == Len(a)
             full == FullLen(len)
             n == len \div BlockSize
             fb(m) == FinalBlocks(len % CountMod, Drop(m, full))
             u == Len(fb(a)) \div BlockSize
             body == CompressPairs(<<IV, IV>>, a, b, n)
             last == CompressPairs(body, fb(a), fb(b), u)
  <2>1. len \in Nat /\ Len(a) = len /\ Len(b) = len /\ BlockSize \in Nat \ {0}
    BY <1>2, LenProperties, SizeAssumption, SMT
  <2>2. n \in Nat /\ n * BlockSize = full /\ full \in 0 .. len /\ len - full \in 0 .. BlockSize - 1
    <3>1. full \in 0 .. len /\ len - full \in 0 .. BlockSize - 1
      BY <2>1, FullLenFacts
    <3>2. n \in Int /\ len = BlockSize * n + (len % BlockSize)
      BY <2>1, DivMod, SMT
    <3>3. full = len - (len % BlockSize) /\ len % BlockSize \in Int
      BY <2>1, DivMod, SMT DEF FullLen
    <3>4. n * BlockSize = full
      BY <2>1, <3>2, <3>3, SMT
    <3>5. n >= 0
      <4>1. len \in Nat /\ BlockSize \in Nat \ {0}
        BY <2>1
      <4> HIDE DEF len
      <4> QED BY <4>1, SMT
    <3> QED BY <3>1, <3>2, <3>4, <3>5
  <2>3. ASSUME NEW m \in Seq(Byte), Len(m) = len
        PROVE  /\ First(m, full) \in Seq(Byte)
               /\ fb(m) \in Seq(Byte)
               /\ Len(fb(m)) = IF len - full <= MaxShortTail THEN BlockSize ELSE 2 * BlockSize
               /\ StateToBytes(CompressBlocks(CompressBlocks(IV, First(m, full)), fb(m)))
                    = RfcDigest(m)
    <3>1. /\ First(m, full) \in Seq(Byte) /\ Drop(m, full) \in Seq(Byte)
          /\ Len(Drop(m, full)) = len - full
      BY <2>2, <2>3, FirstDrop
    <3>2. len % CountMod \in Nat
      <4>1. CountMod \in Nat \ {0} /\ len \in Int
        BY <2>1, SizeAssumption
      <4> HIDE DEF len
      <4> QED BY <4>1, DivMod, SMT
    <3>3. Len(Drop(m, full)) < BlockSize
      BY <2>1, <2>2, <3>1, SMT
    <3>4. HashOptBulk(m) = RfcDigest(m)
      BY HashWithCorrect
    <3> QED BY <2>3, <3>1, <3>2, <3>3, <3>4, FinalBlocksFacts DEF HashOptBulk
  <2> HIDE DEF len, full, n, fb
  <2>4. u \in Nat /\ u * BlockSize = Len(fb(a)) /\ Len(fb(b)) = Len(fb(a))
    <3>1. Len(fb(b)) = Len(fb(a)) /\ Len(fb(a)) \in {BlockSize, 2 * BlockSize}
      BY <2>1, <2>3
    <3>2. BlockSize \div BlockSize = 1 /\ (2 * BlockSize) \div BlockSize = 2
      <4>1. 0 \in 0 .. BlockSize - 1 /\ BlockSize \in Int /\ 2 * BlockSize \in Int
        BY <2>1, SMT
      <4>2. BlockSize = BlockSize * 1 + 0 /\ 2 * BlockSize = BlockSize * 2 + 0
        BY <2>1, SMT
      <4>3. /\ BlockSize = BlockSize * (BlockSize \div BlockSize) + (BlockSize % BlockSize)
            /\ 2 * BlockSize = BlockSize * ((2 * BlockSize) \div BlockSize) + ((2 * BlockSize) % BlockSize)
            /\ BlockSize \div BlockSize \in Int /\ (2 * BlockSize) \div BlockSize \in Int
            /\ BlockSize % BlockSize \in 0 .. BlockSize - 1
            /\ (2 * BlockSize) % BlockSize \in 0 .. BlockSize - 1
        BY <2>1, <4>1, DivMod
      <4>4. 1 \in Int /\ 2 \in Int
        OBVIOUS
      <4>5. BlockSize \div BlockSize = 1
        BY <2>1, <4>1, <4>2, <4>3, <4>4, QuotientUnique
      <4>6. (2 * BlockSize) \div BlockSize = 2
        BY <2>1, <4>1, <4>2, <4>3, <4>4, QuotientUnique
      <4> QED BY <4>5, <4>6
    <3> QED BY <2>1, <3>1, <3>2, SMT
  <2>5. /\ body[1] = CompressBlocks(IV, First(a, full))
        /\ body[2] = CompressBlocks(IV, First(b, full))
    <3>1. IV \in Chain /\ <<IV, IV>>[1] = IV /\ <<IV, IV>>[2] = IV
      BY NoBytes DEF IV, Chain
    <3>2. n * BlockSize <= Len(a) /\ n * BlockSize <= Len(b)
      BY <2>1, <2>2
    <3> QED BY <2>2, <3>1, <3>2, PairsAbsorb
  <2>6. body[1] \in Chain /\ body[2] \in Chain
    <3>1. IV \in Chain
      BY NoBytes DEF IV, Chain
    <3> QED BY <2>1, <2>3, <2>5, <3>1, CompressMore
  <2> HIDE DEF body, u
  <2>7. last[1] = CompressBlocks(body[1], fb(a)) /\ last[2] = CompressBlocks(body[2], fb(b))
    <3>1. /\ fb(a) \in Seq(Byte) /\ fb(b) \in Seq(Byte)
          /\ Len(fb(a)) = u * BlockSize /\ Len(fb(b)) = u * BlockSize
      BY <2>1, <2>3, <2>4
    <3>2. First(fb(a), u * BlockSize) = fb(a) /\ First(fb(b), u * BlockSize) = fb(b)
      BY <3>1, SubSeqFull DEF First
    <3>3. u * BlockSize <= Len(fb(a)) /\ u * BlockSize <= Len(fb(b))
      <4>1. u * BlockSize \in Nat
        BY <3>1, LenProperties
      <4> QED BY <3>1, <4>1
    <3> QED BY <2>4, <2>6, <3>1, <3>2, <3>3, PairsAbsorb
  <2>8. StateToBytes(last[1]) = RfcDigest(a) /\ StateToBytes(last[2]) = RfcDigest(b)
    BY <2>1, <2>3, <2>5, <2>7
  <2>9. HashPair(a, b, active, hasOpt) = <<StateToBytes(last[1]), StateToBytes(last[2])>>
    BY <1>2 DEF HashPair, PairInStep, len, full, n, fb, u, body
  <2> QED BY <2>8, <2>9
<1> QED BY <1>1, <1>2

(* Every one-shot entry point returns the RFC 1321 digest, whatever the    *)
(* message and the sizes of a block, a length field and a counter, and     *)
(* hash_pair the two digests of two messages.                              *)
THEOREM OneShotCorrect == input \in Seq(Byte) => OneShotIsRfc
<1> SUFFICES ASSUME input \in Seq(Byte) PROVE OneShotIsRfc
  OBVIOUS
<1>1. SelectorsAreRfc
  <2>1. /\ Hash(input, TRUE) = RfcDigest(input) /\ Hash(input, FALSE) = RfcDigest(input)
        /\ HashOracle(input) = RfcDigest(input)
    BY HashCorrect
  <2> QED BY <2>1 DEF SelectorsAreRfc
<1>2. \A a, b \in Seq(Byte) : PairIsRfc(a, b)
  <2>1. ASSUME NEW a \in Seq(Byte), NEW b \in Seq(Byte),
               NEW build \in {<<TRUE, FALSE>>, <<FALSE, FALSE>>, <<FALSE, TRUE>>}
        PROVE  HashPair(a, b, build[1], build[2]) = <<RfcDigest(a), RfcDigest(b)>>
    <3>1. build[1] \in BOOLEAN /\ build[2] \in BOOLEAN
      <4>1. build = <<TRUE, FALSE>> \/ build = <<FALSE, FALSE>> \/ build = <<FALSE, TRUE>>
        OBVIOUS
      <4>2. /\ <<TRUE, FALSE>>[1] = TRUE /\ <<TRUE, FALSE>>[2] = FALSE
            /\ <<FALSE, FALSE>>[1] = FALSE /\ <<FALSE, FALSE>>[2] = FALSE
            /\ <<FALSE, TRUE>>[1] = FALSE /\ <<FALSE, TRUE>>[2] = TRUE
        BY SMT
      <4> QED BY <4>1, <4>2, Zenon
    <3> QED BY <3>1, HashPairCorrect
  <2> QED BY <2>1 DEF PairIsRfc
<1>3. Rotated \in Seq(Byte)
  <2>1. CASE input = << >>
    <3>1. Rotated = << >> \o << >>
      <4>1. First(input, 0) = << >>
        BY NoBytes
      <4>2. Drop(input, 1) = << >>
        BY <2>1, EmptySeq DEF Drop
      <4> QED BY <2>1, <4>1, <4>2 DEF Rotated
    <3> QED BY <3>1, NoBytes, ByteConcat
  <2>2. CASE input # << >>
    <3>1. 1 \in 0 .. Len(input)
      BY <2>2, LenProperties, EmptySeq, SMT
    <3>2. First(input, 1) \in Seq(Byte) /\ Drop(input, 1) \in Seq(Byte)
      BY <3>1, FirstDrop
    <3> QED BY <2>2, <3>2, ByteConcat DEF Rotated
  <2> QED BY <2>1, <2>2
<1>4. Longer \in Seq(Byte)
  BY <1>3, ByteFacts, AppendProperties DEF Longer
<1> QED BY <1>1, <1>2, <1>3, <1>4 DEF OneShotIsRfc

(* A digit is read back as the nibble it stands for.                       *)
LEMMA NibbleOfHex ==
  ASSUME NEW d \in 0 .. 15
  PROVE  HEX[d] \in Int /\ Nibble(HEX[d]) = d
<1>1. HEX[d] = IF d < 10 THEN 48 + d ELSE 97 + d - 10
  BY DEF HEX
<1>2. CASE d < 10
  <2>1. HEX[d] = 48 + d /\ 48 + d \in 48 .. 57
    BY <1>1, <1>2
  <2>2. 48 + d \notin 97 .. 102
    BY <1>2
  <2> DEFINE c == HEX[d]
  <2>3. c \in 48 .. 57 /\ c \notin 97 .. 102 /\ c - 48 = d /\ c \in Int
    BY <2>1, <2>2
  <2> HIDE DEF c
  <2>4. Nibble(c) = c - 48
    BY <2>3 DEF Nibble
  <2> QED BY <2>3, <2>4 DEF c
<1>3. CASE ~(d < 10)
  <2> DEFINE c == HEX[d]
  <2>1. c = 97 + d - 10
    BY <1>1, <1>3
  <2>2. c \in 97 .. 102 /\ c \notin 48 .. 57 /\ c - 97 + 10 = d /\ c \in Int
    BY <1>3, <2>1
  <2> HIDE DEF c
  <2>3. Nibble(c) = c - 97 + 10
    BY <2>2 DEF Nibble
  <2> QED BY <2>2, <2>3 DEF c
<1> QED BY <1>2, <1>3

LEMMA PairDecodes ==
  ASSUME NEW b \in 0 .. 255
  PROVE  /\ HexPairs[b][1] \in Int /\ HexPairs[b][2] \in Int
         /\ 16 * Nibble(HexPairs[b][1]) + Nibble(HexPairs[b][2]) = b
<1>1. b \div 16 \in 0 .. 15 /\ b % 16 \in 0 .. 15 /\ 16 * (b \div 16) + (b % 16) = b
  <2> DEFINE q == b \div 16
             r == b % 16
  <2>1. q \in Int /\ b = 16 * q + r /\ r \in 0 .. 15
    BY DivMod, SMT
  <2> HIDE DEF q, r
  <2>2. q \in 0 .. 15 /\ 16 * q + r = b
    BY <2>1
  <2> QED BY <2>1, <2>2 DEF q, r
<1>2. HexPairs[b][1] = HEX[b \div 16] /\ HexPairs[b][2] = HEX[b % 16]
  BY DEF HexPairs
<1> QED BY <1>1, <1>2, NibbleOfHex

(* The characters that are written, and those that stay.                   *)
LEMMA HexWritten ==
  ASSUME NEW bytes \in Seq(0 .. 255), NEW S, NEW before \in Seq(S),
         2 * Len(bytes) <= Len(before)
  PROVE  LET r == HexEncodeInto(bytes, before)
         IN  /\ r.ok /\ r.written = 2 * Len(bytes)
             /\ \A i \in 1 .. Len(bytes) :
                  /\ r.out[2 * i - 1] = HexPairs[bytes[i]][1]
                  /\ r.out[2 * i] = HexPairs[bytes[i]][2]
             /\ \A c \in 2 * Len(bytes) + 1 .. Len(before) : r.out[c] = before[c]
<1> DEFINE n == Len(bytes)
           k == Len(before)
           r == HexEncodeInto(bytes, before)
<1>1. n \in Nat /\ k \in Nat
  BY LenProperties
<1>2. n <= k \div 2
  BY <1>1, SMT
<1>3. /\ r.ok /\ r.written = 2 * n
      /\ r.out = [c \in 1 .. k |->
                    IF c <= 2 * n
                    THEN HexPairs[bytes[(c + 1) \div 2]][2 - (c % 2)] ELSE before[c]]
  BY <1>2 DEF HexEncodeInto, Written
<1> HIDE DEF n, k, r
<1>4. ASSUME NEW i \in 1 .. n
      PROVE  /\ r.out[2 * i - 1] = HexPairs[bytes[i]][1]
             /\ r.out[2 * i] = HexPairs[bytes[i]][2]
  <2>1. /\ 2 * i - 1 \in 1 .. k /\ 2 * i - 1 <= 2 * n
        /\ (2 * i - 1 + 1) \div 2 = i /\ 2 - ((2 * i - 1) % 2) = 1
    BY <1>1, SMT DEF n, k
  <2>2. /\ 2 * i \in 1 .. k /\ 2 * i <= 2 * n
        /\ (2 * i + 1) \div 2 = i /\ 2 - ((2 * i) % 2) = 2
    BY <1>1, SMT DEF n, k
  <2> QED BY <1>3, <2>1, <2>2
<1>5. ASSUME NEW c \in 2 * n + 1 .. k PROVE r.out[c] = before[c]
  <2>1. c \in 1 .. k /\ ~(c <= 2 * n)
    BY <1>1
  <2> QED BY <1>3, <2>1
<1> QED BY <1>3, <1>4, <1>5 DEF n, k, r

(* Hexadecimal output can be read back, for all bytes and every slice.     *)
THEOREM HexRoundTrip ==
  ASSUME NEW bytes \in Seq(0 .. 255), NEW S, NEW before \in Seq(S)
  PROVE  RoundTrip(bytes, before)
<1> DEFINE n == Len(bytes)
           k == Len(before)
           r == HexEncodeInto(bytes, before)
<1>1. n \in Nat /\ k \in Nat
  BY LenProperties
<1>2. CASE ~(2 * n <= k)
  <2>1. ~(n <= k \div 2)
    BY <1>1, <1>2, SMT
  <2>2. r = Panicked(before)
    BY <2>1 DEF HexEncodeInto
  <2>3. ~r.ok /\ r.out = before
    BY <2>2 DEF Panicked
  <2> HIDE DEF r
  <2>4. ~(k >= 2 * n)
    BY <1>1, <1>2
  <2> QED BY <2>3, <2>4 DEF RoundTrip, r
<1>3. CASE 2 * n <= k
  <2>1. /\ r.ok /\ r.written = 2 * n
        /\ \A i \in 1 .. n : /\ r.out[2 * i - 1] = HexPairs[bytes[i]][1]
                            /\ r.out[2 * i] = HexPairs[bytes[i]][2]
        /\ \A c \in 2 * n + 1 .. k : r.out[c] = before[c]
    BY <1>3, HexWritten
  <2> HIDE DEF r
  <2> DEFINE s == SubSeq(r.out, 1, r.written)
  <2>2. Len(s) = 2 * n /\ \A c \in 1 .. 2 * n : s[c] = r.out[c]
    <3> DEFINE all == {r.out[c] : c \in 1 .. 2 * n}
    <3>1. \A c \in 1 .. r.written : r.out[c] \in all
      BY <2>1
    <3> HIDE DEF all
    <3>2. /\ Len(s) = IF 1 <= r.written THEN r.written - 1 + 1 ELSE 0
          /\ \A c \in 1 .. r.written - 1 + 1 : s[c] = r.out[1 + c - 1]
      <4>1. r.written \in Int /\ 1 \in Int
        BY <1>1, <2>1
      <4> QED BY <3>1, <4>1, SubSeqProperties
    <3> HIDE DEF s
    <3>3. r.written = 2 * n /\ (~(1 <= 2 * n) => 2 * n = 0)
      BY <1>1, <2>1
    <3>4. \A c \in 1 .. 2 * n : c \in 1 .. r.written - 1 + 1 /\ 1 + c - 1 = c
      BY <1>1, <3>3
    <3> QED BY <1>1, <3>2, <3>3, <3>4
  <2> HIDE DEF s
  <2>3. Len(s) \div 2 = n
    BY <1>1, <2>2, SMT
  <2>4. ASSUME NEW i \in 1 .. n
        PROVE  16 * Nibble(s[2 * i - 1]) + Nibble(s[2 * i]) = bytes[i]
    <3>1. 2 * i - 1 \in 1 .. 2 * n /\ 2 * i \in 1 .. 2 * n
      BY <1>1
    <3>2. s[2 * i - 1] = HexPairs[bytes[i]][1] /\ s[2 * i] = HexPairs[bytes[i]][2]
      BY <2>1, <2>2, <3>1
    <3>3. bytes[i] \in 0 .. 255
      BY ElementOfSeq
    <3> QED BY <3>2, <3>3, PairDecodes
  <2>5. HexDecode(s) = [i \in 1 .. n |-> bytes[i]]
    BY <2>3, <2>4 DEF HexDecode
  <2>6. bytes = [i \in 1 .. n |-> bytes[i]]
    BY LenProperties
  <2>7. HexDecode(s) = bytes
    BY <2>5, <2>6
  <2>8. k >= 2 * n
    BY <1>1, <1>3
  <2> QED BY <2>1, <2>7, <2>8 DEF RoundTrip, r, s
<1> QED BY <1>2, <1>3

(* So it is for the bytes and the slices of the runs.                      *)
THEOREM HexCorrect == input \in Seq(Byte) => HexFaithful
<1> SUFFICES ASSUME input \in Seq(Byte) PROVE HexFaithful
  OBVIOUS
<1> DEFINE n == Len(input)
           bytes == Octets(n)
           chars == 2 * Len(bytes)
<1>1. n \in Nat
  BY LenProperties
<1> HIDE DEF n
<1>2. bytes \in Seq(0 .. 255)
  <2> DEFINE size == n % 23
             f == [i \in 1 .. size |-> (13 * n + 37 * i) % 256]
  <2>1. size \in Nat
    BY <1>1, SMT
  <2>2. bytes = f
    BY DEF Octets
  <2> HIDE DEF bytes, size
  <2>3. \A i \in 1 .. size : (13 * n + 37 * i) % 256 \in 0 .. 255
    BY <1>1, <2>1, SMT
  <2>4. f \in [1 .. size -> 0 .. 255]
    BY <2>3
  <2> HIDE DEF f
  <2> QED BY <2>1, <2>2, <2>4, FunctionIsSeq
<1> HIDE DEF bytes
<1>3. ASSUME NEW room \in {0, 1, chars - 2, chars - 1, chars, chars + 1, chars + 2} \cap Nat
      PROVE  RoundTrip(bytes, [c \in 1 .. room |-> 63])
  <2>1. [c \in 1 .. room |-> 63] \in Seq({63})
    OBVIOUS
  <2> QED BY <1>2, <2>1, HexRoundTrip
<1> QED BY <1>3 DEF HexFaithful, bytes, n
=============================================================================
