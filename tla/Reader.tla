------------------------------- MODULE Reader ------------------------------
(***************************************************************************)
(* Hashing everything a reader delivers: digest_reader, etag_hex_streaming *)
(* and the loop they share, digest_reader_with_buffer (src/md5.rs).  The   *)
(* reader is the caller's: it fills any part of the buffer it is lent, may *)
(* scribble on the rest of it, may be interrupted, and may fail.           *)
(***************************************************************************)
EXTENDS Md5Raw

CONSTANTS
  Streams,        \* the byte strings that readers deliver
  Requests,       \* the values of the parameter `chunk'
  MinChunk,       \* 4096: the least read buffer of etag_hex_streaming
  MaxChunk,       \* 1048576: the greatest
  StackBuf,       \* 65536: the read buffer of digest_reader
  MaxInterrupts   \* bound: interruptions of one call

ASSUME ReaderAssumption ==
  /\ Streams \subseteq Seq(Byte) /\ Requests \subseteq Nat
  /\ MinChunk \in Nat \ {0} /\ MaxChunk \in Nat /\ MinChunk <= MaxChunk
  /\ StackBuf \in Nat \ {0} /\ MaxInterrupts \in Nat

VARIABLES
  pc,          \* "idle", "reading", "answered" or "returned"
  stream,      \* what the reader of this call delivers in all
  rest,        \* what it has not delivered yet
  buf,         \* the read buffer
  answer,      \* of the last read
  hasher,      \* the Raw of the local Md5
  interrupts,  \* interruptions so far
  result       \* of the last call: none, a digest or an error

vars == <<pc, stream, rest, buf, answer, hasher, interrupts, result>>

None        == [tag |-> "none"]
Ok(n)       == [tag |-> "ok", n |-> n]
Interrupted == [tag |-> "interrupted"]
Failed      == [tag |-> "failed"]
Digested(d) == [tag |-> "digest", digest |-> d]

Init ==
  /\ pc = "idle"
  /\ stream = << >> /\ rest = << >> /\ buf = << >>
  /\ answer = None /\ hasher = Fresh /\ interrupts = 0 /\ result = None

(***************************************************************************)
(* The calls.                                                              *)
(***************************************************************************)
(* digest_reader_with_buffer, lent a zeroed buffer of this many bytes. *)
Call(size) ==
  /\ pc \in {"idle", "returned"}
  /\ pc' = "reading"
  /\ stream' \in Streams /\ rest' = stream'
  /\ buf' = [i \in 1 .. size |-> 0]
  /\ hasher' = Fresh /\ interrupts' = 0
  /\ answer' = None /\ result' = None

(* Mutations: a clamp that forgets one of its ends. *)
ClampAbove(chunk) == IF chunk > MaxChunk THEN MaxChunk ELSE chunk
ClampBelow(chunk) == IF chunk < MinChunk THEN MinChunk ELSE chunk

Clamp(chunk) ==
  CASE chunk < MinChunk -> MinChunk
    [] chunk > MaxChunk -> MaxChunk
    [] OTHER            -> chunk

DigestReader     == Call(StackBuf)
EtagHexStreaming == \E chunk \in Requests : Call(Clamp(chunk))

(***************************************************************************)
(* The reader.  External: the contract of std::io::Read.                   *)
(***************************************************************************)
(* The buffer begins with data, and its remainder is as it was or junk. *)
Filled(data) ==
  {[i \in 1 .. Len(buf) |-> IF i <= Len(data) THEN data[i] ELSE buf[i]],
   [i \in 1 .. Len(buf) |-> IF i <= Len(data) THEN data[i] ELSE Radix - 1]}

Deliver ==
  /\ \E n \in 1 .. Len(rest) :
       /\ n <= Len(buf)
       /\ buf' \in Filled(First(rest, n))
       /\ rest' = Drop(rest, n)
       /\ answer' = Ok(n)
  /\ UNCHANGED interrupts

(* At the end of the stream, and into a buffer of no bytes. *)
DeliverNothing ==
  /\ rest = << >> \/ buf = << >>
  /\ answer' = Ok(0)
  /\ UNCHANGED <<rest, buf, interrupts>>

Interrupt ==
  /\ interrupts < MaxInterrupts
  /\ interrupts' = interrupts + 1
  /\ buf' \in Filled(<< >>)
  /\ answer' = Interrupted
  /\ UNCHANGED rest

Fail ==
  /\ buf' \in Filled(<< >>)
  /\ answer' = Failed
  /\ UNCHANGED <<rest, interrupts>>

Read ==
  /\ pc = "reading" /\ pc' = "answered"
  /\ Deliver \/ DeliverNothing \/ Interrupt \/ Fail
  /\ UNCHANGED <<stream, hasher, result>>

(***************************************************************************)
(* The loop.                                                               *)
(***************************************************************************)
Return(r) == pc' = "returned" /\ result' = r /\ UNCHANGED hasher
Goon(h)   == pc' = "reading" /\ hasher' = h /\ UNCHANGED result

(* Mutations: the whole buffer is hashed, an error ends the stream early,  *)
(* and the end of the stream is not the end of the loop.                   *)
MatchWhole ==
  /\ pc = "answered"
  /\ CASE answer = Ok(0) -> Return(Digested(Digest(hasher)))
       [] answer.tag = "ok" /\ answer # Ok(0) -> Goon(Absorb(hasher, buf))
       [] answer = Interrupted -> Goon(hasher)
       [] answer = Failed -> Return(Failed)
  /\ UNCHANGED <<stream, rest, buf, answer, interrupts>>
MatchPartial ==
  /\ pc = "answered"
  /\ CASE answer \in {Ok(0), Failed} -> Return(Digested(Digest(hasher)))
       [] answer.tag = "ok" /\ answer # Ok(0) ->
            Goon(Absorb(hasher, First(buf, answer.n)))
       [] answer = Interrupted -> Goon(hasher)
  /\ UNCHANGED <<stream, rest, buf, answer, interrupts>>
MatchSpin ==
  /\ pc = "answered"
  /\ CASE answer.tag = "ok" -> Goon(Absorb(hasher, First(buf, answer.n)))
       [] answer = Interrupted -> Goon(hasher)
       [] answer = Failed -> Return(Failed)
  /\ UNCHANGED <<stream, rest, buf, answer, interrupts>>

Match ==
  /\ pc = "answered"
  /\ CASE answer = Ok(0) -> Return(Digested(Digest(hasher)))
       [] answer.tag = "ok" /\ answer # Ok(0) ->
            Goon(Absorb(hasher, First(buf, answer.n)))
       [] answer = Interrupted -> Goon(hasher)
       [] answer = Failed -> Return(Failed)
  /\ UNCHANGED <<stream, rest, buf, answer, interrupts>>

Next == DigestReader \/ EtagHexStreaming \/ Read \/ Match

(* The loop runs until it returns, and every read is answered; that it is  *)
(* not interrupted for ever is the bound MaxInterrupts.                    *)
Spec == Init /\ [][Next]_vars /\ WF_vars(Read) /\ WF_vars(Match)

(***************************************************************************)
(* Properties.                                                             *)
(***************************************************************************)
(* A call never lends the reader an empty buffer, nor one larger than the  *)
(* documented megabyte, whatever `chunk' it was given.                     *)
TypeOK ==
  /\ pc \in {"idle", "reading", "answered", "returned"}
  /\ stream \in Seq(Byte) /\ rest \in Seq(Byte) /\ buf \in Seq(Byte)
  /\ pc # "idle" => Len(buf) \in MinChunk .. MaxChunk \cup {StackBuf}
  /\ hasher \in Raw /\ interrupts \in 0 .. MaxInterrupts
  /\ answer \in {None, Interrupted, Failed} \cup {Ok(n) : n \in 0 .. Len(buf)}
  /\ result.tag \in {"none", "failed", "digest"}

(* Before every read the hasher has absorbed exactly what the reader has   *)
(* delivered: no byte of a short read's remainder, of an interrupted or a  *)
(* repeated read is hashed, dropped or hashed twice.                       *)
Follows == pc = "reading" => Message(hasher) \o rest = stream

(* A digest that is returned is the digest of the whole stream; a call     *)
(* that fails half-way returns none, and only a read that failed makes it  *)
(* fail (src/md5.rs:203-204).                                              *)
Faithful ==
  /\ result.tag = "digest" => result.digest = RfcDigest(stream)
  /\ pc = "returned" =>
       result.tag = IF answer = Failed THEN "failed" ELSE "digest"

(* Every call returns.                                                     *)
Returns == pc = "reading" ~> pc = "returned"
=============================================================================
