------------------------------- MODULE Md5Raw ------------------------------
(***************************************************************************)
(* The hasher state that every streaming type wraps: Raw of src/core.rs.   *)
(* Chaining words, a partial block, how many of its bytes are valid, and   *)
(* the number of bytes absorbed, modulo its width.                         *)
(***************************************************************************)
EXTENDS Md5Frame

Buffer == [1 .. BlockSize -> Byte]
Raw == [state : Chain, buf : Buffer, buf_len : 0 .. BlockSize,
        count : 0 .. CountMod - 1]

ZeroBuf == [i \in 1 .. BlockSize |-> 0]

(* Mutation: a resumed hasher forgets what was absorbed before. *)
FromPartsUncounted(st, n) == [state |-> st, buf |-> ZeroBuf, buf_len |-> 0, count |-> 0]

FromParts(st, n) == [state |-> st, buf |-> ZeroBuf, buf_len |-> 0, count |-> n]
Fresh == FromParts(IV, 0)
Wiped == [state |-> Zero, buf |-> ZeroBuf, buf_len |-> 0, count |-> 0]

(* buf[at .. at + s.len()].copy_from_slice(s) *)
CopyInto(buf, at, s) ==
  [i \in 1 .. BlockSize |-> IF i \in at + 1 .. at + Len(s) THEN s[i - at] ELSE buf[i]]

(* Fill the partial block from the front of the input. *)
TopUp(r, s) ==
  [r EXCEPT !.buf = CopyInto(r.buf, r.buf_len, s), !.buf_len = @ + Len(s)]

(* Compress the full buffer; its bytes stay where they are. *)
Flush(r) == [r EXCEPT !.state = CompressBlocks(@, r.buf), !.buf_len = 0]

(* Compress the complete blocks of the input in place, keep the tail. *)
AbsorbRest(r, data) ==
  LET full == FullLen(Len(data))
      done == [r EXCEPT !.state = CompressBlocks(@, First(data, full))]
      tail == Drop(data, full)
  IN  IF tail = << >> THEN done
      ELSE [done EXCEPT !.buf = CopyInto(r.buf, 0, tail), !.buf_len = Len(tail)]

(* Mutations: the room left in the buffer ignores what it holds; a chunk   *)
(* that only tops the buffer up is not counted.                            *)
AbsorbRoomy(r, data) ==
  LET counted == [r EXCEPT !.count = CountAdd(@, Len(data))] IN
  CASE r.buf_len = 0 -> AbsorbRest(counted, data)
    [] r.buf_len > 0 /\ Len(data) < BlockSize -> TopUp(counted, data)
    [] r.buf_len > 0 /\ Len(data) >= BlockSize ->
         AbsorbRest(Flush(TopUp(counted, First(data, BlockSize))),
                    Drop(data, BlockSize))
AbsorbCountLate(r, data) ==
  LET counted == [r EXCEPT !.count = CountAdd(@, Len(data))]
      room == BlockSize - r.buf_len
  IN  CASE r.buf_len = 0 -> AbsorbRest(counted, data)
        [] r.buf_len > 0 /\ Len(data) < room -> TopUp(r, data)
        [] r.buf_len > 0 /\ Len(data) >= room ->
             AbsorbRest(Flush(TopUp(counted, First(data, room))),
                        Drop(data, room))

(* update / update_opt. *)
Absorb(r, data) ==
  LET counted == [r EXCEPT !.count = CountAdd(@, Len(data))]
      room == BlockSize - r.buf_len
  IN  CASE r.buf_len = 0 -> AbsorbRest(counted, data)
        [] r.buf_len > 0 /\ Len(data) < room -> TopUp(counted, data)
        [] r.buf_len > 0 /\ Len(data) >= room ->
             AbsorbRest(Flush(TopUp(counted, First(data, room))),
                        Drop(data, room))

(* Mutation: the tail is counted again, as the digest adapter has to.      *)
DigestRecount(r) ==
  FinalizeWith(r.state, CountAdd(r.count, r.buf_len), First(r.buf, r.buf_len))

(* digest_snapshot. *)
Digest(r) == FinalizeWith(r.state, r.count, First(r.buf, r.buf_len))

(* The bytes a Raw stands for: those compressed and those waiting. *)
Message(r) == r.state.data \o First(r.buf, r.buf_len)

(* What ties the four fields of a Raw together: only complete blocks have  *)
(* been compressed, less than a block waits in the buffer, and the counter *)
(* is the number of bytes compressed or waiting, modulo its width.  A      *)
(* later flush, length field or resume goes wrong as soon as one slips     *)
(* (src/core.rs, update and digest_snapshot).                              *)
WellFormed(r) ==
  /\ Len(r.state.data) % BlockSize = 0
  /\ r.buf_len < BlockSize
  /\ r.count = Len(Message(r)) % CountMod

(* What later calls can observe of a Raw: all but stale buffer bytes. *)
Observable(r) == [state |-> r.state, buf |-> First(r.buf, r.buf_len),
                  buf_len |-> r.buf_len, count |-> r.count]
=============================================================================
