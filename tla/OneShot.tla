------------------------------- MODULE OneShot -----------------------------
(***************************************************************************)
(* What the pure functions of the crate promise for one input: one-shot    *)
(* hashing by every entry point and fast path, and hexadecimal output.     *)
(***************************************************************************)
EXTENDS PairHash, Hex

VARIABLE input   \* the message that is hashed

(* The bytes that are written out as characters: as many as a digest and   *)
(* fewer, of all 256 values.                                               *)
Octets(n) == [i \in 1 .. n % 23 |-> (13 * n + 37 * i) % 256]

(* Other messages than the input: its bytes rotated, and one byte more.    *)
Rotated == Drop(input, 1) \o First(input, IF input = << >> THEN 0 ELSE 1)
Longer  == Append(Rotated, Mark)

(* Every entry point and every fast path of src/backend.rs (hash with and  *)
(* without an opt kernel, hash_textbook, hash_in_tree) pads like RFC 1321, *)
(* on both sides of the 55/56/64-byte boundaries and past a length field   *)
(* that no longer holds the length.                                        *)
SelectorsAreRfc ==
  \A d \in {Hash(input, TRUE), Hash(input, FALSE), HashOracle(input)} :
    d = RfcDigest(input)

(* hash_pair gives each of two messages its own digest, on either side and *)
(* whether they are hashed in step or not (src/multibuf.rs:46-70).         *)
PairIsRfc(a, b) ==
  \A build \in {<<TRUE, FALSE>>, <<FALSE, FALSE>>, <<FALSE, TRUE>>} :
    HashPair(a, b, build[1], build[2]) = <<RfcDigest(a), RfcDigest(b)>>

(* One-shot hashing agrees with RFC 1321, alone and in pairs.              *)
OneShotIsRfc ==
  /\ SelectorsAreRfc
  /\ PairIsRfc(input, Rotated) /\ PairIsRfc(input, Longer)

(* The characters of these bytes can be read back, and the slots behind    *)
(* them keep what they held; without room for all of them nothing is       *)
(* written.                                                                *)
RoundTrip(bytes, before) ==
  LET r == HexEncodeInto(bytes, before)
  IN  /\ r.ok <=> Len(before) >= 2 * Len(bytes)
      /\ ~r.ok => r.out = before
      /\ r.ok => /\ HexDecode(SubSeq(r.out, 1, r.written)) = bytes
                 /\ \A c \in r.written + 1 .. Len(before) : r.out[c] = before[c]

(* Hexadecimal output can be read back, whatever the bytes and however     *)
(* much room there is (src/md5.rs:165-169).                                *)
HexFaithful ==
  LET bytes == Octets(Len(input))
      chars == 2 * Len(bytes)
  IN  \A room \in {0, 1, chars - 2, chars - 1, chars, chars + 1, chars + 2} \cap Nat :
        RoundTrip(bytes, [c \in 1 .. room |-> 63])
=============================================================================
