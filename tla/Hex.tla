--------------------------------- MODULE Hex -------------------------------
(***************************************************************************)
(* Hexadecimal output: HEX_PAIRS and hex_encode_into of src/md5.rs.  A     *)
(* character is its ASCII code; the output is a slice of the caller's.     *)
(***************************************************************************)
EXTENDS Integers, Sequences

(* The literal b"0123456789abcdef", by nibble. *)
HEX == [d \in 0 .. 15 |-> IF d < 10 THEN 48 + d ELSE 97 + d - 10]

(* Mutation: the low nibble comes first. *)
HexPairsSwapped == [b \in 0 .. 255 |-> <<HEX[b % 16], HEX[b \div 16]>>]

HexPairs == [b \in 0 .. 255 |-> <<HEX[b \div 16], HEX[b % 16]>>]

(* What a call leaves in the slice, whether it panicked, what it returned. *)
Panicked(out)      == [ok |-> FALSE, out |-> out, written |-> 0]
Written(out, n)    == [ok |-> TRUE, out |-> out, written |-> n]

(* The assertion halves the room instead of doubling the length, so that   *)
(* it holds for every usize.  The loop writes the pair of the i-th byte to *)
(* slots 2i - 1 and 2i; the slots behind the last pair stay as they were.  *)
HexEncodeInto(bytes, out) ==
  IF Len(bytes) <= Len(out) \div 2
  THEN Written([c \in 1 .. Len(out) |->
                  IF c <= 2 * Len(bytes)
                  THEN HexPairs[bytes[(c + 1) \div 2]][2 - (c % 2)] ELSE out[c]],
               2 * Len(bytes))
  ELSE Panicked(out)

(* hex_encode, hex_encode_digest: into a zeroed buffer of the right size.  *)
HexEncode(bytes) == HexEncodeInto(bytes, [i \in 1 .. 2 * Len(bytes) |-> 0]).out

(* The reference: the value of a pair of lower-case digits. *)
Nibble(c) == CASE c \in 48 .. 57  -> c - 48
               [] c \in 97 .. 102 -> c - 97 + 10
HexDecode(chars) ==
  [i \in 1 .. Len(chars) \div 2 |->
     16 * Nibble(chars[2 * i - 1]) + Nibble(chars[2 * i])]
=============================================================================
