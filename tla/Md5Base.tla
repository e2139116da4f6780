------------------------------ MODULE Md5Base ------------------------------
(***************************************************************************)
(* Bytes, 64-bit counters and chaining values, shared by every module.     *)
(*                                                                         *)
(* The geometry of MD5 is a parameter, so that a model can be small and a  *)
(* theorem holds for every size.  The code has BlockSize = 64, LenBytes =  *)
(* 8, ByteBits = 8, Radix = 256 and CountMod = 2^64.                       *)
(***************************************************************************)
EXTENDS Integers, Sequences

CONSTANTS
  BlockSize,   \* bytes in a block
  LenBytes,    \* bytes of the length field that ends the last block
  ByteBits,    \* bits in a byte
  Radix,       \* number of values of a byte
  CountMod     \* number of values of the u64 byte counter

(* What the proofs use. *)
ASSUME SizeAssumption ==
  /\ LenBytes \in Nat \ {0}
  /\ BlockSize \in Nat /\ BlockSize > LenBytes
  /\ ByteBits \in Nat \ {0}
  /\ Radix \in Nat /\ Radix >= 2
  /\ CountMod \in Nat \ {0}
  /\ \A i \in 0 .. LenBytes : Radix^i \in Nat \ {0}

(* What ties the widths together: the length field holds one counter. *)
ASSUME WidthAssumption == Radix = 2^ByteBits /\ CountMod = Radix^LenBytes

Byte == 0 .. Radix - 1
Mark == Radix \div 2          \* 0x80: the top bit of a byte

(***************************************************************************)
(* A chaining value is kept as the blocks that produced it: where it       *)
(* started (`seed') and the bytes compressed since (`data').  This is the  *)
(* free compression function: values are equal exactly when they absorbed  *)
(* the same blocks in the same order, so whatever is proved holds for each *)
(* of the kernels that compress a block.                                   *)
(***************************************************************************)
Chain == [seed : {"iv", "zero"}, data : Seq(Byte)]
IV    == [seed |-> "iv", data |-> << >>]
Zero  == [seed |-> "zero", data |-> << >>]

(* compress_blocks_with: absorb complete blocks in order.  It asserts that *)
(* it is given whole blocks (src/compress.rs:294).  All its callers cut    *)
(* the data there, and what they cut is what the properties are about: a   *)
(* part of a block in `data' is in no digest of RFC 1321.                  *)
CompressBlocks(st, data) == [seed |-> st.seed, data |-> st.data \o data]

(* state_to_bytes: the digest is the chaining value, serialised. *)
StateToBytes(st) == [le |-> st]
Digests == [le : Chain]

(* Mutation: a counter that saturates. *)
CountAddSaturating(c, n) == IF c + n < CountMod THEN c + n ELSE CountMod - 1

(* u64::wrapping_add on the byte counter, and the length field's value. *)
CountAdd(c, n) == (c + n) % CountMod
BitLen(total)  == (total * ByteBits) % CountMod

(* Byte i (0-based) of the little-endian encoding of v. *)
LeByte(v, i) == (v \div Radix^i) % Radix

(* The part of a length covered by complete blocks: len & !63. *)
FullLen(n) == n - (n % BlockSize)
First(s, n) == SubSeq(s, 1, n)
Drop(s, n)  == SubSeq(s, n + 1, Len(s))
=============================================================================
