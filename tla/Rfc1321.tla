------------------------------ MODULE Rfc1321 ------------------------------
(***************************************************************************)
(* The reference: what the digest of a message is, from RFC 1321 sections  *)
(* 3.1 and 3.2.  A message is extended by the mark byte, by the least      *)
(* number of zero bytes, and by its length in bits modulo CountMod, so     *)
(* that the result is made of complete blocks.                             *)
(***************************************************************************)
EXTENDS Md5Base

(* n is the least multiple of the block size that has room for a mark and  *)
(* a length field after `len' bytes.                                       *)
IsPaddedLen(n, len) ==
  /\ n % BlockSize = 0
  /\ n >= len + 1 + LenBytes
  /\ n < len + 1 + LenBytes + BlockSize

PaddedLen(len) ==
  CHOOSE n \in len .. len + LenBytes + BlockSize : IsPaddedLen(n, len)

RfcPadded(m) ==
  LET n == PaddedLen(Len(m))
      bits == BitLen(Len(m))
  IN  [i \in 1 .. n |->
         CASE i <= Len(m)        -> m[i]
           [] i = Len(m) + 1     -> Mark
           [] i > n - LenBytes   -> LeByte(bits, i - (n - LenBytes) - 1)
           [] OTHER              -> 0]

RfcDigest(m) == StateToBytes(CompressBlocks(IV, RfcPadded(m)))
=============================================================================
