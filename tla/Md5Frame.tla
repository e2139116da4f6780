------------------------------ MODULE Md5Frame -----------------------------
(***************************************************************************)
(* Final-block construction and one-shot hashing (src/frame.rs and the     *)
(* selectors of src/backend.rs).                                           *)
(***************************************************************************)
EXTENDS Rfc1321

(* Mutation: one byte too many before the length field. *)
MaxShortTailOff == BlockSize - LenBytes

(* The longest tail that shares its block with the length field (55). *)
MaxShortTail == BlockSize - LenBytes - 1

(* Mutation: the bit length saturates where the code lets it wrap. *)
FinalBlocksSaturating(total, tail) ==
  LET used == IF Len(tail) <= MaxShortTail THEN 1 ELSE 2
      field == used * BlockSize - LenBytes
      bits == IF total * ByteBits < CountMod THEN total * ByteBits ELSE CountMod - 1
  IN  [i \in 1 .. used * BlockSize |->
         CASE i <= Len(tail)      -> tail[i]
           [] i = Len(tail) + 1   -> Mark
           [] i > field           -> LeByte(bits, i - field - 1)
           [] OTHER               -> 0]

(* build_final_blocks: the `used' final blocks, laid end to end. *)
FinalBlocks(total, tail) ==
  LET used == IF Len(tail) <= MaxShortTail THEN 1 ELSE 2
      field == used * BlockSize - LenBytes       \* the bytes before the length
      bits == BitLen(total)
  IN  [i \in 1 .. used * BlockSize |->
         CASE i <= Len(tail)      -> tail[i]
           [] i = Len(tail) + 1   -> Mark
           [] i > field           -> LeByte(bits, i - field - 1)
           [] OTHER               -> 0]

(* finalize_with: works on a copy of the chaining value. *)
FinalizeWith(st, total, tail) ==
  StateToBytes(CompressBlocks(st, FinalBlocks(total, tail)))

(* hash_with: complete blocks from the IV, then the final blocks. *)
HashWith(input) ==
  LET full == FullLen(Len(input)) IN
  IF input = << >>
  THEN FinalizeWith(IV, 0, << >>)
  ELSE FinalizeWith(CompressBlocks(IV, First(input, full)),
                    Len(input) % CountMod, Drop(input, full))

(* Mutation: the length field counts the tail only. *)
HashOptBulkTailOnly(input) ==
  LET full == FullLen(Len(input))
      tail == Drop(input, full)
  IN  FinalizeWith(CompressBlocks(IV, First(input, full)), Len(tail), tail)

(* hash_opt_bulk with an opt kernel: the same framing, spelled out. *)
HashOptBulk(input) ==
  LET full == FullLen(Len(input))
      body == CompressBlocks(IV, First(input, full))
      pad  == FinalBlocks(Len(input) % CountMod, Drop(input, full))
  IN  StateToBytes(CompressBlocks(body, pad))

(* empty_digest: the literal digest of the empty message, which is the IV  *)
(* with one block of a mark and zeros compressed into it.                  *)
EmptyDigest ==
  StateToBytes([seed |-> "iv",
                data |-> [i \in 1 .. BlockSize |-> IF i = 1 THEN Mark ELSE 0]])

(* hash: the one-shot entry point and its fast paths. *)
Hash(input, hasOpt) ==
  CASE input = << >> -> EmptyDigest
    [] input # << >> /\ Len(input) <= MaxShortTail ->
         StateToBytes(CompressBlocks(IV,
           First(FinalBlocks(Len(input) % CountMod, input), BlockSize)))
    [] Len(input) > MaxShortTail /\ hasOpt /\ Len(input) >= BlockSize ->
         HashOptBulk(input)
    [] OTHER -> HashWith(input)

(* hash_textbook and hash_in_tree: the oracles behind digest_portable and  *)
(* digest_opt_scalar.                                                      *)
HashOracle(input) == IF input = << >> THEN EmptyDigest ELSE HashWith(input)
=============================================================================
