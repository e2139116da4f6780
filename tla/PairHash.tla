------------------------------ MODULE PairHash -----------------------------
(***************************************************************************)
(* The software pair path of src/multibuf.rs: two messages of one length   *)
(* are hashed side by side, two chaining values that take a block each per *)
(* step.  Module Dispatch decides which neighbours are paired.             *)
(***************************************************************************)
EXTENDS Md5Frame

(* The n-th block of s. *)
Block(s, n) == SubSeq(s, (n - 1) * BlockSize + 1, n * BlockSize)

(* compress_pair: each of the two states takes a block of its own.         *)
CompressPair(states, blocks) ==
  [lane \in 1 .. 2 |-> CompressBlocks(states[lane], blocks[lane])]

(* Mutation: the second lane is given the block of the first.              *)
CompressPairsShared(states, x, y, n) ==
  LET after[t \in 0 .. n] ==
        IF t = 0 THEN states ELSE CompressPair(after[t - 1], <<Block(x, t), Block(x, t)>>)
  IN  after[n]

(* Both loops of hash_pair: n blocks of x and of y, in step.               *)
CompressPairs(states, x, y, n) ==
  LET after[t \in 0 .. n] ==
        IF t = 0 THEN states ELSE CompressPair(after[t - 1], <<Block(x, t), Block(y, t)>>)
  IN  after[n]

(* hash_pair past its early return.  The number of final blocks of the     *)
(* first message, u0, is used for both.                                    *)
PairInStep(a, b) ==
  LET body == CompressPairs(<<IV, IV>>, a, b, Len(a) \div BlockSize)
      fb0  == FinalBlocks(Len(a) % CountMod, Drop(a, FullLen(Len(a))))
      fb1  == FinalBlocks(Len(b) % CountMod, Drop(b, FullLen(Len(b))))
      u0   == Len(fb0) \div BlockSize
      last == CompressPairs(body, fb0, fb1, u0)
  IN  <<StateToBytes(last[1]), StateToBytes(last[2])>>

(* hash_pair in a build with (active) and without the pair path, which     *)
(* excludes the opt kernels.                                               *)
HashPair(a, b, active, hasOpt) ==
  IF ~active \/ Len(a) # Len(b) THEN <<Hash(a, hasOpt), Hash(b, hasOpt)>>
  ELSE PairInStep(a, b)
=============================================================================
