---------------------------- MODULE MCMd5Stream ----------------------------
(***************************************************************************)
(* Md5Stream at small sizes: 4-byte blocks, a 1-byte length field, 3-bit   *)
(* bytes and a 3-bit byte counter, which wraps at the eighth byte.  Chunk  *)
(* lengths straddle every boundary of the code: none, the short tail, the  *)
(* long tail, a block, a block and a tail, two blocks and a tail.          *)
(***************************************************************************)
EXTENDS Md5Stream, TLC

(* Pieces of the stream 1, 2, 3, 1, 2, 3, ...: one message, many splits.   *)
MCChunks   == {<< >>, <<1>>, <<2, 3, 1>>, <<1, 2, 3, 1>>, <<2, 3, 1, 2, 3, 1>>}
MCPrefixes == {<<1, 2, 3, 1>>}

(* The calls treat all variables of the program alike. *)
MCSymmetry == Permutations(Handles)
=============================================================================
