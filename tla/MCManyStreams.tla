---------------------------- MODULE MCManyStreams --------------------------
(***************************************************************************)
(* ManyStreams with two streams, 4-byte blocks and a 3-bit byte counter.   *)
(***************************************************************************)
EXTENDS ManyStreams

MCChunks == {<< >>, <<1>>, <<2, 3, 1>>}
=============================================================================
