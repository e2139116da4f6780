----------------------------- MODULE MCMd5Digest ---------------------------
(***************************************************************************)
(* Md5Digest at small sizes: 4-byte blocks, and streams of 17 bytes under  *)
(* a counter that wraps at 16.  The chunks top the buffer up, fill it      *)
(* exactly, and bring complete blocks with a tail.                         *)
(***************************************************************************)
EXTENDS Md5Digest

MCChunks == {<< >>, <<1>>, <<3, 2, 1, 0, 1, 2, 3>>}
=============================================================================
