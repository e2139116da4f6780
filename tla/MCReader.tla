------------------------------ MODULE MCReader -----------------------------
(***************************************************************************)
(* Reader at small sizes: 4-byte blocks, read buffers of 2 to 5 bytes,     *)
(* and requests below, between and above the ends of the clamp.            *)
(***************************************************************************)
EXTENDS Reader

MCStreams  == {<< >>, <<1, 2>>, <<1, 2, 3, 2, 1, 2, 3>>}
MCRequests == {0, 3, 9}
=============================================================================
