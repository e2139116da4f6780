----------------------------- MODULE MCDispatch ----------------------------
(***************************************************************************)
(* Dispatch with the real thresholds and lane counts.  A batch is one or   *)
(* two runs of equal length; lengths and counts sit on both sides of every *)
(* threshold (32 and 64 bytes; 4, 8 and 16 messages; 4 full groups).       *)
(***************************************************************************)
EXTENDS Dispatch

Lengths == {31, 32, 63, 64}
Counts  == {1, 3, 4, 5, 7, 8, 9, 17, 33, 65}

Flat(len1, n1, len2, n2) ==
  [k \in 1 .. n1 + n2 |->
     [len |-> IF k <= n1 THEN len1 ELSE len2, id |-> k]]

MCBatches ==
  {<< >>} \cup {Flat(l, n, l, 0) : l \in Lengths, n \in Counts}
    \cup {Flat(l, n, 64, m) : l \in {31, 63}, n \in {1, 7}, m \in {1, 2, 4, 8}}
    \cup {Flat(64, n, l, m) : l \in {0, 100}, n \in {1, 2, 4, 9, 36}, m \in {1, 5}}

MCSlack == {0, 1, 3}
MCPlatforms == {"none", "pair", "avx2", "avx512", "neon"}
=============================================================================
