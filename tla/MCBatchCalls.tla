---------------------------- MODULE MCBatchCalls ---------------------------
(***************************************************************************)
(* BatchCalls on every batch of up to MaxInputs - 1 messages of two        *)
(* lengths around a block, on every one of MaxInputs messages of a block   *)
(* or more, on some of three lengths, and on both sides of the crossovers. *)
(***************************************************************************)
EXTENDS BatchCalls

CONSTANT MaxInputs    \* bound: messages of a batch of arbitrary lengths

Messages(lens) == [j \in 1 .. Len(lens) |-> [len |-> lens[j], id |-> j]]
Same(n, len) == [j \in 1 .. n |-> len]

MCBatches ==
  {Messages(lens) : lens \in UNION {[1 .. n -> {63, 64}] : n \in 0 .. MaxInputs - 1}
                               \cup [1 .. MaxInputs -> {64, 70}]}
    \cup {Messages(lens) : lens \in {<<64, 64, 70, 64, 64>>, <<70, 64, 70, 70, 70>>,
                                      <<0, 64, 32, 64, 0>>, <<63, 63, 64, 63, 63>>,
                                      <<64, 63, 64, 64, 64>>}}
    \cup {Messages(lens) : lens \in {Same(7, 40), Same(8, 40), Same(8, 31),
                                      <<70>> \o Same(9, 40), Same(4, 40) \o Same(4, 64)}}
MCSlack == {0, 1, 2}
MCPlatforms == {"none", "pair", "avx2", "avx512", "neon"}
=============================================================================
