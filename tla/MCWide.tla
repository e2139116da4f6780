------------------------------- MODULE MCWide ------------------------------
(***************************************************************************)
(* Wide with the four adapters at their real lane counts, 16-word blocks   *)
(* and words of one byte: one to four groups, full and partial, of         *)
(* messages of none to two full blocks and a tail on each side of the      *)
(* padding boundary.                                                       *)
(***************************************************************************)
EXTENDS Wide

CONSTANTS
  Counts,     \* bounds: messages of a call
  Lengths     \* bounds: their bytes

(* Message k, of len bytes: two lanes differ at every place, two words of  *)
(* a message differ.                                                       *)
Bytes(k, len) == [j \in 1 .. len |-> (67 * k + 5 * j + (j \div 16)) % Radix]
MCBatches ==
  {[k \in 1 .. n |-> Bytes(k, len)] : n \in Counts, len \in Lengths}
MCSlack == {0, 1}
=============================================================================
