------------------------------- MODULE MCFrame -----------------------------
(***************************************************************************)
(* The pure functions of the crate, at the real block and length-field     *)
(* sizes: one-shot hashing and hexadecimal output of a message that grows  *)
(* by one byte, up to MaxInput, and then again around a length at which    *)
(* the length field wraps.  The message is hashed alone, and in a pair     *)
(* with a message of its own length and with a longer one (module OneShot).*)
(***************************************************************************)
EXTENDS OneShot

CONSTANTS
  MaxInput,       \* bound: the longest message of the first stretch
  WrapFrom,       \* bounds: the lengths of the second stretch
  WrapTo

(* The byte at each place. *)
ByteAt(i) == (7 * i + (i \div 5)) % Radix
Prefix(n) == [i \in 1 .. n |-> ByteAt(i)]

Init == input = << >>
Grow ==
  /\ Len(input) \in 0 .. MaxInput - 1 \cup WrapFrom .. WrapTo - 1
  /\ input' = Append(input, ByteAt(Len(input) + 1))
Jump ==
  /\ Len(input) = MaxInput
  /\ input' = Prefix(WrapFrom)
Next == Grow \/ Jump
Spec == Init /\ [][Next]_input
=============================================================================
