------------------------------ MODULE Md5Digest ----------------------------
(***************************************************************************)
(* The adapter to the `digest' crate (src/digest_compat.rs).  The Raw of   *)
(* the native hasher only sees complete blocks here: the tail of a message *)
(* waits in the block buffer of the `digest' crate, which is external and  *)
(* modelled from how `buffer_fixed!' puts the core behind it.              *)
(***************************************************************************)
EXTENDS Md5Raw

CONSTANTS
  Handles,    \* the program variables that may hold a hasher
  Chunks,     \* the byte strings passed to `update'
  MaxLen      \* bound: bytes one hasher absorbs between two resets

ASSUME DigestAssumption == Chunks \subseteq Seq(Byte) /\ MaxLen \in Nat

VARIABLES
  live,     \* the handles that hold a hasher
  core,     \* the Raw of each Md5Core
  buffer,   \* the valid bytes of each block buffer
  out       \* the digest the last call returned: << >> or << digest >>

vars == <<live, core, buffer, out>>

(***************************************************************************)
(* Md5Core.                                                                *)
(***************************************************************************)
(* Mutation: compressed blocks are not counted. *)
UpdateBlocksUncounted(r, blocks) == [r EXCEPT !.state = CompressBlocks(@, blocks)]

UpdateBlocks(r, blocks) ==
  [r EXCEPT !.state = CompressBlocks(@, blocks), !.count = CountAdd(@, Len(blocks))]

(* Mutation: the native hasher's count, which already has the tail in it.  *)
FinalizeCoreNoTail(r, tail) == FinalizeWith(r.state, r.count, tail)

FinalizeCore(r, tail) == FinalizeWith(r.state, CountAdd(r.count, Len(tail)), tail)

(***************************************************************************)
(* The eager block buffer: what reaches the core, and what stays.          *)
(***************************************************************************)
(* Mutation: a lazy buffer holds a complete block back. *)
WaitingLazy(buf, data) ==
  LET all == buf \o data
      tail == Len(all) % BlockSize
  IN  Drop(all, IF tail = 0 /\ all # << >> THEN Len(all) - BlockSize ELSE Len(all) - tail)

Waiting(buf, data) == Drop(buf \o data, FullLen(Len(buf \o data)))
Ready(buf, data)   == First(buf \o data, Len(buf \o data) - Len(Waiting(buf, data)))

(***************************************************************************)
(* The traits Default, Clone, Update, FixedOutput, Reset, FixedOutputReset.*)
(***************************************************************************)
Init ==
  /\ live = {}
  /\ core = [h \in Handles |-> Fresh]
  /\ buffer = [h \in Handles |-> << >>]
  /\ out = << >>

New(h) ==
  /\ h \notin live
  /\ live' = live \cup {h}
  /\ core' = [core EXCEPT ![h] = Fresh]
  /\ buffer' = [buffer EXCEPT ![h] = << >>]
  /\ out' = << >>

Clone(h, g) ==
  /\ h \in live /\ g \notin live
  /\ live' = live \cup {g}
  /\ core' = [core EXCEPT ![g] = core[h]]
  /\ buffer' = [buffer EXCEPT ![g] = buffer[h]]
  /\ out' = << >>

Update(h) ==
  /\ h \in live
  /\ \E c \in Chunks :
       /\ Len(core[h].state.data \o buffer[h]) + Len(c) <= MaxLen
       /\ core' = [core EXCEPT ![h] =
                     IF Ready(buffer[h], c) = << >> THEN @
                     ELSE UpdateBlocks(@, Ready(buffer[h], c))]
       /\ buffer' = [buffer EXCEPT ![h] = Waiting(@, c)]
  /\ out' = << >>
  /\ UNCHANGED live

Reset(h) ==
  /\ h \in live
  /\ core' = [core EXCEPT ![h] = Fresh]
  /\ buffer' = [buffer EXCEPT ![h] = << >>]
  /\ out' = << >>
  /\ UNCHANGED live

(* Mutation: the core is reset, its buffer is not. *)
FinalizeResetCoreOnly(h) ==
  /\ h \in live
  /\ out' = <<FinalizeCore(core[h], buffer[h])>>
  /\ core' = [core EXCEPT ![h] = Fresh]
  /\ UNCHANGED <<live, buffer>>

FinalizeReset(h) ==
  /\ h \in live
  /\ out' = <<FinalizeCore(core[h], buffer[h])>>
  /\ core' = [core EXCEPT ![h] = Fresh]
  /\ buffer' = [buffer EXCEPT ![h] = << >>]
  /\ UNCHANGED live

(* finalize takes the hasher by value, and nothing wipes it.               *)
Finalize(h) ==
  /\ h \in live
  /\ out' = <<FinalizeCore(core[h], buffer[h])>>
  /\ live' = live \ {h}
  /\ UNCHANGED <<core, buffer>>

Discard(h) ==
  /\ h \in live
  /\ live' = live \ {h}
  /\ out' = << >>
  /\ UNCHANGED <<core, buffer>>

Next ==
  \E h \in Handles :
    \/ New(h) \/ Update(h) \/ Reset(h) \/ FinalizeReset(h) \/ Finalize(h)
    \/ Discard(h)
    \/ \E g \in Handles : Clone(h, g)

Spec == Init /\ [][Next]_vars

(***************************************************************************)
(* Properties.                                                             *)
(***************************************************************************)
Absorbed(h) == core[h].state.data \o buffer[h]

(* The core never has a partial block of its own                           *)
(* (src/digest_compat.rs:47), and the buffer never holds a whole one.      *)
TypeOK ==
  /\ live \subseteq Handles
  /\ core \in [Handles -> [state : Chain, buf : {ZeroBuf}, buf_len : {0},
                           count : 0 .. CountMod - 1]]
  /\ \A h \in Handles : buffer[h] \in Seq(Byte) /\ Len(buffer[h]) < BlockSize
  /\ out \in Seq(Digests) /\ Len(out) <= 1

(* The adapter and the native hasher answer alike: after any history of a  *)
(* handle, finalising it gives what an Md5 gives that was fed the same     *)
(* bytes in one call, although the two counters differ by the tail.        *)
SameAsNative ==
  \A h \in live :
    LET native == Absorb(Fresh, Absorbed(h)) IN
    /\ FinalizeCore(core[h], buffer[h]) = Digest(native)
    /\ CountAdd(core[h].count, Len(buffer[h])) = native.count

(* The adapter implements a message digest.  It has neither from_parts nor *)
(* zeroize, so no handle is ever cleared.                                  *)
Abstract == INSTANCE MessageDigest WITH
  Prefixes <- {},
  msg <- [h \in Handles |-> IF h \in live THEN Absorbed(h) ELSE << >>],
  cleared <- {}
ImplementsMessageDigest == Abstract!Spec
=============================================================================
