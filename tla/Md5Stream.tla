------------------------------ MODULE Md5Stream ----------------------------
(***************************************************************************)
(* The streaming hasher: the Raw of module Md5Raw behind src/md5.rs (Md5)  *)
(* and src/state.rs (Md5State).  Several hashers live in the variables of  *)
(* one program; they are cloned, resumed, fed in chunks of any size, read  *)
(* in the middle of a stream, cleared, reset and consumed in any order.    *)
(***************************************************************************)
EXTENDS Md5Raw

CONSTANTS
  Handles,        \* the program variables that may hold a hasher
  Chunks,         \* the byte strings passed to `update'
  Prefixes,       \* what a hasher passed to `from_parts' has absorbed
  MaxLen,         \* bound: bytes one hasher absorbs between two resets
  ZeroizeOnDrop   \* the cargo feature `zeroize'

ASSUME StreamAssumption ==
  /\ Chunks \subseteq Seq(Byte)
  /\ Prefixes \subseteq Seq(Byte)
  /\ \A p \in Prefixes : Len(p) % BlockSize = 0  \* the contract of from_parts
  /\ MaxLen \in Nat
  /\ ZeroizeOnDrop \in BOOLEAN

VARIABLES
  live,     \* the handles that hold a hasher
  hasher,   \* the Raw behind each handle
  out       \* the digest the last call returned: << >> or << digest >>

vars == <<live, hasher, out>>

(***************************************************************************)
(* The calls a program makes.                                              *)
(***************************************************************************)
Init ==
  /\ live = {}
  /\ hasher = [h \in Handles |-> Fresh]
  /\ out = << >>

(* Md5::new, Md5::default, Md5State::new. *)
New(h) ==
  /\ h \notin live
  /\ live' = live \cup {h}
  /\ hasher' = [hasher EXCEPT ![h] = Fresh]
  /\ out' = << >>

(* Md5::from_parts, called as its documentation asks. *)
Resume(h) ==
  /\ h \notin live
  /\ \E p \in Prefixes :
       hasher' = [hasher EXCEPT ![h] =
                    FromParts(CompressBlocks(IV, p), Len(p) % CountMod)]
  /\ live' = live \cup {h}
  /\ out' = << >>

(* Clone of an Md5, Copy of an Md5State. *)
Clone(h, g) ==
  /\ h \in live /\ g \notin live
  /\ live' = live \cup {g}
  /\ hasher' = [hasher EXCEPT ![g] = hasher[h]]
  /\ out' = << >>

(* update, chain_update, io::Write::write. *)
Update(h) ==
  /\ h \in live
  /\ \E c \in Chunks :
       /\ Len(Message(hasher[h])) + Len(c) <= MaxLen
       /\ hasher' = [hasher EXCEPT ![h] = Absorb(hasher[h], c)]
  /\ out' = << >>
  /\ UNCHANGED live

(* finalize_snapshot, digest_so_far, finalize_hex, Md5State::finalize. *)
Snapshot(h) ==
  /\ h \in live
  /\ out' = <<Digest(hasher[h])>>
  /\ UNCHANGED <<live, hasher>>

Reset(h) ==
  /\ h \in live
  /\ hasher' = [hasher EXCEPT ![h] = Fresh]
  /\ out' = << >>
  /\ UNCHANGED live

FinalizeReset(h) ==
  /\ h \in live
  /\ out' = <<Digest(hasher[h])>>
  /\ hasher' = [hasher EXCEPT ![h] = Fresh]
  /\ UNCHANGED live

(* zeroize: the chaining value becomes all zeros, which is not the IV. *)
Zeroize(h) ==
  /\ h \in live
  /\ hasher' = [hasher EXCEPT ![h] = Wiped]
  /\ out' = << >>
  /\ UNCHANGED live

(* The value goes out of scope: wiped first when the feature is on. *)
DropValue(h) ==
  /\ live' = live \ {h}
  /\ hasher' = IF ZeroizeOnDrop THEN [hasher EXCEPT ![h] = Wiped] ELSE hasher

(* Md5::finalize takes the hasher by value. *)
Finalize(h) == h \in live /\ out' = <<Digest(hasher[h])>> /\ DropValue(h)
Discard(h)  == h \in live /\ out' = << >> /\ DropValue(h)

Next ==
  \E h \in Handles :
    \/ New(h) \/ Resume(h) \/ Update(h) \/ Reset(h) \/ Zeroize(h)
    \/ Snapshot(h) \/ FinalizeReset(h) \/ Finalize(h) \/ Discard(h)
    \/ \E g \in Handles : Clone(h, g)

Spec == Init /\ [][Next]_vars

(***************************************************************************)
(* Properties.                                                             *)
(***************************************************************************)
(* Every Raw is well formed between two calls, whatever the feature set.   *)
TypeOK ==
  /\ live \subseteq Handles
  /\ hasher \in [Handles -> Raw]
  /\ out \in Seq(Digests) /\ Len(out) <= 1

(* Every Raw is well formed between two calls, a dropped one included:     *)
(* see WellFormed (src/core.rs, update and digest_snapshot).               *)
Accounted == \A h \in Handles : WellFormed(hasher[h])

(* Chunking, cloning and resuming leave no trace: two hashers that stand   *)
(* for the same bytes agree on everything a later call can observe, so     *)
(* they answer alike for ever.  Only stale buffer bytes may differ.        *)
SplitInvariance ==
  \A g, h \in live :
    /\ hasher[g].state.seed = hasher[h].state.seed
    /\ Message(hasher[g]) = Message(hasher[h])
    => Observable(hasher[g]) = Observable(hasher[h])

(* The hasher implements a message digest: every digest is the digest RFC  *)
(* 1321 gives to the bytes absorbed since the hasher was built or reset,   *)
(* under every chunking, after snapshots, clones and counter wraps.        *)
Abstract == INSTANCE MessageDigest WITH
  msg <- [h \in Handles |-> IF h \in live THEN Message(hasher[h]) ELSE << >>],
  cleared <- {h \in live : hasher[h].state.seed = "zero"}

ImplementsMessageDigest == Abstract!Spec
=============================================================================
