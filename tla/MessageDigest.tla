---------------------------- MODULE MessageDigest --------------------------
(***************************************************************************)
(* What a streaming hasher promises, for every public hasher of the crate  *)
(* (Md5, Md5State, the digest-crate type): a hasher is the message it has  *)
(* absorbed, and a digest is the digest RFC 1321 gives to that message.    *)
(* The only escape is a cleared hasher (zeroize): until it is reset, its   *)
(* digests are unspecified.                                                *)
(***************************************************************************)
EXTENDS Rfc1321

CONSTANTS
  Handles,    \* the variables of the calling program that may hold a hasher
  Chunks,     \* the byte strings the program passes to `update'
  Prefixes,   \* block-aligned byte strings a hasher may be resumed after
  MaxLen      \* bound: bytes one hasher absorbs between two resets

VARIABLES
  live,       \* the handles that hold a hasher
  msg,        \* what each one has absorbed since it was built or reset
  cleared,    \* the handles whose hasher was cleared and not reset since
  out         \* the digest returned by the last call: << >> or << digest >>

vars == <<live, msg, cleared, out>>

Init ==
  /\ live = {}
  /\ msg = [h \in Handles |-> << >>]
  /\ cleared = {}
  /\ out = << >>

(* The call returns the digest of h. *)
Returns(h) ==
  /\ out' \in Seq(Digests) /\ Len(out') = 1
  /\ h \notin cleared => out' = <<RfcDigest(msg[h])>>

(* Handle h now holds a hasher of message m; c are the cleared handles. *)
Hold(h, m, c) ==
  /\ live' = live \cup {h}
  /\ msg' = [msg EXCEPT ![h] = m]
  /\ cleared' = c

New(h)       == h \notin live /\ Hold(h, << >>, cleared \ {h}) /\ out' = << >>
Resume(h)    == /\ h \notin live
                /\ \E p \in Prefixes : Hold(h, p, cleared \ {h})
                /\ out' = << >>
Clone(h, g)  == /\ h \in live /\ g \notin live
                /\ Hold(g, msg[h], IF h \in cleared THEN cleared \cup {g}
                                   ELSE cleared \ {g})
                /\ out' = << >>
Update(h)    == /\ h \in live
                /\ \E c \in Chunks : Hold(h, msg[h] \o c, cleared)
                /\ out' = << >>
Reset(h)     == h \in live /\ Hold(h, << >>, cleared \ {h}) /\ out' = << >>
Clear(h)     == h \in live /\ Hold(h, << >>, cleared \cup {h}) /\ out' = << >>

(* finalize_snapshot and its synonyms: the hasher is not touched. *)
Snapshot(h) ==
  /\ h \in live
  /\ Returns(h)
  /\ UNCHANGED <<live, msg, cleared>>

FinalizeReset(h) ==
  /\ h \in live
  /\ Returns(h)
  /\ Hold(h, << >>, cleared \ {h})

(* The hasher of h ceases to exist. *)
Gone(h) ==
  /\ live' = live \ {h}
  /\ msg' = [msg EXCEPT ![h] = << >>]
  /\ cleared' = cleared \ {h}

Finalize(h) == h \in live /\ Returns(h) /\ Gone(h)
Discard(h)  == h \in live /\ Gone(h) /\ out' = << >>

Next ==
  \E h \in Handles :
    \/ New(h) \/ Resume(h) \/ Update(h) \/ Reset(h) \/ Clear(h)
    \/ Snapshot(h) \/ FinalizeReset(h) \/ Finalize(h) \/ Discard(h)
    \/ \E g \in Handles : Clone(h, g)

Spec == Init /\ [][Next]_vars
=============================================================================
