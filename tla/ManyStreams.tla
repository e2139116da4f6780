----------------------------- MODULE ManyStreams ---------------------------
(***************************************************************************)
(* Md5Engine::update_many and finalize_many (src/engine.rs) over a slice   *)
(* of Md5State (src/state.rs): each call checks the number of inputs or    *)
(* slots and then loops over the streams, one at a time.  Between the      *)
(* calls the program updates, resets and copies single streams.            *)
(***************************************************************************)
EXTENDS Md5Raw

CONSTANTS
  StreamCount,  \* how many streams there are
  Chunks,       \* the byte strings the program passes
  MaxLen,       \* bound: bytes a stream absorbs between two resets
  Untouched     \* what an output slot holds before the call

ASSUME ManyAssumption == StreamCount \in Nat /\ Chunks \subseteq Seq(Byte)

VARIABLES
  states,       \* the Raw of each stream
  phase,        \* "idle", "update" or "finalize"
  inputs,       \* the inputs of the update_many in progress
  slots,        \* the output slice of the finalize_many in progress
  j,            \* streams the loop has done
  outcome       \* the outcome of the last multi-stream call

manyVars == <<states, phase, inputs, slots, j, outcome>>
Stream == 1 .. StreamCount

Outcome(op, given, panicked, sl) ==
  [op |-> op, given |-> given, panicked |-> panicked, slots |-> sl]
NoResult == Outcome("none", 0, FALSE, << >>)

ManyInit ==
  /\ states = [s \in Stream |-> Fresh]
  /\ phase = "idle" /\ inputs = << >> /\ slots = << >> /\ j = 0
  /\ outcome = NoResult

Room(s, c) == Len(Message(states[s])) + Len(c) <= MaxLen

(* zip stops with the shorter of its two sides. *)
Steps ==
  LET other == IF phase = "update" THEN Len(inputs) ELSE Len(slots)
  IN  IF other <= StreamCount THEN other ELSE StreamCount

(* Mutation: the number of inputs is not checked. *)
UpdateManyUnchecked ==
  /\ phase = "idle"
  /\ \E n \in 0 .. StreamCount + 1 : \E cs \in [1 .. n -> Chunks] :
       /\ \A s \in Stream \cap 1 .. n : Room(s, cs[s])
       /\ phase' = "update" /\ inputs' = cs
  /\ outcome' = NoResult /\ j' = 0
  /\ UNCHANGED <<states, slots>>

(* update_many begins: assert_eq on the lengths, then the loop. *)
UpdateMany ==
  /\ phase = "idle"
  /\ \E n \in 0 .. StreamCount + 1 :
       IF n = StreamCount
       THEN /\ \E cs \in [1 .. n -> Chunks] :
                 (\A s \in Stream : Room(s, cs[s])) /\ inputs' = cs
            /\ phase' = "update" /\ outcome' = NoResult /\ j' = 0
       ELSE /\ outcome' = Outcome("update", n, TRUE, << >>)
            /\ UNCHANGED <<phase, inputs, j>>
  /\ UNCHANGED <<states, slots>>

UpdateNext ==
  /\ phase = "update" /\ j < Steps
  /\ states' = [states EXCEPT ![j + 1] = Absorb(@, inputs[j + 1])]
  /\ j' = j + 1
  /\ UNCHANGED <<phase, inputs, slots, outcome>>

(* finalize_many begins, on a slice of any length. *)
FinalizeMany ==
  /\ phase = "idle"
  /\ \E n \in 0 .. StreamCount + 1 :
       IF n >= StreamCount
       THEN /\ slots' = [k \in 1 .. n |-> Untouched]
            /\ phase' = "finalize" /\ outcome' = NoResult /\ j' = 0
       ELSE /\ outcome' = Outcome("finalize", n, TRUE, << >>)
            /\ UNCHANGED <<phase, slots, j>>
  /\ UNCHANGED <<states, inputs>>

FinalizeNext ==
  /\ phase = "finalize" /\ j < Steps
  /\ slots' = [slots EXCEPT ![j + 1] = Digest(states[j + 1])]
  /\ j' = j + 1
  /\ UNCHANGED <<states, phase, inputs, outcome>>

(* The loop of either call ends. *)
LoopDone ==
  /\ phase # "idle" /\ j = Steps
  /\ outcome' = IF phase = "update" THEN Outcome(phase, Len(inputs), FALSE, << >>)
               ELSE Outcome(phase, Len(slots), FALSE, slots)
  /\ phase' = "idle" /\ inputs' = << >> /\ slots' = << >> /\ j' = 0
  /\ UNCHANGED states

(* The calls on one stream. *)
Single(s, r) ==
  /\ phase = "idle"
  /\ states' = [states EXCEPT ![s] = r]
  /\ outcome' = NoResult
  /\ UNCHANGED <<phase, inputs, slots, j>>
Update(s)  == \E c \in Chunks : Room(s, c) /\ Single(s, Absorb(states[s], c))
Reset(s)   == Single(s, Fresh)
Copy(s, t) == Single(t, states[s])

ManyNext ==
  \/ UpdateMany \/ UpdateNext \/ FinalizeMany \/ FinalizeNext \/ LoopDone
  \/ \E s \in Stream : Update(s) \/ Reset(s) \/ \E t \in Stream : Copy(s, t)

ManySpec == ManyInit /\ [][ManyNext]_manyVars

(***************************************************************************)
(* Properties.                                                             *)
(***************************************************************************)
(* Every stream is a well-formed Raw, between the calls and in the middle  *)
(* of a loop.                                                              *)
ManyTypeOK ==
  /\ states \in [Stream -> Raw]
  /\ phase \in {"idle", "update", "finalize"} /\ j \in 0 .. StreamCount
  /\ phase = "update" => inputs \in [Stream -> Chunks]
  /\ phase = "finalize" => Len(slots) >= StreamCount

(* bytes_hashed and is_empty of Md5State.  Below the range of the counter  *)
(* they are exact; beyond it is_empty is true again at every multiple.     *)
BytesHashed(r) == r.count
IsEmpty(r) == r.count = 0
QueriesExact ==
  \A s \in Stream :
    LET absorbed == Len(Message(states[s])) IN
    /\ absorbed < CountMod => /\ BytesHashed(states[s]) = absorbed
                              /\ IsEmpty(states[s]) <=> absorbed = 0
    /\ IsEmpty(states[s]) => absorbed % CountMod = 0

(* The calls implement ManyDigests: lanes do not mix, a panic leaves every *)
(* stream as it was (src/engine.rs:147 and 159-164 check before they touch *)
(* anything), digests are snapshots and land in order.                     *)
Seen(s) ==
  LET m == Message(states[s]) IN
  IF phase = "update" /\ s <= j THEN First(m, Len(m) - Len(inputs[s])) ELSE m
Many == INSTANCE ManyDigests WITH msg <- [s \in Stream |-> Seen(s)]
ImplementsManyDigests == Many!Spec
=============================================================================
