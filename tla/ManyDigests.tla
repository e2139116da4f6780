----------------------------- MODULE ManyDigests ---------------------------
(***************************************************************************)
(* What the multi-stream calls of Md5Engine promise: a stream is the       *)
(* message it has absorbed; update_many extends all streams or, when the   *)
(* number of inputs is wrong, panics and extends none; finalize_many       *)
(* returns the digest RFC 1321 gives to each message, in order, in the     *)
(* first slots of a slice, or panics when the slice is too short.          *)
(***************************************************************************)
EXTENDS Rfc1321

CONSTANTS
  StreamCount,  \* how many streams there are
  Chunks,       \* the byte strings the program passes
  Untouched     \* what an output slot holds before the call

VARIABLES
  msg,          \* per stream, what it has absorbed since it was reset
  outcome       \* the outcome of the last multi-stream call, or NoResult

vars == <<msg, outcome>>
Stream == 1 .. StreamCount

(* given: how many inputs or slots the caller passed. *)
Outcome(op, given, panicked, slots) ==
  [op |-> op, given |-> given, panicked |-> panicked, slots |-> slots]
NoResult == Outcome("none", 0, FALSE, << >>)

Init == msg = [s \in Stream |-> << >>] /\ outcome = NoResult

UpdateMany ==
  /\ \E cs \in [Stream -> Chunks] : msg' = [s \in Stream |-> msg[s] \o cs[s]]
  /\ outcome' = Outcome("update", StreamCount, FALSE, << >>)
FinalizeMany ==
  /\ outcome'.given >= StreamCount
  /\ outcome' = Outcome("finalize", outcome'.given, FALSE,
                 [k \in 1 .. outcome'.given |->
                    IF k \in Stream THEN RfcDigest(msg[k]) ELSE Untouched])
  /\ UNCHANGED msg
Panic ==
  /\ \/ outcome'.op = "update" /\ outcome'.given # StreamCount
     \/ outcome'.op = "finalize" /\ outcome'.given < StreamCount
  /\ outcome' = Outcome(outcome'.op, outcome'.given, TRUE, << >>)
  /\ UNCHANGED msg

(* The calls on one stream; a call in progress shows nothing yet. *)
Update(s)  == \E c \in Chunks : msg' = [msg EXCEPT ![s] = @ \o c]
Reset(s)   == msg' = [msg EXCEPT ![s] = << >>]
Copy(s, t) == msg' = [msg EXCEPT ![t] = msg[s]]
Quiet ==
  /\ outcome' = NoResult
  /\ \/ UNCHANGED msg
     \/ \E s \in Stream : Update(s) \/ Reset(s) \/ \E t \in Stream : Copy(s, t)

Next == UpdateMany \/ FinalizeMany \/ Panic \/ Quiet
Spec == Init /\ [][Next]_vars
=============================================================================
