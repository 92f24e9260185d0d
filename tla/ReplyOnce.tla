------------------------------ MODULE ReplyOnce ------------------------------
(***************************************************************************)
(* What the channel inbox promises about every message: it waits, it is    *)
(* answered once or given up, and then nothing more happens to it.         *)
(***************************************************************************)
CONSTANTS Messages, Answers

VARIABLES
  fate,     \* of each message
  answers   \* the answers sent for each message

vars == <<fate, answers>>

Init ==
  /\ fate = [m \in Messages |-> "absent"]
  /\ answers = [m \in Messages |-> {}]

Arrive(m) ==
  /\ fate[m] = "absent"
  /\ fate' = [fate EXCEPT ![m] = "waiting"]
  /\ UNCHANGED answers

Answer(m, a) ==
  /\ fate[m] = "waiting"
  /\ fate' = [fate EXCEPT ![m] = "answered"]
  /\ answers' = [answers EXCEPT ![m] = {a}]

(* Several may be given up at once.                                         *)
GiveUp(S) ==
  /\ \A m \in S : fate[m] = "waiting"
  /\ fate' = [m \in Messages |-> IF m \in S THEN "given up" ELSE fate[m]]
  /\ UNCHANGED answers

Next ==
  \/ \E m \in Messages : Arrive(m) \/ \E a \in Answers : Answer(m, a)
  \/ \E S \in SUBSET Messages : GiveUp(S)

Spec == Init /\ [][Next]_vars
=============================================================================
