------------------------------- MODULE SingleUse -------------------------------
(***************************************************************************)
(* What an id that a client may send again promises: it is taken once, used*)
(* at most once after that, and once it is over it stays over.             *)
(***************************************************************************)
EXTENDS Naturals

CONSTANT Ids

VARIABLES
  stage,   \* of each id
  uses     \* how often each was used

vars == <<stage, uses>>

Init ==
  /\ stage = [i \in Ids |-> "free"]
  /\ uses = [i \in Ids |-> 0]

Take(i) ==
  /\ stage[i] = "free"
  /\ stage' = [stage EXCEPT ![i] = "taken"]
  /\ UNCHANGED uses

(* Whoever took it may use it after somebody else ended it.                 *)
Use(i) ==
  /\ stage[i] # "free" /\ uses[i] = 0
  /\ uses' = [uses EXCEPT ![i] = 1]
  /\ UNCHANGED stage

End(i) ==
  /\ stage' = [stage EXCEPT ![i] = "over"]
  /\ UNCHANGED uses

Next == \E i \in Ids : Take(i) \/ Use(i) \/ End(i)

Spec == Init /\ [][Next]_vars
=============================================================================
