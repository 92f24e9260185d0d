------------------------------- MODULE Outbox -------------------------------
(***************************************************************************)
(* What the deliveries of one chat promise: they are posted in order, and  *)
(* one is recorded as sent only when nothing before it is still to be sent.*)
(***************************************************************************)
EXTENDS Naturals

CONSTANT Deliveries   \* by the order in which they are posted

VARIABLE fate

Init == fate = [d \in Deliveries |-> "absent"]

Post(d) ==
  /\ fate[d] = "absent"
  /\ \A e \in Deliveries : e < d => fate[e] # "absent"
  /\ fate' = [fate EXCEPT ![d] = "waiting"]

Send(d) ==
  /\ fate[d] = "waiting"
  /\ \A e \in Deliveries : e < d => fate[e] \in {"sent", "dropped"}
  /\ fate' = [fate EXCEPT ![d] = "sent"]

(* Given up, or cancelled with the link.                                    *)
Drop(S) ==
  /\ \A d \in S : fate[d] = "waiting"
  /\ fate' = [d \in Deliveries |-> IF d \in S THEN "dropped" ELSE fate[d]]

Next ==
  \/ \E d \in Deliveries : Post(d) \/ Send(d)
  \/ \E S \in SUBSET Deliveries : Drop(S)

Spec == Init /\ [][Next]_fate
=============================================================================
