----------------------------- MODULE MCSttClients -----------------------------
(* Two sessions of one account and one of another; every session reserves   *)
(* one unit of the budgets.                                                 *)
EXTENDS SttClients

CONSTANTS morning, noon, guest, ann, bob, t1, t2, t3

MCSessions == {morning, noon, guest}
MCUid == [s \in Sessions |-> IF s = guest THEN bob ELSE ann]
MCCost == [s \in Sessions |-> 1]
ThreeTokens == {t1, t2, t3}
=============================================================================
