---------------------------- MODULE MCComputerUse ----------------------------
(* One card, a chat of the user's own, two proposals and two decisions.     *)
EXTENDS ComputerUse

CONSTANTS brief, own

OneCard == {brief}
TwoChats == {brief, own}
TwoActions == 1..2
TwoDecisions == 1..2
=============================================================================
