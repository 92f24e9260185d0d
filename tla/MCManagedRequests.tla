-------------------------- MODULE MCManagedRequests --------------------------
(* Two requests of one account.                                             *)
EXTENDS ManagedRequests

CONSTANTS chat, digest, ann

MCRequests == {chat, digest}
MCUid == [r \in Requests |-> ann]
OneOrTwo == {1, 2}
NoneOrMuch == {0, 3}
=============================================================================
