---------------------------- MODULE MCSpeechSessions ----------------------------
(* A stream and a call of one account.                                      *)
EXTENDS SpeechSessions, TLC

CONSTANTS meeting, call, ann, h1, h2, h3, d1

MCStreams == {meeting}
MCCalls == {call}
MCSessions == {meeting, call}
MCUid == [s \in Sessions |-> ann]
MCCost == [s \in Sessions |-> 1]
MCTokens == 1..2
ThreeRequests == {h1, h2, h3}
OneDialer == {d1}
Symmetric == Permutations(Requests)
=============================================================================
