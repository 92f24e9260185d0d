--------------------------- MODULE MCSpeechRequests ---------------------------
(* Two attempts at one request, of an account whose limit in flight is one  *)
(* and of which an earlier request is complete, but died before it left the *)
(* slot, which is its own until the window is over.                         *)
EXTENDS SpeechRequests

CONSTANTS r1, r2, ann, a1, a2, t1, t2, words

TwoRequests == {r1, r2}
MCUid == [s \in Sessions |-> ann]
MCCost == [s \in Sessions |-> 1]
TwoAttempts == {a1, a2}
TwoTokens == {t1, t2}
OneAudio == {words}

LeftBehind ==
  /\ slots = [s \in {r2} |-> [age |-> 0, inFlight |-> TRUE, pending |-> FALSE, left |-> 0,
                              token |-> t1]]
  /\ alarm = {}
  /\ rows = [k \in Sessions |-> IF k = r1 THEN NoRow
                                ELSE [status |-> "complete", hash |-> words, age |-> 0]]
  /\ at = [a \in Attempts |-> Idle]
  /\ late = {}

MCPersistent == LeftBehind /\ [][Next]_vars /\ Persistence
=============================================================================
