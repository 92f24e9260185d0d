------------------------ MODULE TranscriptionService ------------------------
(***************************************************************************)
(* What the batch speech endpoint promises a client that names its         *)
(* requests: worker-rs/src/speech.rs, module documentation, "the id        *)
(* decides identity, a completed request replays its stored result, and a  *)
(* retry after a network drop therefore neither re-charges the account nor *)
(* duplicates segments".                                                   *)
(*                                                                         *)
(* A request id has at most one upstream call running, is called upstream  *)
(* again only after a call that failed or was lost, and once complete      *)
(* stays complete.  The promise lapses for a request once somebody is      *)
(* still at work on it when the service takes that work for dead: from     *)
(* then on the request is void, and nothing is said of it.                 *)
(***************************************************************************)
CONSTANT Keys        \* request ids: account, kind and client message id

VARIABLES
  status,   \* managed_speech_requests.status, "none" without a row
  calls     \* upstream calls running for the request, 0 if it is void

vars == <<status, calls>>

(* What was answered before stays answered.                                 *)
Init ==
  /\ status \in [Keys -> {"none", "complete"}]
  /\ calls = [k \in Keys |-> 0]

(* The request is reserved: nothing of it runs and nothing is stored.       *)
Reserve(k) ==
  /\ status[k] \in {"none", "failed"} /\ calls[k] = 0
  /\ status' = [status EXCEPT ![k] = "started"]
  /\ UNCHANGED calls

(* The one upstream call of the reservation is made.                        *)
Call(k) ==
  /\ status[k] = "started" /\ calls[k] = 0
  /\ calls' = [calls EXCEPT ![k] = 1]
  /\ UNCHANGED status

(* It ends and its outcome is stored.                                       *)
Settle(k, outcome) ==
  /\ status[k] = "started"
  /\ status' = [status EXCEPT ![k] = outcome]
  /\ calls' = [calls EXCEPT ![k] = 0]

(* It ends without an outcome: the caller was lost, and may be replaced.    *)
Abandon(k) ==
  /\ calls' = [calls EXCEPT ![k] = 0]
  /\ UNCHANGED status

(* Work outlives the window it is given: of one request, or of several at   *)
(* the same tick.                                                           *)
Lapse(K) ==
  /\ status' = [k \in Keys |-> IF k \in K THEN "void" ELSE status[k]]
  /\ calls' = [k \in Keys |-> IF k \in K THEN 0 ELSE calls[k]]

Next ==
  \/ \E k \in Keys :
       Reserve(k) \/ Call(k) \/ Abandon(k) \/ Settle(k, "complete") \/ Settle(k, "failed")
  \/ \E K \in SUBSET Keys : Lapse(K)

Spec == Init /\ [][Next]_vars
=============================================================================
