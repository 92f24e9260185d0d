----------------------------- MODULE FaceTimeCalls -----------------------------
(***************************************************************************)
(* FaceTime calls (worker-rs/src/routes_facetime.rs): start_session admits *)
(* a call to the ledger of SttAdmission, records it in managed_ai_requests,*)
(* has the provider place it, and starts the bridge, a Durable Object with *)
(* a container of its own per call.  The bridge ends with its container, a *)
(* stop, or its alarm, and settles.  A client may send a call again.       *)
(* The length of a call is left open, so its alarm may fire at any time; an*)
(* object that is evicted is one that takes no further step.               *)
(*                                                                         *)
(* The module's actions are composed by SpeechSessions.                    *)
(***************************************************************************)
EXTENDS SttAdmission

CONSTANTS
  Calls,       \* the ids of calls
  Dialers      \* start_session handlers at a time

VARIABLES
  record,   \* managed_ai_requests
  dialer,   \* what each handler is at
  bridge,   \* FaceTimeBridge, by call
  placed    \* history: how often each call was placed

calls == <<record, dialer, bridge, placed>>

NoCall == "no call"
Unset == 0

Dialer == [at : {"idle", "inserting", "dialling", "starting", "ringing", "stopping",
                 "leaving"},
           id : Calls \cup {NoCall}, token : Tokens \cup {Unset}]

(* stored: the token of the stored session.  settling: the token settle has *)
(* yet to release.                                                          *)
Bridge == [running : BOOLEAN, stored : Tokens \cup {Unset}, alarmed : BOOLEAN,
           settling : Tokens \cup {Unset}]

Free == [at |-> "idle", id |-> NoCall, token |-> Unset]
NoBridge == [running |-> FALSE, stored |-> Unset, alarmed |-> FALSE, settling |-> Unset]

CallsInit ==
  /\ record = [c \in Calls |-> "absent"]
  /\ dialer = [d \in Dialers |-> Free]
  /\ bridge = [c \in Calls |-> NoBridge]
  /\ placed = [c \in Calls |-> 0]

Turns(d, at) == dialer' = [dialer EXCEPT ![d].at = at]
HangsUp(d) == dialer' = [dialer EXCEPT ![d] = Free]

-----------------------------------------------------------------------------
(* start_session                                                            *)

(* The answer may be lost.                                                  *)
CallAdmitted(d, c, t) ==
  /\ dialer[d].at = "idle"
  /\ AdmitFresh(c, t) \/ Reacquire(c, t)
  /\ \/ dialer' = [dialer EXCEPT ![d] = [at |-> "inserting", id |-> c, token |-> t]]
     \/ UNCHANGED dialer
  /\ UNCHANGED <<record, bridge, placed>>

(* A duplicate, or no capacity.                                             *)
CallTurnedAway(d, c) ==
  /\ dialer[d].at = "idle"
  /\ AdmitDuplicate(c) \/ Refuse(c)
  /\ UNCHANGED calls

Slip_Inserts(d) ==
  /\ dialer[d].at = "inserting"
  /\ record' = [record EXCEPT ![dialer[d].id] = "started"]
  /\ Turns(d, "dialling") \/ Turns(d, "leaving")
  /\ UNCHANGED <<ledger, bridge, placed>>

(* The id is the table's key.  An insert may fail after it took effect.     *)
Inserts(d) ==
  /\ dialer[d].at = "inserting"
  /\ record[dialer[d].id] = "absent"
  /\ record' = [record EXCEPT ![dialer[d].id] = "started"]
  /\ Turns(d, "dialling") \/ Turns(d, "leaving")
  /\ UNCHANGED <<ledger, bridge, placed>>

InsertRefused(d) ==
  /\ dialer[d].at = "inserting"
  /\ Turns(d, "leaving")
  /\ UNCHANGED <<ledger, record, bridge, placed>>

(* start_call: after a timeout the call may have been placed.               *)
Dials(d) ==
  /\ dialer[d].at = "dialling"
  /\ \/ /\ placed' = [placed EXCEPT ![dialer[d].id] = @ + 1]
        /\ Turns(d, "starting") \/ Turns(d, "leaving")
     \/ Turns(d, "leaving") /\ UNCHANGED placed
  /\ UNCHANGED <<ledger, record, bridge>>

(* teardown and settle, up to the release.                                  *)
TornDown(b) ==
  [b EXCEPT !.running = FALSE, !.stored = Unset, !.alarmed = FALSE,
            !.settling = IF b.stored = Unset THEN @ ELSE b.stored]

(* The bridge's start, up to its request to the container.  The object may  *)
(* go before its alarm is set.                                              *)
BridgeStarts(d) ==
  LET c == dialer[d].id IN
  /\ dialer[d].at = "starting"
  /\ ~bridge[c].running
  /\ \/ /\ bridge' = [bridge EXCEPT ![c] =
                        [@ EXCEPT !.running = TRUE, !.stored = dialer[d].token,
                                  !.alarmed = TRUE]]
        /\ Turns(d, "ringing")
     \/ /\ bridge' = [bridge EXCEPT ![c] =
                        [@ EXCEPT !.running = TRUE, !.stored = dialer[d].token]]
        /\ Turns(d, "stopping")
  /\ UNCHANGED <<ledger, record, placed>>

(* It refuses, or the post is lost.                                         *)
BridgeRefuses(d) ==
  /\ dialer[d].at = "starting"
  /\ Turns(d, "stopping")
  /\ UNCHANGED <<ledger, record, bridge, placed>>

(* 200, or an answer that is lost.                                          *)
BridgeAnswers(d) ==
  /\ dialer[d].at = "ringing"
  /\ HangsUp(d) \/ Turns(d, "stopping")
  /\ UNCHANGED <<ledger, record, bridge, placed>>

(* The container does not take the call.                                    *)
BridgeFails(d) ==
  /\ dialer[d].at = "ringing"
  /\ bridge' = [bridge EXCEPT ![dialer[d].id] = TornDown(@)]
  /\ Turns(d, "stopping")
  /\ UNCHANGED <<ledger, record, placed>>

(* stop_bridge, whether or not it arrives.                                  *)
StopsBridge(d) ==
  /\ dialer[d].at = "stopping"
  /\ bridge' \in {bridge, [bridge EXCEPT ![dialer[d].id] = TornDown(@)]}
  /\ Turns(d, "leaving")
  /\ UNCHANGED <<ledger, record, placed>>

(* release_admission, whether or not it arrives.                            *)
DialerLeaves(d) ==
  /\ dialer[d].at = "leaving"
  /\ Release(dialer[d].id, dialer[d].token) \/ UNCHANGED ledger
  /\ HangsUp(d)
  /\ UNCHANGED <<record, bridge, placed>>

DialerDies(d) ==
  /\ dialer[d].at # "idle"
  /\ HangsUp(d)
  /\ UNCHANGED <<ledger, record, bridge, placed>>

-----------------------------------------------------------------------------
(* The bridge                                                               *)

(* The caller hung up, it crashed, or its own deadline is over.             *)
ContainerExits(c) ==
  /\ bridge[c].running
  /\ bridge' = [bridge EXCEPT ![c].running = FALSE]
  /\ UNCHANGED <<ledger, record, dialer, placed>>

(* What waits for the container to exit, if it is still there.              *)
MonitorSettles(c) ==
  /\ bridge[c].alarmed /\ ~bridge[c].running
  /\ bridge' = [bridge EXCEPT ![c] = TornDown(@)]
  /\ UNCHANGED <<ledger, record, dialer, placed>>

BridgeAlarm(c) ==
  /\ bridge[c].alarmed
  /\ bridge' = [bridge EXCEPT ![c] = TornDown(@)]
  /\ UNCHANGED <<ledger, record, dialer, placed>>

(* The release may be lost, and so may the update of the record.            *)
Settles(c) ==
  /\ bridge[c].settling # Unset
  /\ Release(c, bridge[c].settling) \/ UNCHANGED ledger
  /\ bridge' = [bridge EXCEPT ![c].settling = Unset]
  /\ record' \in {record, [record EXCEPT ![c] = "ended"]}
  /\ UNCHANGED <<dialer, placed>>

(* The cron of ManagedRequests ends what has been started for two minutes,  *)
(* call or no call.                                                         *)
Swept(c) ==
  /\ record[c] = "started"
  /\ record' = [record EXCEPT ![c] = "ended"]
  /\ UNCHANGED <<ledger, dialer, bridge, placed>>

CallTypeOK ==
  /\ record \in [Calls -> {"absent", "started", "ended"}]
  /\ dialer \in [Dialers -> Dialer]
  /\ bridge \in [Calls -> Bridge]
  /\ placed \in [Calls -> Nat]
=============================================================================
