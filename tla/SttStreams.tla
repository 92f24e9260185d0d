------------------------------ MODULE SttStreams ------------------------------
(***************************************************************************)
(* Managed speech sessions over a WebSocket (worker-rs/src/routes_ai.rs):  *)
(* POST /v1/stt/sessions admits a session to the ledger of SttAdmission and*)
(* records it in managed_stt_sessions, GET .../stream claims it in the row *)
(* and in the ledger and relays its audio.  A client may create a session  *)
(* again and connect to it more than once; each await is a step, a post or *)
(* an update may be lost, and a request may end anywhere.                  *)
(*                                                                         *)
(* The module's actions are composed by SpeechSessions.  A client creates  *)
(* a session again with the parameters of the first time; complete and     *)
(* failed are one status, "over".                                          *)
(***************************************************************************)
EXTENDS SttAdmission

CONSTANTS
  Streams,   \* the ids of such sessions
  Requests   \* handlers at a time

VARIABLES
  session,   \* managed_stt_sessions
  request,   \* what each handler is at
  relayed    \* history: the relays that were started for each session

streams == <<session, request, relayed>>

Nobody == "nobody"
NoToken == 0

Session == [status : {"absent", "ready", "streaming", "over"},
            token : Tokens \cup {NoToken}]

(* owns: it acquired the slot, rather than being told who did.              *)
Request == [at : {"idle", "writing", "checking", "failing", "claiming", "relaying",
                  "leaving"},
            id : Streams \cup {Nobody}, token : Tokens \cup {NoToken}, owns : BOOLEAN]

Idle == [at |-> "idle", id |-> Nobody, token |-> NoToken, owns |-> FALSE]

StreamsInit ==
  /\ session = [s \in Streams |-> [status |-> "absent", token |-> NoToken]]
  /\ request = [h \in Requests |-> Idle]
  /\ relayed = [s \in Streams |-> 0]

Goes(h, at) == request' = [request EXCEPT ![h].at = at]
Done(h) == request' = [request EXCEPT ![h] = Idle]

Status(h) == session[request[h].id].status

-----------------------------------------------------------------------------
(* handle_stt_create                                                        *)

Begins(h, s, t, owns) ==
  request' = [request EXCEPT ![h] = [at |-> "writing", id |-> s, token |-> t, owns |-> owns]]

(* The answer of the ledger may be lost: 503, and nobody releases.          *)
Creates(h, s, t) ==
  /\ request[h].at = "idle"
  /\ AdmitFresh(s, t) \/ Reacquire(s, t)
  /\ Begins(h, s, t, TRUE) \/ UNCHANGED request
  /\ UNCHANGED <<session, relayed>>

CreatesAgain(h, s) ==
  /\ request[h].at = "idle"
  /\ AdmitDuplicate(s)
  /\ Begins(h, s, slots[s].token, FALSE)
  /\ UNCHANGED <<session, relayed>>

TurnedAway(h, s) ==
  /\ request[h].at = "idle"
  /\ Refuse(s)
  /\ UNCHANGED streams

(* The upsert, which renews the token of a session that is ready.           *)
Slip_Recorded(row, t) == [status |-> "ready", token |-> t]

Slip_Renewed(row, t) ==
  [row EXCEPT !.status = IF @ = "absent" THEN "ready" ELSE @, !.token = t]

Recorded(row, t) ==
  IF row.status \in {"absent", "ready"} THEN [status |-> "ready", token |-> t] ELSE row

(* Then the row is read back; without an answer the slot is released, if it *)
(* is the handler's.                                                        *)
Writes(h) ==
  /\ request[h].at = "writing"
  /\ session' = [session EXCEPT ![request[h].id] = Recorded(@, request[h].token)]
  /\ Done(h) \/ (request[h].owns /\ Goes(h, "leaving"))
  /\ UNCHANGED <<ledger, relayed>>

WriteFails(h) ==
  /\ request[h].at = "writing"
  /\ IF request[h].owns THEN Goes(h, "leaving") ELSE Done(h)
  /\ UNCHANGED <<ledger, session, relayed>>

-----------------------------------------------------------------------------
(* handle_stt_stream                                                        *)

Connects(h, s) ==
  /\ request[h].at = "idle"
  /\ session[s].status = "ready"
  /\ request' = [request EXCEPT ![h] =
                   [at |-> "checking", id |-> s, token |-> session[s].token, owns |-> FALSE]]
  /\ UNCHANGED <<ledger, session, relayed>>

(* A lapsed subscription or a missing setting, after the row was read.      *)
Rejected(h) ==
  /\ request[h].at = "checking"
  /\ Goes(h, "failing")
  /\ UNCHANGED <<ledger, session, relayed>>

Mine(h) == Status(h) = "ready" /\ session[request[h].id].token = request[h].token

ClaimsRow(h) ==
  /\ request[h].at = "checking"
  /\ Mine(h)
  /\ session' = [session EXCEPT ![request[h].id].status = "streaming"]
  /\ Goes(h, "claiming") \/ Goes(h, "failing")
  /\ UNCHANGED <<ledger, relayed>>

(* 409.                                                                     *)
Outrun(h) ==
  /\ request[h].at = "checking"
  /\ ~Mine(h)
  /\ Done(h)
  /\ UNCHANGED <<ledger, session, relayed>>

(* spawn_local of the relay, unless the row's length is beyond the setting. *)
ClaimsSlot(h) ==
  /\ request[h].at = "claiming"
  /\ Claim(request[h].id, request[h].token)
  /\ \/ /\ Goes(h, "relaying")
        /\ relayed' = [relayed EXCEPT ![request[h].id] = @ + 1]
     \/ Goes(h, "failing") /\ UNCHANGED relayed
  /\ UNCHANGED session

(* claimed: false, or no answer.                                            *)
SlotDenied(h) ==
  /\ request[h].at = "claiming"
  /\ ClaimLate(request[h].id, request[h].token) \/ UNCHANGED ledger
  /\ Goes(h, "failing")
  /\ UNCHANGED <<session, relayed>>

Closed(row, open) == IF row.status \in open THEN [row EXCEPT !.status = "over"] ELSE row

(* fail_and_release_stt, whichever handler the session is ready or streaming*)
(* for; the update may be lost.                                             *)
Fails(h) ==
  /\ request[h].at = "failing"
  /\ \/ session' = [session EXCEPT ![request[h].id] = Closed(@, {"ready", "streaming"})]
     \/ UNCHANGED session
  /\ Goes(h, "leaving")
  /\ UNCHANGED <<ledger, relayed>>

(* bridge_sockets at its end.                                               *)
RelayEnds(h) ==
  /\ request[h].at = "relaying"
  /\ \/ session' = [session EXCEPT ![request[h].id] = Closed(@, {"streaming"})]
     \/ UNCHANGED session
  /\ Goes(h, "leaving")
  /\ UNCHANGED <<ledger, relayed>>

-----------------------------------------------------------------------------
(* release_stt, whether or not it arrives.                                  *)
Leaves(h) ==
  /\ request[h].at = "leaving"
  /\ Release(request[h].id, request[h].token) \/ UNCHANGED ledger
  /\ Done(h)
  /\ UNCHANGED <<session, relayed>>

(* An isolate that is gone, or a relay that returns early.                  *)
Dies(h) ==
  /\ request[h].at # "idle"
  /\ Done(h)
  /\ UNCHANGED <<ledger, session, relayed>>

StreamTypeOK ==
  /\ session \in [Streams -> Session]
  /\ request \in [Requests -> Request]
  /\ relayed \in [Streams -> Nat]
=============================================================================
