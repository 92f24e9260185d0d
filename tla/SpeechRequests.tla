---------------------------- MODULE SpeechRequests ----------------------------
(***************************************************************************)
(* Keyed speech requests: reserve_speech, settle_speech and                *)
(* transcribe_audio_operation of worker-rs/src/routes_public.rs with       *)
(* decide_reservation of speech.rs, over one D1 row per request id and the *)
(* admission ledger of module SttAdmission, whose session is the same id.  *)
(*                                                                         *)
(* An attempt is one run of the operation.  Each await on D1, on the       *)
(* ledger or on the model is a step; attempts of one id interleave freely, *)
(* answers are lost, and an attempt may end anywhere (an evicted isolate,  *)
(* a caller that hung up).  Nothing bounds how long one takes: the call of *)
(* the model has no timeout, so an attempt may outlive the window after    *)
(* which its row counts as stale.                                          *)
(*                                                                         *)
(* An attempt that is refused or answered from the row changes nothing and *)
(* is no step here.  A stored result always parses.  Two clock readings of *)
(* different attempts are taken to differ.                                 *)
(***************************************************************************)
EXTENDS SttAdmission

CONSTANTS
  Attempts,
  Audio,        \* request hashes
  StaleWindow   \* stale_started_window_ms, in ticks

ASSUME SpeechAssumption == StaleWindow \in Nat \ {0}

VARIABLES
  rows,  \* managed_speech_requests, by id
  at,    \* where each attempt is, and its local variables
  late   \* history: ids of which an attempt was still at work when the row it
         \* had written counted as stale

steps == <<slots, alarm, rows, at>>

vars == <<slots, alarm, rows, at, late>>

Nothing == "nothing"

(* age: now - updated_at.                                                   *)
Row == [status : {"none", "started", "failed", "complete"},
        hash : Audio \cup {Nothing}, age : 0..StaleWindow]

NoRow == [status |-> "none", hash |-> Nothing, age |-> 0]

(* life: now minus the reading of the clock the attempt began with;         *)
(* same: the row is still the one it read.  What an attempt will not read   *)
(* again it forgets.                                                        *)
Attempt == [pc : {"idle", "admitting", "releasing", "readmitting", "writing",
                  "claiming", "calling", "settling", "leaving"},
            id : Sessions \cup {Nothing}, hash : Audio \cup {Nothing}, life : 0..StaleWindow,
            reclaims : BOOLEAN, same : BOOLEAN, token : Tokens \cup {Nothing},
            ok : BOOLEAN]

Idle ==
  [pc |-> "idle", id |-> Nothing, hash |-> Nothing,
   life |-> 0, reclaims |-> FALSE, same |-> FALSE, token |-> Nothing,
   ok |-> FALSE]

Init ==
  /\ LedgerInit
  /\ rows = [k \in Sessions |-> NoRow]
  /\ at = [a \in Attempts |-> Idle]
  /\ late = {}

Goes(a, pc) == at' = [at EXCEPT ![a].pc = pc]

(* What is left of an attempt that only has its slot to release.            *)
Leaving(a) == [Idle EXCEPT !.pc = "leaving", !.id = at[a].id, !.token = at[a].token]

GivesUp(a) == at' = [at EXCEPT ![a] = Leaving(a)]

Ends(a) == at' = [at EXCEPT ![a] = Idle]

-----------------------------------------------------------------------------
(* reserve_speech                                                           *)

(* decide_reservation lets the attempt on: nothing is recorded, or it       *)
(* failed, or it was started too long ago to be running.                    *)
Slip_Fresh(row, h) ==
  \/ row.status = "none"
  \/ row.status = "failed" /\ row.hash = h

Fresh(row, h) ==
  \/ row.status = "none"
  \/ row.status = "failed" /\ row.hash = h
  \/ row.status = "started" /\ row.hash = h /\ row.age = StaleWindow

Arrives(a, k, h) ==
  /\ at[a].pc = "idle"
  /\ Fresh(rows[k], h)
  /\ at' = [at EXCEPT ![a] =
              [Idle EXCEPT !.pc = "admitting", !.id = k, !.hash = h, !.same = TRUE,
                           !.reclaims = rows[k].status = "started"]]
  /\ UNCHANGED <<ledger, rows>>

Unused == Tokens \ ({at[a].token : a \in Attempts} \cup {slots[s].token : s \in DOMAIN slots})

(* admit_speech: the attempt owns the slot if it is new or reacquired.      *)
Owns(a) ==
  /\ at[a].pc \in {"admitting", "readmitting"}
  /\ \E t \in Unused :
       /\ AdmitFresh(at[a].id, t) \/ Reacquire(at[a].id, t)
       /\ \/ at' = [at EXCEPT ![a].pc = "writing", ![a].token = t]
          \/ Ends(a)
  /\ UNCHANGED rows

(* It does not: an attempt that reclaims the row goes on to release the     *)
(* slot of whoever holds it, once, and any other ends in progress (409).    *)
Shares(a) ==
  /\ at[a].pc \in {"admitting", "readmitting"}
  /\ AdmitDuplicate(at[a].id)
  /\ \/ /\ at[a].pc = "admitting" /\ at[a].reclaims
        /\ at' = [at EXCEPT ![a].pc = "releasing", ![a].token = slots[at[a].id].token]
     \/ Ends(a)
  /\ UNCHANGED rows

NoCapacity(a) ==
  /\ at[a].pc \in {"admitting", "readmitting"}
  /\ Refuse(at[a].id)
  /\ Ends(a)
  /\ UNCHANGED rows

(* The release of the earlier holder, whether or not it arrives.            *)
Releases(a) ==
  /\ at[a].pc = "releasing"
  /\ Release(at[a].id, at[a].token) \/ UNCHANGED ledger
  /\ at' = [at EXCEPT ![a].pc = "readmitting", ![a].token = Nothing]
  /\ UNCHANGED rows

(* The upsert and its WHERE clause.                                         *)
Slip_MayWrite(a) ==
  LET row == rows[at[a].id] IN
  row.status \in {"none", "failed"} \/ at[a].reclaims

MayWrite(a) ==
  LET row == rows[at[a].id] IN
  row.status \in {"none", "failed"} \/ (at[a].reclaims /\ at[a].same)

(* A written row is no longer the row that other attempts read.             *)
Moved(a, b) ==
  [at[b] EXCEPT !.same = @ /\ at[b].id # at[a].id]

Start(a) ==
  rows' = [rows EXCEPT ![at[a].id] =
             [status |-> "started", age |-> at[a].life,
              hash |-> IF @.status = "none" THEN at[a].hash ELSE @.hash]]

Writes(a) ==
  /\ at[a].pc = "writing"
  /\ MayWrite(a) /\ Start(a)
  /\ at' = [b \in Attempts |->
              IF b = a THEN [at[a] EXCEPT !.pc = "claiming", !.hash = Nothing,
                                          !.reclaims = FALSE, !.same = FALSE]
              ELSE Moved(a, b)]
  /\ UNCHANGED ledger

Overtaken(a) ==
  /\ at[a].pc = "writing"
  /\ ~MayWrite(a)
  /\ GivesUp(a)
  /\ UNCHANGED <<ledger, rows>>

(* D1 answers with an error, after or before the row was written.  The slot *)
(* is not released.                                                         *)
WriteFails(a) ==
  /\ at[a].pc = "writing"
  /\ \/ UNCHANGED rows /\ Ends(a)
     \/ /\ MayWrite(a) /\ Start(a)
        /\ at' = [b \in Attempts |-> IF b = a THEN Idle ELSE Moved(a, b)]
  /\ UNCHANGED ledger

(* /claim: any answer lets the attempt on, also "claimed: false".           *)
Claims(a) ==
  /\ at[a].pc = "claiming"
  /\ Claim(at[a].id, at[a].token) \/ ClaimLate(at[a].id, at[a].token)
  /\ Goes(a, "calling")
  /\ UNCHANGED rows

(* No answer: the slot is released and the attempt ends in progress (409).  *)
ClaimLost(a) ==
  /\ at[a].pc = "claiming"
  /\ UNCHANGED ledger \/ Claim(at[a].id, at[a].token)
  /\ GivesUp(a)
  /\ UNCHANGED rows

-----------------------------------------------------------------------------
(* The model, and settle_speech                                             *)

Answers(a) ==
  /\ at[a].pc = "calling"
  /\ \E ok \in BOOLEAN : at' = [at EXCEPT ![a].pc = "settling", ![a].ok = ok]
  /\ UNCHANGED <<ledger, rows>>

(* The update names the request and nothing else.                           *)
Settles(a) ==
  /\ at[a].pc = "settling"
  /\ rows' = [rows EXCEPT ![at[a].id] =
                [@ EXCEPT !.status = IF at[a].ok THEN "complete" ELSE "failed",
                          !.age = 0]]
  /\ at' = [b \in Attempts |->
              IF b = a THEN Leaving(a) ELSE Moved(a, b)]
  /\ UNCHANGED ledger

SettleFails(a) ==
  /\ at[a].pc = "settling"
  /\ GivesUp(a)
  /\ UNCHANGED <<ledger, rows>>

(* release_speech, whether or not it arrives.                               *)
Leaves(a) ==
  /\ at[a].pc = "leaving"
  /\ Release(at[a].id, at[a].token) \/ UNCHANGED ledger
  /\ Ends(a)
  /\ UNCHANGED rows

Dies(a) ==
  /\ at[a].pc # "idle"
  /\ Ends(a)
  /\ UNCHANGED <<ledger, rows>>

-----------------------------------------------------------------------------

AlarmFires == Alarm /\ UNCHANGED <<rows, at>>

Older(n) == IF n < StaleWindow THEN n + 1 ELSE n

(* One tick.                                                                *)
Tick ==
  /\ Pass
  /\ rows' = [k \in Sessions |-> [rows[k] EXCEPT
                !.age = IF rows[k].status = "started" THEN Older(@) ELSE @]]
  /\ at' = [a \in Attempts |-> [at[a] EXCEPT
                !.life = IF at[a].pc \in {"idle", "leaving"} THEN 0 ELSE Older(@)]]

Works(a) ==
  \/ Owns(a) \/ Shares(a) \/ NoCapacity(a) \/ Releases(a)
  \/ Writes(a) \/ Overtaken(a) \/ WriteFails(a) \/ Claims(a) \/ ClaimLost(a)
  \/ Answers(a) \/ Settles(a) \/ SettleFails(a) \/ Leaves(a) \/ Dies(a)

(* An attempt that has written its row and goes on.                         *)
Runs(a) == at[a].pc \in {"claiming", "calling", "settling"}

Overdue == {at[a].id : a \in {b \in Attempts : Runs(b) /\ at[b].life = StaleWindow}}

Step ==
  \/ \E a \in Attempts, k \in Sessions, h \in Audio : Arrives(a, k, h)
  \/ \E a \in Attempts : Works(a)
  \/ AlarmFires \/ Tick

Next == Step /\ late' = late \cup Overdue'

Spec == Init /\ [][Next]_vars

(* The client keeps retrying, as the uploader's queue does, and of each     *)
(* kind of step that can be taken again and again some attempt now and then *)
(* takes it: attempts do not for ever die in the same place.  The release   *)
(* of an earlier holder may for ever get lost.                              *)
Persistence ==
  /\ WF_steps(AlarmFires) /\ WF_steps(Tick)
  /\ \A a \in Attempts : WF_steps(Works(a))
  /\ SF_steps(\E a \in Attempts, k \in Sessions, h \in Audio : Arrives(a, k, h))
  /\ SF_steps(\E a \in Attempts : Owns(a) /\ at'[a].pc = "writing")
  /\ SF_steps(\E a \in Attempts : Writes(a))
  /\ SF_steps(\E a \in Attempts : Claims(a))
  /\ SF_steps(\E a \in Attempts : Answers(a))
  /\ SF_steps(\E a \in Attempts : Settles(a))

Persistent == Spec /\ Persistence

-----------------------------------------------------------------------------
(* Properties                                                               *)

TypeOK ==
  /\ LedgerTypeOK
  /\ rows \in [Sessions -> Row]
  /\ at \in [Attempts -> Attempt]
  /\ late \subseteq Sessions

Calling(k) == {a \in Attempts : at[a].pc \in {"calling", "settling"} /\ at[a].id = k}

(* The operation keeps what module TranscriptionService promises the        *)
(* client, through lost answers, dead attempts, a slot lost to the alarm    *)
(* and a stale row reclaimed by several attempts at once.  The promise      *)
(* lapses for a request, and for no other, when an attempt is still at work *)
(* on it as its row turns stale.                                            *)
Promise == INSTANCE TranscriptionService WITH
  Keys <- Sessions,
  status <- [k \in Sessions |-> IF k \in late THEN "void" ELSE rows[k].status],
  calls <- [k \in Sessions |-> IF k \in late THEN 0 ELSE Cardinality(Calling(k))]

PromiseKept == Promise!Spec

(* A request that was started is finished: neither the row of a dead        *)
(* attempt nor the slot it held wedges the id.                              *)
NotWedged ==
  \A k \in Sessions :
    rows[k].status = "started" ~> rows[k].status \in {"complete", "failed"}
=============================================================================
