---------------------------- MODULE CaptureDrain ----------------------------
(***************************************************************************)
(* Uploading the write-ahead log: capture_wal_uploader.rs (one pass), the  *)
(* draining flag of capture_service.rs, the outcomes of capture_upload.rs, *)
(* and the transcription endpoint as the uploader sees it.                 *)
(*                                                                         *)
(* A pass lists the log once, then takes the log only to read a segment    *)
(* and to remove it; commands, evictions, re-openings and the death of the *)
(* process fall between any two of its steps.                              *)
(*                                                                         *)
(* The endpoint here is the promised one (module TranscriptionService      *)
(* states its promise, SpeechRequests is its code): an id is reserved,     *)
(* then complete or failed, whether or not the phone still waits.  Its     *)
(* request hash covers the length of the audio and not the audio.          *)
(***************************************************************************)
EXTENDS CaptureWal

CONSTANTS
  MaxAttempts,  \* DEFAULT_MAX_ATTEMPTS_PER_PASS
  Silent        \* frames in which the model hears no words

ASSUME DrainAssumption == MaxAttempts \in Nat \ {0}

VARIABLES
  pass,     \* where the pass is: "idle" exactly when draining is false
  queue,    \* the listed segments the pass still has to visit
  payload,  \* the audio read for the head of the queue
  attempt,  \* retryable answers to the head so far
  verdict,  \* what the endpoint said of the head
  status,   \* endpoint: id -> none, started, complete or failed
  stored    \* endpoint: id -> the audio of its request

passVars == <<pass, queue, payload, attempt, verdict>>
serverVars == <<status, stored>>
drainVars == <<passVars, serverVars>>
allVars == <<vars, drainVars>>

Ids == ({"live"} \X (0..MaxMinted)) \cup ({"ring"} \X Sources)

(* capture_upload_payload: the packets unframe finds, empty when none.      *)
Packaged(audio) ==
  LET torn == {i \in DOMAIN audio : audio[i] = Torn} IN
  IF torn = {} THEN audio ELSE SubSeq(audio, 1, Min(torn) - 1)

(* plan_transcription's hash: container, language and length of the audio.  *)
Slip_SameHash(p, q) == TRUE

SameHash(p, q) == Len(p) = Len(q)

HasWords(p) == \E i \in DOMAIN p : p[i] \notin Silent

DrainInit ==
  /\ Init
  /\ pass = "idle" /\ queue = <<>> /\ payload = <<>>
  /\ attempt = 0 /\ verdict = "none"
  /\ status = [k \in Ids |-> "none"]
  /\ stored = [k \in Ids |-> <<>>]

-----------------------------------------------------------------------------
(* The pass                                                                 *)

(* start_drain, from the minute tick or a Drain command; a second request   *)
(* finds draining set and returns.  CaptureWal::pending lists oldest first. *)
Listing ==
  LET files == Listed(sealed) IN
  CHOOSE q \in [1..Cardinality(files) -> files] :
    \A i, j \in DOMAIN q : i < j => q[i].seq < q[j].seq

StartDrain ==
  /\ pass = "idle"
  /\ pass' = "reading"
  /\ queue' = IF ready THEN Listing ELSE <<>>
  /\ UNCHANGED <<vars, payload, attempt, verdict, serverVars>>

(* The file the head names, if there is one under that name.                *)
Present == {f \in Listed(sealed) : f.seq = Head(queue).seq /\ f.id = Head(queue).id}

(* read_audio: a segment evicted since the listing is passed over.          *)
ReadHead ==
  /\ pass = "reading" /\ queue # <<>>
  /\ \/ /\ ready /\ Present # {}
        /\ payload' = Packaged((CHOOSE f \in Present : TRUE).audio)
        /\ attempt' = 0
        /\ pass' = "uploading" /\ UNCHANGED queue
     \/ /\ ~ready \/ Present = {}
        /\ queue' = Tail(queue)
        /\ UNCHANGED <<pass, payload, attempt>>
  /\ UNCHANGED <<vars, verdict, serverVars>>

Id == Head(queue).id

(* A retryable answer: another attempt, or the whole pass gives up.         *)
Slip_RetryForever ==
  /\ attempt' = IF attempt + 1 < MaxAttempts THEN attempt + 1 ELSE attempt
  /\ pass' = "uploading"
  /\ UNCHANGED <<queue, payload, verdict>>

Slip_RetrySkips ==
  \/ /\ attempt + 1 < MaxAttempts
     /\ attempt' = attempt + 1 /\ pass' = "uploading"
     /\ UNCHANGED <<queue, payload, verdict>>
  \/ /\ attempt + 1 >= MaxAttempts
     /\ queue' = Tail(queue) /\ pass' = "reading" /\ payload' = <<>> /\ attempt' = 0
     /\ UNCHANGED verdict

Retry ==
  \/ /\ attempt + 1 < MaxAttempts
     /\ attempt' = attempt + 1 /\ pass' = "uploading"
     /\ UNCHANGED <<queue, payload, verdict>>
  \/ /\ attempt + 1 >= MaxAttempts
     /\ pass' = "idle" /\ queue' = <<>> /\ payload' = <<>> /\ attempt' = 0
     /\ UNCHANGED verdict

Answer(v) ==
  /\ pass' = "removing" /\ verdict' = v
  /\ UNCHANGED <<queue, payload, attempt>>

(* The segment cannot be packaged: rejected without a request.              *)
Unpackageable ==
  /\ pass = "uploading" /\ payload = <<>>
  /\ Answer("rejected")
  /\ UNCHANGED <<vars, serverVars>>

(* The request does not arrive, is refused for now (401, 403, 429, 5xx), or *)
(* is answered by a response that is lost.                                  *)
Unreached ==
  /\ pass = "uploading" /\ payload # <<>>
  /\ Retry
  /\ UNCHANGED <<vars, serverVars>>

(* decide_reservation refuses an id that carried other audio (409).         *)
Conflict ==
  /\ pass = "uploading" /\ payload # <<>>
  /\ status[Id] # "none" /\ ~SameHash(stored[Id], payload)
  /\ Answer("rejected")
  /\ UNCHANGED <<vars, serverVars>>

(* It replays a complete request.                                           *)
Replay ==
  /\ pass = "uploading" /\ payload # <<>>
  /\ status[Id] = "complete" /\ SameHash(stored[Id], payload)
  /\ Answer("done")
  /\ UNCHANGED <<vars, serverVars>>

(* It reserves the id, or takes over a request that was started so long ago *)
(* that nothing can be running for it any more.                             *)
Reserve ==
  /\ pass = "uploading" /\ payload # <<>>
  /\ \/ status[Id] = "none"
     \/ status[Id] \in {"failed", "started"} /\ SameHash(stored[Id], payload)
  /\ status' = [status EXCEPT ![Id] = "started"]
  /\ stored' = [stored EXCEPT ![Id] = payload]
  /\ pass' = "waiting"
  /\ UNCHANGED <<vars, queue, payload, attempt, verdict>>

(* It refuses a request that may still be running (409, retried).           *)
InProgress ==
  /\ pass = "uploading" /\ payload # <<>>
  /\ status[Id] = "started"
  /\ Retry
  /\ UNCHANGED <<vars, serverVars>>

(* The answer to the request the phone waits for: 200, or 502 on a failure. *)
Answered ==
  /\ pass = "waiting"
  /\ \/ status[Id] = "complete" /\ Answer("done")
     \/ status[Id] = "failed" /\ Retry
  /\ UNCHANGED <<vars, serverVars>>

(* UPLOAD_TIMEOUT, or a lost connection.                                    *)
TimesOut ==
  /\ pass = "waiting"
  /\ Retry
  /\ UNCHANGED <<vars, serverVars>>

(* CaptureWal::remove under the lock, for an upload done or rejected alike. *)
Slip_RemoveHead ==
  /\ pass = "removing"
  /\ UNCHANGED vars
  /\ pass' = "reading" /\ queue' = Tail(queue)
  /\ payload' = <<>> /\ attempt' = 0 /\ verdict' = "none"
  /\ UNCHANGED serverVars

RemoveHead ==
  /\ pass = "removing"
  /\ IF ready /\ Present # {}
       THEN \E f \in Present : RemoveSegment(f)
       ELSE UNCHANGED vars
  /\ pass' = "reading" /\ queue' = Tail(queue)
  /\ payload' = <<>> /\ attempt' = 0 /\ verdict' = "none"
  /\ UNCHANGED serverVars

EndPass ==
  /\ pass = "reading" /\ queue = <<>>
  /\ pass' = "idle"
  /\ UNCHANGED <<vars, queue, payload, attempt, verdict, serverVars>>

-----------------------------------------------------------------------------
(* The endpoint, on its own clock                                           *)

(* The model's text is stored.  A reply without text is a failure.          *)
Completes(k) ==
  /\ status[k] = "started" /\ HasWords(stored[k])
  /\ status' = [status EXCEPT ![k] = "complete"]
  /\ UNCHANGED <<vars, passVars, stored>>

Fails(k) ==
  /\ status[k] = "started"
  /\ status' = [status EXCEPT ![k] = "failed"]
  /\ UNCHANGED <<vars, passVars, stored>>

-----------------------------------------------------------------------------

(* Everything the log does on the client's behalf goes on under the pass.   *)
LogCommand ==
  /\ \/ Open \/ Close \/ LiveCommands
     \/ \E s \in Sources : ImportRange(s)
     \/ Failures \/ Tick
  /\ UNCHANGED drainVars

(* The process takes its pass with it; the endpoint runs on.                *)
Death ==
  /\ Deaths
  /\ pass' = "idle" /\ queue' = <<>> /\ payload' = <<>>
  /\ attempt' = 0 /\ verdict' = "none"
  /\ UNCHANGED serverVars

PassStep ==
  \/ ReadHead \/ Unpackageable \/ Unreached \/ Conflict \/ Replay
  \/ Reserve \/ InProgress \/ Answered \/ TimesOut \/ RemoveHead \/ EndPass

Endpoint == \E k \in Ids : Completes(k) \/ Fails(k)

DrainNext == LogCommand \/ Death \/ StartDrain \/ PassStep \/ Endpoint

DrainSpec == DrainInit /\ [][DrainNext]_allVars

-----------------------------------------------------------------------------
(* Liveness.  The hub's tasks run (weak fairness of a pass and of the minute*)
(* tick) and the client opens the log.  Deaths happen any number of times,  *)
(* but end: a process killed for ever again uploads nothing.                *)

LivingNext == LogCommand \/ StartDrain \/ PassStep \/ Endpoint

LivingSpec ==
  /\ DrainInit /\ [][DrainNext]_allVars
  /\ <>[][LivingNext]_allVars
  /\ WF_allVars(PassStep) /\ WF_allVars(StartDrain)
  /\ WF_allVars(~ready /\ Open /\ UNCHANGED drainVars)

(* Of the world outside: a phone that keeps asking reaches the endpoint in  *)
(* the end, and one that keeps waiting hears what the model made of it: a   *)
(* transcript, or for audio without words the failure.                      *)
Judged == Completes(Id) \/ (~HasWords(stored[Id]) /\ Fails(Id))

Served ==
  /\ SF_allVars(Reserve \/ Replay \/ Conflict)
  /\ SF_allVars(pass = "waiting" /\ Judged) /\ SF_allVars(Answered)

-----------------------------------------------------------------------------
(* Properties                                                               *)

(* Live audio reaches the endpoint in the order it was captured: a segment  *)
(* is first reserved only while no later one was, whatever retries, deaths  *)
(* and re-openings came between ("uploading past a stuck segment would      *)
(* reorder the audio").                                                     *)
LiveAudioArrivesInOrder ==
  [][\A n, m \in 0..MaxMinted :
       /\ status[LiveId(n)] = "none" /\ status'[LiveId(n)] = "started"
       /\ n < m
       => status[LiveId(m)] = "none"]_allVars

(* A segment the pass removes as uploaded is one whose transcription the    *)
(* endpoint completed, not a request that later failed.  It transcribed the *)
(* audio the pass has read; and live audio, which exists nowhere else, is   *)
(* all of what is removed: not a prefix of it, not the audio of another     *)
(* file.  A ring range can be imported again under the name of its own cut  *)
(* off import while that is uploaded, and with failing storage two imports  *)
(* of it can differ and be of one length.                                   *)
UploadedMeansTranscribed ==
  [][RemoveHead /\ verdict = "done" =>
       \A f \in sealed \ sealed' :
         /\ status[f.id] = "complete"
         /\ f.id[1] = "live" => stored[f.id] = Packaged(f.audio)
         /\ ~Faults => stored[f.id] = payload]_allVars

(* A pass ends: whatever the network and the endpoint do, draining does not *)
(* stay set and keep every later pass away.                                 *)
PassEnds == [](pass # "idle" => <>(pass = "idle"))

(* Every sealed segment leaves the log, if uploads are served in the end.   *)
LogDrains ==
  Served => \A n \in 0..MaxMinted :
    (\E f \in Listed(sealed) : f.id = LiveId(n))
      ~> (\A f \in Listed(sealed) : f.id # LiveId(n))

=============================================================================
