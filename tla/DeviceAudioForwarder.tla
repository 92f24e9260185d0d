------------------------ MODULE DeviceAudioForwarder ------------------------
(* The phone's forwarder of pendant audio (device_audio_forwarder.dart): a  *)
(* session per start(), its frames handed to the hub's write-ahead log and  *)
(* to the transcription stream, its end at a gap, a lost link, a stop or a  *)
(* new start, and the restart it plans after a gap.                         *)
(*                                                                          *)
(* One Dart event loop runs it: a step is the code between two awaits.  A   *)
(* session is named by the generation of the start() that makes it.  The hub*)
(* takes commands in the order they are sent (one channel), and an await on *)
(* it may go on without an answer (HubCapture's timeouts), so a command does*)
(* its work where it is sent and the step after the await is always free.   *)
EXTENDS Integers, Sequences

CONSTANTS
  MaxPending,   \* maxPendingFrames
  MaxRestarts,  \* maxConsecutiveRestarts
  MaxActs,      \* bound: starts and stops of the user
  MaxFrames     \* bound: frames the pendant sends

ASSUME PendingAssumption == MaxPending \in Nat \ {0}
ASSUME RestartsAssumption == MaxRestarts \in Nat
ASSUME ForwarderBounds == MaxActs \in Nat /\ MaxFrames \in Nat

Calls == 1..(MaxActs + MaxFrames)  \* a restart follows a frame refused

VARIABLES
  generation,  \* _startGeneration
  acts,        \* starts and stops of the user so far
  call,        \* the start() of each generation: where it is, what it awaits
  sessions,    \* the _AudioSession of each generation
  current,     \* _session: its generation, or 0
  timer,       \* _restartTimer: the generation it was set at, or 0
  restarts,    \* _consecutiveRestarts
  gapBefore,   \* _gapBeforeNextSegment
  lastError,   \* none, a DeviceAudioGap, or any other error
  frame,       \* the next frame of the pendant
  segment,     \* the hub's open segment: its session (0: none open), its last
               \* frame, whether it is marked gapBefore
  lost         \* history: a gap ended the capture, and a restart is planned

loopVars == <<generation, acts, timer, restarts, gapBefore>>
forwarderVars ==
  <<generation, acts, call, sessions, current, timer, restarts, gapBefore,
    lastError, frame, segment, lost>>

Session ==
  [phase : {"open", "draining", "stopping", "sealing", "over"},
   accepting : BOOLEAN,   \* and finishing is phase # "open"
   heard : BOOLEAN,       \* the subscriptions are there
   connected : BOOLEAN,
   grace : BOOLEAN,       \* reconnectTimer runs
   started : BOOLEAN,
   abort : BOOLEAN,       \* abortRequested
   intended : BOOLEAN,    \* intentionalStop
   latest : 0..MaxFrames, \* the last frame accepted
   fresh : BOOLEAN,       \* previousPacketId is null
   rejoined : BOOLEAN,    \* history: the link was lost and came back
   pending : Seq(1..MaxFrames),
   carried : 0..MaxFrames, \* the frame _drain has in hand, or 0
   paused : BOOLEAN,
   broken : BOOLEAN]      \* history: the hub refused a frame of the stream

NoCall == [at |-> "none", awaits |-> 0]

NoSession ==
  [phase |-> "over", accepting |-> FALSE, heard |-> FALSE, connected |-> FALSE,
   grace |-> FALSE, started |-> FALSE, abort |-> FALSE, intended |-> FALSE,
   latest |-> 0, fresh |-> FALSE, rejoined |-> FALSE, pending |-> <<>>,
   carried |-> 0, paused |-> FALSE, broken |-> FALSE]

NewSession == [NoSession EXCEPT !.phase = "open", !.accepting = TRUE,
                                !.connected = TRUE, !.fresh = TRUE]

NoSegment == [of |-> 0, last |-> 0, marked |-> FALSE]

ForwarderInit ==
  /\ generation = 0 /\ acts = 0
  /\ call = [g \in Calls |-> NoCall]
  /\ sessions = [g \in Calls |-> NoSession]
  /\ current = 0 /\ timer = 0 /\ restarts = 0
  /\ gapBefore = FALSE /\ lastError = "none"
  /\ frame = 1 /\ segment = NoSegment /\ lost = FALSE

Finishing(g) == sessions[g].phase # "open"

(* _finish, up to its first await: the first caller ends the session, a     *)
(* later one only adds its abort and waits with it.                         *)
Ending(s, abort) ==
  IF s.phase = "open"
    THEN [s EXCEPT !.phase = "draining", !.accepting = FALSE, !.grace = FALSE,
                   !.abort = abort]
  ELSE IF s.phase = "over" THEN s
  ELSE [s EXCEPT !.abort = @ \/ abort]

Ends(g, abort) == sessions' = [sessions EXCEPT ![g] = Ending(@, abort)]

(* start() and stop() mark the session and end it (_stopCurrent).           *)
EndsCurrent ==
  sessions' = [g \in Calls |->
                IF g = current THEN Ending([sessions[g] EXCEPT !.intended = TRUE], TRUE)
                ELSE sessions[g]]

-----------------------------------------------------------------------------
(* start() and stop()                                                       *)

(* start() up to its first await.                                           *)
Starting ==
  /\ generation + 1 \in Calls
  /\ generation' = generation + 1
  /\ timer' = 0
  /\ call' = [call EXCEPT ![generation + 1] =
                [at |-> "stopping", awaits |-> current]]
  /\ EndsCurrent
  /\ UNCHANGED <<current, gapBefore, restarts, lastError, frame, segment>>

UserStarts ==
  /\ acts < MaxActs
  /\ acts' = acts + 1
  /\ Starting
  /\ lost' = FALSE

UserStops ==
  /\ acts < MaxActs
  /\ acts' = acts + 1
  /\ generation + 1 \in Calls
  /\ generation' = generation + 1
  /\ timer' = 0 /\ restarts' = 0
  /\ EndsCurrent
  /\ lost' = FALSE
  /\ UNCHANGED <<call, current, gapBefore, lastError, frame, segment>>

(* The restart timer, unless somebody started or stopped since.             *)
TimerFires ==
  /\ timer # 0
  /\ IF timer = generation
       THEN Starting /\ UNCHANGED <<acts, lost>>
       ELSE timer' = 0 /\ UNCHANGED <<generation, acts, call, sessions, current,
              restarts, gapBefore, lastError, frame, segment, lost>>

Returns(g) == call' = [call EXCEPT ![g] = NoCall]

(* The session it waited for is over.  A newer start or stop cancels it;    *)
(* otherwise it makes its session and asks for a transcription stream.  A   *)
(* hub or a relay that has gone makes it return with nothing, a codec it    *)
(* does not know makes it throw.                                            *)
Ready(g) ==
  /\ call[g].at = "stopping"
  /\ \A h \in Calls : call[g].awaits = h => sessions[h].phase = "over"
  /\ \/ /\ g # generation
        /\ Returns(g)
        /\ UNCHANGED <<sessions, current, lastError, lost>>
     \/ /\ g = generation
        /\ lastError' = "none"
        /\ current' = g
        /\ sessions' = [sessions EXCEPT ![g] = NewSession]
        /\ call' = [call EXCEPT ![g] = [at |-> "transcribing", awaits |-> 0]]
        /\ UNCHANGED lost
     \/ /\ g = generation
        /\ Returns(g)
        /\ lastError' = "none" /\ lost' = FALSE
        /\ UNCHANGED <<sessions, current>>
  /\ UNCHANGED <<loopVars, frame, segment>>

(* The hub says that the stream has started.  A session that was ended in   *)
(* the meantime is not begun; otherwise its segment is (beginSegment seals  *)
(* the one before).                                                         *)
Slip_Started(g) ==
  /\ call[g].at = "transcribing"
  /\ sessions' = [sessions EXCEPT ![g].started = TRUE]
  /\ segment' = [of |-> g, last |-> 0, marked |-> gapBefore]
  /\ gapBefore' = FALSE
  /\ lost' = FALSE
  /\ call' = [call EXCEPT ![g].at = "beginning"]
  /\ UNCHANGED <<generation, acts, current, timer, restarts, lastError, frame>>

Started(g) ==
  /\ call[g].at = "transcribing"
  /\ IF g = generation /\ g = current /\ ~Finishing(g)
       THEN /\ sessions' = [sessions EXCEPT ![g].started = TRUE]
            /\ segment' = [of |-> g, last |-> 0, marked |-> gapBefore]
            /\ gapBefore' = FALSE
            /\ lost' = FALSE
            /\ call' = [call EXCEPT ![g].at = "beginning"]
       ELSE /\ Ends(g, TRUE)
            /\ call' = [call EXCEPT ![g].at = "failing"]
            /\ UNCHANGED <<segment, gapBefore, lost>>
  /\ UNCHANGED <<generation, acts, current, timer, restarts, lastError, frame>>

(* The hub refuses the stream, startTimeout passes, or the session's end    *)
(* cancels the wait.                                                        *)
Refused(g) ==
  /\ call[g].at = "transcribing"
  /\ lastError' = "other"
  /\ Ends(g, TRUE)
  /\ call' = [call EXCEPT ![g].at = "failing"]
  /\ UNCHANGED <<loopVars, current, frame, segment, lost>>

(* start() throws once the session it gave up is over; the restart's own    *)
(* start() tells the user so.                                               *)
Throws(g) ==
  /\ call[g].at = "failing" /\ sessions[g].phase = "over"
  /\ Returns(g)
  /\ lost' = FALSE
  /\ UNCHANGED <<loopVars, sessions, current, lastError, frame, segment>>

(* The segment is begun, or the hub did not answer: start() listens to the  *)
(* frames and to the link, whatever became of the session meanwhile.        *)
SegmentBegun(g) ==
  /\ call[g].at = "beginning"
  /\ sessions' = [sessions EXCEPT ![g].heard = ~Finishing(g)]
  /\ Returns(g)
  /\ UNCHANGED <<loopVars, current, lastError, frame, segment, lost>>

-----------------------------------------------------------------------------
(* The pendant and the link                                                 *)

(* A frame that reaches nobody: dropped in the air, or sent to no listener. *)
FrameLost ==
  /\ frame <= MaxFrames
  /\ frame' = frame + 1
  /\ UNCHANGED <<loopVars, call, sessions, current, lastError, segment, lost>>

Listens(g) ==
  /\ frame <= MaxFrames
  /\ g = current /\ sessions[g].heard
  /\ sessions[g].accepting /\ sessions[g].connected /\ ~sessions[g].paused

(* _continuityGap, for a frame that is whole.                               *)
Continuous(s) == s.fresh \/ frame = s.latest + 1

(* _accept: the frame follows the last and there is room for it.            *)
Accept(g) ==
  /\ Listens(g)
  /\ Continuous(sessions[g]) /\ Len(sessions[g].pending) < MaxPending
  /\ frame' = frame + 1
  /\ restarts' = 0
  /\ sessions' = [sessions EXCEPT ![g].pending = Append(@, frame),
                                ![g].latest = frame, ![g].fresh = FALSE,
                                ![g].paused = Len(sessions[g].pending) = MaxPending - 1]
  /\ UNCHANGED <<generation, acts, call, current, timer, gapBefore, lastError, segment, lost>>

(* Any other frame, and one that is not whole, too long or the middle of a  *)
(* packet: _fail ends the session.                                          *)
Reject(g) ==
  /\ Listens(g)
  /\ frame' = frame + 1
  /\ lastError' = "gap"
  /\ Ends(g, TRUE)
  /\ UNCHANGED <<loopVars, call, current, segment, lost>>

LinkDrops(g) ==
  /\ sessions[g].phase = "open" /\ sessions[g].heard /\ sessions[g].connected
  /\ sessions' = [sessions EXCEPT ![g].connected = FALSE, ![g].grace = TRUE]
  /\ UNCHANGED <<loopVars, call, current, lastError, frame, segment, lost>>

LinkReturns(g) ==
  /\ sessions[g].phase = "open" /\ ~sessions[g].connected
  /\ sessions' = [sessions EXCEPT ![g].connected = TRUE, ![g].grace = FALSE,
                                ![g].fresh = TRUE, ![g].rejoined = TRUE]
  /\ UNCHANGED <<loopVars, call, current, lastError, frame, segment, lost>>

(* reconnectGrace is over.                                                  *)
GraceOver(g) ==
  /\ sessions[g].grace
  /\ Ends(g, TRUE)
  /\ UNCHANGED <<loopVars, call, current, lastError, frame, segment, lost>>

(* The relay's stream of frames or of the link fails, or ends.              *)
SourceFails(g) ==
  /\ sessions[g].phase = "open" /\ sessions[g].heard
  /\ lastError' = "other"
  /\ Ends(g, TRUE)
  /\ UNCHANGED <<loopVars, call, current, frame, segment, lost>>

SourceEnds(g) ==
  /\ sessions[g].phase = "open" /\ sessions[g].heard
  /\ Ends(g, FALSE)
  /\ UNCHANGED <<loopVars, call, current, lastError, frame, segment, lost>>

-----------------------------------------------------------------------------
(* _drain                                                                   *)

Takes(g) ==
  /\ g = current
  /\ sessions[g].carried = 0 /\ sessions[g].pending # <<>>
  /\ sessions' = [sessions EXCEPT ![g].carried = Head(sessions[g].pending),
                                ![g].pending = Tail(@)]
  /\ UNCHANGED <<loopVars, call, current, lastError, frame, segment, lost>>

(* The frame goes to the log (append_frame writes to the open segment, or   *)
(* to none) and then to the stream.  A hub that refuses it there ends the   *)
(* session, and with it the frames that wait.                               *)
Appends(g) ==
  /\ sessions[g].carried # 0
  /\ segment' = IF segment.of = 0 THEN segment
                ELSE [segment EXCEPT !.last = sessions[g].carried]
  /\ \/ /\ sessions' = [sessions EXCEPT ![g].carried = 0,
              ![g].paused = @ /\ ~(sessions[g].accepting /\ sessions[g].pending = <<>>)]
        /\ UNCHANGED lastError
     \/ /\ sessions' = [sessions EXCEPT ![g] =
              Ending([@ EXCEPT !.carried = 0, !.pending = <<>>, !.broken = TRUE], TRUE)]
        /\ lastError' = "other"
  /\ UNCHANGED <<loopVars, call, current, frame, lost>>

-----------------------------------------------------------------------------
(* The rest of _finish                                                      *)

(* Every frame accepted is drained before the end of the stream is sent, or *)
(* the stop when the session is aborted or cannot send it; the log's seal   *)
(* comes last.                                                              *)
Drained(g) ==
  /\ sessions[g].phase = "draining"
  /\ sessions[g].carried = 0 /\ sessions[g].pending = <<>>
  /\ \/ /\ sessions[g].started /\ ~sessions[g].abort
        /\ sessions' = [sessions EXCEPT ![g].phase = "sealing"]
        /\ segment' = NoSegment
        /\ UNCHANGED lastError
     \/ /\ sessions' = [sessions EXCEPT ![g].phase = "stopping"]
        /\ lastError' = IF sessions[g].started /\ ~sessions[g].abort
                          THEN "other" ELSE lastError
        /\ UNCHANGED segment
  /\ UNCHANGED <<loopVars, call, current, frame, lost>>

(* _stopTranscription is answered, refused or given up; then the seal.      *)
Stopped(g) ==
  /\ sessions[g].phase = "stopping"
  /\ sessions' = [sessions EXCEPT ![g].phase = "sealing"]
  /\ segment' = NoSegment
  /\ lastError' \in {lastError, "other"}
  /\ UNCHANGED <<loopVars, call, current, frame, lost>>

(* The end of _finish, with _recover for a session nobody asked to end: a   *)
(* restart is planned after a gap on a link that holds, unless too many came*)
(* to nothing; otherwise the user is told.                                  *)
Transient(g) == lastError = "gap" /\ sessions[g].connected

Slip_Recovers(g) ==
  IF Transient(g) /\ restarts < MaxRestarts
    THEN /\ restarts' = restarts + 1 /\ gapBefore' = TRUE
         /\ timer' = 0 /\ lost' = TRUE
    ELSE UNCHANGED <<restarts, gapBefore, timer>> /\ lost' = FALSE

Recovers(g) ==
  IF Transient(g) /\ restarts < MaxRestarts
    THEN /\ restarts' = restarts + 1 /\ gapBefore' = TRUE
         /\ timer' = generation /\ lost' = TRUE
    ELSE UNCHANGED <<restarts, gapBefore, timer>> /\ lost' = FALSE

Over(g) ==
  /\ sessions[g].phase = "sealing"
  /\ current' = IF current = g THEN 0 ELSE current
  /\ sessions' = [sessions EXCEPT ![g] = NoSession]
  /\ IF sessions[g].abort /\ ~sessions[g].intended
       THEN Recovers(g)
       ELSE UNCHANGED <<restarts, gapBefore, timer, lost>>
  /\ UNCHANGED <<generation, acts, call, lastError, frame, segment>>

-----------------------------------------------------------------------------

CallStep(g) == Ready(g) \/ Started(g) \/ Refused(g) \/ Throws(g) \/ SegmentBegun(g)

SessionStep(g) == Takes(g) \/ Appends(g) \/ Drained(g) \/ Stopped(g) \/ Over(g)

World(g) ==
  \/ Accept(g) \/ Reject(g)
  \/ LinkDrops(g) \/ LinkReturns(g) \/ GraceOver(g)
  \/ SourceFails(g) \/ SourceEnds(g)

Loop == TimerFires \/ \E g \in Calls : CallStep(g) \/ SessionStep(g)

ForwarderNext ==
  \/ UserStarts \/ UserStops \/ FrameLost \/ Loop
  \/ \E g \in Calls : World(g)

ForwarderSpec == ForwarderInit /\ [][ForwarderNext]_forwarderVars

(* The event loop goes on: what is due runs, and every wait of it has a     *)
(* timeout.                                                                 *)
FairSpec == ForwarderSpec /\ WF_forwarderVars(Loop)

-----------------------------------------------------------------------------
(* Properties                                                               *)

ForwarderTypeOK ==
  /\ generation \in Calls \cup {0} /\ acts \in 0..MaxActs
  /\ call \in [Calls ->
       [at : {"none", "stopping", "transcribing", "failing", "beginning"},
        awaits : Calls \cup {0}]]
  /\ sessions \in [Calls -> Session]
  /\ current \in Calls \cup {0} /\ timer \in Calls \cup {0}
  /\ restarts \in 0..MaxRestarts /\ gapBefore \in BOOLEAN
  /\ lastError \in {"none", "gap", "other"}
  /\ frame \in 1..(MaxFrames + 1)
  /\ segment \in [of : Calls \cup {0}, last : 0..MaxFrames, marked : BOOLEAN]
  /\ lost \in BOOLEAN

(* A segment holds one stretch of one session's audio, whole: a frame is    *)
(* only ever appended to the segment of the session that accepted it, next  *)
(* to the frame before unless the link was lost in between; it is sealed    *)
(* with every frame the session accepted, unless the hub refused the stream;*)
(* and after a gap that is to be restarted over, the next one is marked.    *)
SegmentsAreWhole ==
  [][/\ \A g \in Calls : sessions[g].carried # 0 /\ sessions'[g].carried = 0 =>
          /\ segment.of = g /\ segment'.of = g
          /\ segment.last < sessions[g].carried
          /\ segment.last \in {0, sessions[g].carried - 1} \/ sessions[g].rejoined
     /\ segment.of # 0 /\ segment'.of # segment.of =>
          segment.last = sessions[segment.of].latest \/ sessions[segment.of].broken
     /\ segment.of = 0 /\ segment'.of # 0 /\ lost => segment'.marked]_forwarderVars

(* No segment stays open without a session that will seal it ("a segment    *)
(* left open would be skipped by the uploader forever"), and there is one   *)
(* session at a time.                                                       *)
SegmentsHaveTheirSession ==
  /\ segment.of # 0 => segment.of = current /\ sessions[current].started
  /\ \A g \in Calls : sessions[g].phase # "over" <=> g = current

(* After a gap whose restart is planned, capture runs again, a restart has  *)
(* failed with the user told, or the user has started or stopped it.  One   *)
(* case counts as an end of the matter though nobody is told: a restart that*)
(* finds no hub or no relay returns with nothing (Ready).                   *)
LossIsRecovered == lost ~> ~lost

=============================================================================
