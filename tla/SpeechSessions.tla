----------------------------- MODULE SpeechSessions -----------------------------
(***************************************************************************)
(* Speech streams and FaceTime calls over the one admission ledger they    *)
(* share.                                                                  *)
(***************************************************************************)
EXTENDS SttStreams, FaceTimeCalls

VARIABLE drawn   \* the tokens drawn so far; Tokens bounds them

vars == <<slots, alarm, session, request, relayed, record, dialer, bridge, placed,
          drawn>>

ASSUME SharedAssumption == Streams \cup Calls = Sessions /\ Tokens = 1..Cardinality(Tokens)

Init == LedgerInit /\ StreamsInit /\ CallsInit /\ drawn = 0

(* A uuid that was never drawn, whichever.                                  *)
Fresh(t) == t = drawn + 1 /\ drawn' = t

Acquires ==
  \E t \in Tokens :
    /\ Fresh(t)
    /\ \/ \E h \in Requests, s \in Streams : Creates(h, s, t) /\ UNCHANGED calls
       \/ \E d \in Dialers, c \in Calls : CallAdmitted(d, c, t) /\ UNCHANGED streams

StreamStep(h) ==
  \/ \E s \in Streams : CreatesAgain(h, s) \/ TurnedAway(h, s) \/ Connects(h, s)
  \/ Writes(h) \/ WriteFails(h) \/ Rejected(h) \/ ClaimsRow(h) \/ Outrun(h)
  \/ ClaimsSlot(h) \/ SlotDenied(h) \/ Fails(h) \/ RelayEnds(h) \/ Leaves(h) \/ Dies(h)

DialStep(d) ==
  \/ \E c \in Calls : CallTurnedAway(d, c)
  \/ Inserts(d) \/ InsertRefused(d) \/ Dials(d) \/ BridgeStarts(d) \/ BridgeRefuses(d)
  \/ BridgeAnswers(d) \/ BridgeFails(d) \/ StopsBridge(d) \/ DialerLeaves(d) \/ DialerDies(d)

BridgeStep(c) ==
  \/ ContainerExits(c) \/ MonitorSettles(c) \/ BridgeAlarm(c) \/ Settles(c) \/ Swept(c)

AlarmFires == Alarm /\ UNCHANGED <<streams, calls>>

Tick == Pass /\ UNCHANGED <<streams, calls>>

Next ==
  \/ Acquires
  \/ /\ UNCHANGED drawn
     /\ \/ \E h \in Requests : StreamStep(h) /\ UNCHANGED calls
        \/ \E d \in Dialers : DialStep(d) /\ UNCHANGED streams
        \/ \E c \in Calls : BridgeStep(c) /\ UNCHANGED streams
        \/ AlarmFires \/ Tick

Spec == Init /\ [][Next]_vars

-----------------------------------------------------------------------------

TypeOK == LedgerTypeOK /\ StreamTypeOK /\ CallTypeOK

Stage(status) ==
  CASE status \in {"absent", "ready"} -> "free"
    [] status = "streaming" -> "taken"
    [] status = "over" -> "over"

Relayed == INSTANCE SingleUse WITH
  Ids <- Streams, stage <- [s \in Streams |-> Stage(session[s].status)], uses <- relayed

(* However often a client creates a session or connects to it, and whoever  *)
(* fails on the way, its audio is relayed once, and what is over is not     *)
(* opened again.                                                            *)
RelayedOnce == Relayed!Spec

CallStage(status) ==
  CASE status = "absent" -> "free"
    [] status = "started" -> "taken"
    [] status = "ended" -> "over"

Placed == INSTANCE SingleUse WITH
  Ids <- Calls, stage <- [c \in Calls |-> CallStage(record[c])], uses <- placed

(* The same of a call: sent again after its slot was freed, after the cron  *)
(* closed its row or while it rings, it is not placed a second time.        *)
PlacedOnce == Placed!Spec

(* A slot that awaits no claim was claimed for a session whose row is past  *)
(* ready and names the slot's token: no alarm will free it, and whoever     *)
(* reads the row can.                                                       *)
ClaimedByItsRow ==
  \A s \in DOMAIN slots :
    slots[s].inFlight /\ ~slots[s].pending =>
      /\ s \in Streams
      /\ session[s].token = slots[s].token
      /\ session[s].status \in {"streaming", "over"}
=============================================================================
