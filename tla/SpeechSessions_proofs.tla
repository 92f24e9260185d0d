------------------------- MODULE SpeechSessions_proofs -------------------------
(***************************************************************************)
(* Proofs about speech streams and FaceTime calls, for every set of        *)
(* sessions, handlers and tokens and every value of the limits.            *)
(***************************************************************************)
EXTENDS SpeechSessions, TLAPS

-----------------------------------------------------------------------------
(* The ledger: what an operation other than a claim leaves                  *)

Claimed(slot) == slot.inFlight /\ ~slot.pending

(* Whatever it holds unclaimed or freed, what is claimed was so before.     *)
ClaimsNothing(held) ==
  /\ DOMAIN held \subseteq Sessions
  /\ \A s \in DOMAIN held :
       /\ held[s] \in Slot
       /\ Claimed(held[s]) =>
            s \in DOMAIN slots /\ Claimed(slots[s]) /\ slots[s].token = held[s].token

LEMMA DeadlinesAreNatural ==
  ASSUME NEW held, \A s \in DOMAIN held : held[s] \in Slot
  PROVE  NextAlarm(held) \subseteq Nat
BY DEF NextAlarm, Deadlines, Slot

LEMMA SlotFreed ==
  ASSUME NEW slot \in Slot
  PROVE  Freed(slot) \in Slot /\ ~Claimed(Freed(slot))
BY DEF Freed, Slot, Claimed

LEMMA SlotAcquired ==
  ASSUME NEW n \in Nat, NEW t \in Tokens
  PROVE  Acquired(n, t) \in Slot /\ ~Claimed(Acquired(n, t))
BY LimitsAssumption DEF Acquired, Slot, Claimed

LEMMA LiveIsPart ==
  ASSUME LedgerTypeOK
  PROVE  /\ DOMAIN Live \subseteq DOMAIN slots
         /\ \A s \in DOMAIN Live : Live[s] = slots[s]
         /\ ClaimsNothing(Live)
BY DEF LedgerTypeOK, Live, Restrict, ClaimsNothing

(* A window's age is a natural number.                                      *)
LEMMA WindowAge ==
  ASSUME NEW n \in Nat
  PROVE  Min({n, Window}) \in Nat
<1>1. Window \in Nat
  BY LimitsAssumption
<1>2. CASE n <= Window
  BY <1>1, <1>2 DEF Min
<1>3. CASE n > Window
  BY <1>1, <1>3 DEF Min
<1> QED
  BY <1>1, <1>2, <1>3

LEMMA Admitting ==
  ASSUME LedgerTypeOK, NEW s \in Sessions, NEW t \in Tokens,
         \/ AdmitFresh(s, t) \/ Reacquire(s, t) \/ AdmitDuplicate(s) \/ Refuse(s)
  PROVE  ClaimsNothing(slots') /\ alarm' \subseteq Nat
<1>1. CASE AdmitFresh(s, t)
  BY <1>1, LiveIsPart, SlotAcquired, DeadlinesAreNatural DEF AdmitFresh, Save, ClaimsNothing
<1>2. CASE Reacquire(s, t)
  <2>1. s \in DOMAIN Live /\ Live[s].age \in Nat
    BY <1>2, LiveIsPart DEF Reacquire, ClaimsNothing, Slot
  <2> QED
    BY <1>2, <2>1, LiveIsPart, SlotAcquired, DeadlinesAreNatural
    DEF Reacquire, Save, ClaimsNothing
<1>3. CASE AdmitDuplicate(s) \/ Refuse(s)
  BY <1>3, LiveIsPart, DeadlinesAreNatural DEF AdmitDuplicate, Refuse, Save, ClaimsNothing
<1> QED
  BY <1>1, <1>2, <1>3

LEMMA Releasing ==
  ASSUME LedgerTypeOK, NEW s, NEW t, Release(s, t) \/ ClaimLate(s, t)
  PROVE  ClaimsNothing(slots') /\ alarm' \subseteq Nat
<1>1. CASE slots' = slots /\ alarm' = NextAlarm(slots)
  BY <1>1, DeadlinesAreNatural DEF LedgerTypeOK, ClaimsNothing
<1>2. CASE /\ s \in DOMAIN slots
           /\ slots' = [slots EXCEPT ![s] = Freed(@)] /\ alarm' = NextAlarm(slots')
  BY <1>2, SlotFreed, DeadlinesAreNatural DEF LedgerTypeOK, ClaimsNothing
<1> QED
  BY <1>1, <1>2 DEF Release, ClaimLate, Save, Holds

LEMMA Ageing ==
  ASSUME LedgerTypeOK, Alarm \/ Pass
  PROVE  ClaimsNothing(slots') /\ alarm' \subseteq Nat
<1>1. CASE Alarm
  BY <1>1, SlotFreed, DeadlinesAreNatural DEF LedgerTypeOK, Alarm, Save, ClaimsNothing
<1>2. CASE Pass
  <2>1. ASSUME NEW s \in DOMAIN slots
        PROVE  slots'[s] \in Slot /\ Claimed(slots'[s]) = Claimed(slots[s])
               /\ slots'[s].token = slots[s].token
    <3>1. slots[s].age + 1 \in Nat /\ slots[s].left \in Nat
      BY DEF LedgerTypeOK, Slot
    <3>2. Min({slots[s].age + 1, Window}) \in Nat /\ Sooner(slots[s].left) \in Nat
      BY <3>1, WindowAge DEF Sooner
    <3> QED
      BY <1>2, <3>2 DEF Pass, LedgerTypeOK, Slot, Claimed
  <2>2. alarm' \subseteq Nat
    <3>1. \A n \in Nat : Sooner(n) \in Nat
      BY DEF Sooner
    <3>2. alarm' = {Sooner(n) : n \in alarm} /\ alarm \subseteq Nat
      BY <1>2 DEF Pass, LedgerTypeOK
    <3> QED
      BY <3>1, <3>2
  <2> QED
    BY <1>2, <2>1, <2>2 DEF Pass, LedgerTypeOK, ClaimsNothing
<1> QED
  BY <1>1, <1>2

-----------------------------------------------------------------------------
(* Types                                                                    *)

Types == StreamTypeOK /\ CallTypeOK /\ LedgerTypeOK /\ drawn \in Nat

(* What a step leaves of the ledger: as above, or one slot more is claimed  *)
(* by a handler that is about to relay.                                     *)
ClaimedNow(s, t) ==
  /\ \E h \in Requests : request[h].at = "claiming" /\ request[h].id = s /\ request[h].token = t
  /\ s \in DOMAIN slots /\ slots[s].token = t

LedgerStep ==
  /\ DOMAIN slots' \subseteq Sessions /\ alarm' \subseteq Nat
  /\ \A s \in DOMAIN slots' :
       /\ slots'[s] \in Slot
       /\ Claimed(slots'[s]) =>
            \/ s \in DOMAIN slots /\ Claimed(slots[s]) /\ slots[s].token = slots'[s].token
            \/ ClaimedNow(s, slots'[s].token)

LEMMA NothingClaimed ==
  ASSUME ClaimsNothing(slots'), alarm' \subseteq Nat
  PROVE  LedgerStep
BY DEF ClaimsNothing, LedgerStep

LEMMA LedgerAlone ==
  ASSUME LedgerTypeOK, UNCHANGED ledger
  PROVE  LedgerStep
BY DEF LedgerTypeOK, ledger, LedgerStep

LEMMA Claiming ==
  ASSUME LedgerTypeOK, NEW h \in Requests, ClaimsSlot(h)
  PROVE  LedgerStep
<1> DEFINE s == request[h].id
           t == request[h].token
<1>1. /\ s \in DOMAIN slots /\ slots[s].token = t
      /\ slots' = [slots EXCEPT ![s].pending = FALSE, ![s].left = 0]
      /\ alarm' = NextAlarm(slots')
      /\ request[h].at = "claiming"
  BY DEF ClaimsSlot, Claim, Holds, Save
<1>2. slots'[s] \in Slot /\ slots'[s].token = t
  BY <1>1 DEF LedgerTypeOK, Slot
<1>3. \A x \in DOMAIN slots' : slots'[x] \in Slot
  BY <1>1, <1>2 DEF LedgerTypeOK
<1>4. alarm' \subseteq Nat
  BY <1>1, <1>3, DeadlinesAreNatural
<1>5. ClaimedNow(s, slots'[s].token)
  BY <1>1, <1>2 DEF ClaimedNow
<1> QED
  BY <1>1, <1>3, <1>4, <1>5 DEF LedgerTypeOK, LedgerStep

LEMMA LedgerSteps ==
  ASSUME LedgerTypeOK, Next
  PROVE  LedgerStep
<1> USE SharedAssumption
<1>1. CASE Acquires
  <2>1. ASSUME NEW t \in Tokens, NEW h \in Requests, NEW s \in Streams, Creates(h, s, t)
        PROVE  LedgerStep
    BY <2>1, Admitting, NothingClaimed DEF Creates
  <2>2. ASSUME NEW t \in Tokens, NEW d \in Dialers, NEW c \in Calls, CallAdmitted(d, c, t)
        PROVE  LedgerStep
    BY <2>2, Admitting, NothingClaimed DEF CallAdmitted
  <2> QED
    BY <1>1, <2>1, <2>2 DEF Acquires
<1>2. ASSUME NEW h \in Requests, StreamStep(h)
      PROVE  LedgerStep
  <2>1. ASSUME NEW s \in Streams, CreatesAgain(h, s) \/ TurnedAway(h, s)
        PROVE  LedgerStep
    <3>1. ClaimsNothing(slots') /\ alarm' \subseteq Nat
      BY <2>1, LiveIsPart, DeadlinesAreNatural
      DEF CreatesAgain, TurnedAway, AdmitDuplicate, Refuse, Save, ClaimsNothing
    <3> QED
      BY <3>1, NothingClaimed
  <2>2. CASE ClaimsSlot(h)
    BY <2>2, Claiming
  <2>3. CASE SlotDenied(h) \/ Leaves(h)
    BY <2>3, Releasing, NothingClaimed, LedgerAlone DEF SlotDenied, Leaves
  <2>4. CASE \/ \E s \in Streams : Connects(h, s)
             \/ Writes(h) \/ WriteFails(h) \/ Rejected(h) \/ ClaimsRow(h) \/ Outrun(h)
             \/ Fails(h) \/ RelayEnds(h) \/ Dies(h)
    BY <2>4, LedgerAlone
    DEF Connects, Writes, WriteFails, Rejected, ClaimsRow, Outrun, Fails, RelayEnds, Dies
  <2> QED
    BY <1>2, <2>1, <2>2, <2>3, <2>4 DEF StreamStep
<1>3. ASSUME NEW d \in Dialers, DialStep(d)
      PROVE  LedgerStep
  <2>1. ASSUME NEW c \in Calls, CallTurnedAway(d, c)
        PROVE  LedgerStep
    <3>1. ClaimsNothing(slots') /\ alarm' \subseteq Nat
      BY <2>1, LiveIsPart, DeadlinesAreNatural
      DEF CallTurnedAway, AdmitDuplicate, Refuse, Save, ClaimsNothing
    <3> QED
      BY <3>1, NothingClaimed
  <2>2. CASE DialerLeaves(d)
    BY <2>2, Releasing, NothingClaimed, LedgerAlone DEF DialerLeaves
  <2>3. CASE \/ Inserts(d) \/ InsertRefused(d) \/ Dials(d) \/ BridgeStarts(d)
             \/ BridgeRefuses(d) \/ BridgeAnswers(d) \/ BridgeFails(d) \/ StopsBridge(d)
             \/ DialerDies(d)
    BY <2>3, LedgerAlone
    DEF Inserts, InsertRefused, Dials, BridgeStarts, BridgeRefuses, BridgeAnswers,
        BridgeFails, StopsBridge, DialerDies
  <2> QED
    BY <1>3, <2>1, <2>2, <2>3 DEF DialStep
<1>4. ASSUME NEW c \in Calls, BridgeStep(c)
      PROVE  LedgerStep
  <2>1. CASE Settles(c)
    BY <2>1, Releasing, NothingClaimed, LedgerAlone DEF Settles
  <2>2. CASE ContainerExits(c) \/ MonitorSettles(c) \/ BridgeAlarm(c) \/ Swept(c)
    BY <2>2, LedgerAlone DEF ContainerExits, MonitorSettles, BridgeAlarm, Swept
  <2> QED
    BY <1>4, <2>1, <2>2 DEF BridgeStep
<1>5. CASE AlarmFires \/ Tick
  BY <1>5, Ageing, NothingClaimed DEF AlarmFires, Tick
<1> QED
  BY <1>1, <1>2, <1>3, <1>4, <1>5 DEF Next

LEMMA StreamTypes ==
  ASSUME Types, Next
  PROVE  StreamTypeOK'
<1> USE SharedAssumption DEF StreamTypeOK
<1>0. /\ session \in [Streams -> Session] /\ request \in [Requests -> Request]
      /\ relayed \in [Streams -> Nat]
  BY DEF Types
<1>a. ASSUME NEW h \in Requests,
             NEW at \in {"writing", "checking", "failing", "claiming", "relaying", "leaving"},
             Goes(h, at)
      PROVE  request' \in [Requests -> Request]
  BY <1>0, <1>a DEF Goes, Request
<1>b. ASSUME NEW h \in Requests, Done(h)
      PROVE  request' \in [Requests -> Request]
  BY <1>0, <1>b DEF Done, Request, Idle
<1>c. ASSUME NEW h \in Requests, NEW s \in Streams, NEW t \in Tokens, NEW owns \in BOOLEAN,
             Begins(h, s, t, owns)
      PROVE  request' \in [Requests -> Request]
  BY <1>0, <1>c DEF Begins, Request
<1>1. CASE UNCHANGED streams
  BY <1>0, <1>1 DEF streams
<1>2. ASSUME NEW t \in Tokens, NEW h \in Requests, NEW s \in Streams, Creates(h, s, t)
      PROVE  StreamTypeOK'
  BY <1>0, <1>2, <1>c DEF Creates
<1>3. ASSUME NEW h \in Requests, NEW s \in Streams, CreatesAgain(h, s)
      PROVE  StreamTypeOK'
  <2>1. s \in DOMAIN slots /\ slots[s].token \in Tokens
    BY <1>3, LiveIsPart DEF CreatesAgain, AdmitDuplicate, InFlight, Types, LedgerTypeOK, Slot
  <2> QED
    BY <1>0, <1>3, <1>c, <2>1 DEF CreatesAgain
<1>4. ASSUME NEW h \in Requests, NEW s \in Streams, Connects(h, s)
      PROVE  StreamTypeOK'
  BY <1>0, <1>4 DEF Connects, Session, Request
<1>5. ASSUME NEW h \in Requests, request[h].at # "idle"
      PROVE  request[h].id \in Streams \cup {Nobody} /\ request[h].token \in Tokens \cup {NoToken}
  BY <1>0, <1>5 DEF Request
<1>6. ASSUME NEW h \in Requests, Writes(h)
      PROVE  StreamTypeOK'
  <2>1. session' \in [Streams -> Session]
    BY <1>0, <1>5, <1>6 DEF Writes, Recorded, Session
  <2> QED
    BY <1>0, <1>6, <1>a, <1>b, <2>1 DEF Writes
<1>7. ASSUME NEW h \in Requests, ClaimsRow(h)
      PROVE  StreamTypeOK'
  <2>1. session' \in [Streams -> Session]
    BY <1>0, <1>7 DEF ClaimsRow, Session
  <2> QED
    BY <1>0, <1>7, <1>a, <2>1 DEF ClaimsRow
<1>8. ASSUME NEW h \in Requests, ClaimsSlot(h)
      PROVE  StreamTypeOK'
  <2>1. relayed' \in [Streams -> Nat]
    BY <1>0, <1>8 DEF ClaimsSlot
  <2> QED
    BY <1>0, <1>8, <1>a, <2>1 DEF ClaimsSlot
<1>9. ASSUME NEW h \in Requests, Fails(h) \/ RelayEnds(h)
      PROVE  StreamTypeOK'
  <2>1. \A row \in Session : \A open : Closed(row, open) \in Session
    BY DEF Closed, Session
  <2>2. session' \in [Streams -> Session]
    BY <1>0, <1>9, <2>1 DEF Fails, RelayEnds
  <2> QED
    BY <1>0, <1>9, <1>a, <2>2 DEF Fails, RelayEnds
<1>10. ASSUME NEW h \in Requests,
              \/ WriteFails(h) \/ Rejected(h) \/ Outrun(h) \/ SlotDenied(h) \/ Leaves(h) \/ Dies(h)
       PROVE  StreamTypeOK'
  BY <1>0, <1>10, <1>a, <1>b DEF WriteFails, Rejected, Outrun, SlotDenied, Leaves, Dies
<1>11. ASSUME NEW h \in Requests, StreamStep(h)
       PROVE  StreamTypeOK'
  BY <1>1, <1>3, <1>4, <1>6, <1>7, <1>8, <1>9, <1>10, <1>11 DEF StreamStep, TurnedAway
<1> QED
  BY <1>1, <1>2, <1>11 DEF Next, Acquires, AlarmFires, Tick

LEMMA CallTypes ==
  ASSUME Types, Next
  PROVE  CallTypeOK'
<1> USE SharedAssumption DEF CallTypeOK
<1>0. /\ record \in [Calls -> {"absent", "started", "ended"}]
      /\ dialer \in [Dialers -> Dialer] /\ bridge \in [Calls -> Bridge]
      /\ placed \in [Calls -> Nat]
  BY DEF Types
<1>a. ASSUME NEW d \in Dialers,
             NEW at \in {"inserting", "dialling", "starting", "ringing", "stopping", "leaving"},
             Turns(d, at)
      PROVE  dialer' \in [Dialers -> Dialer]
  BY <1>0, <1>a DEF Turns, Dialer
<1>b. ASSUME NEW d \in Dialers, HangsUp(d)
      PROVE  dialer' \in [Dialers -> Dialer]
  BY <1>0, <1>b DEF HangsUp, Dialer, Free
<1>c. ASSUME NEW b \in Bridge
      PROVE  TornDown(b) \in Bridge
  BY <1>c DEF TornDown, Bridge
<1>1. CASE UNCHANGED calls
  BY <1>0, <1>1 DEF calls
<1>2. ASSUME NEW t \in Tokens, NEW d \in Dialers, NEW c \in Calls, CallAdmitted(d, c, t)
      PROVE  CallTypeOK'
  <2>1. [at |-> "inserting", id |-> c, token |-> t] \in Dialer
    BY DEF Dialer
  <2>2. dialer' \in [Dialers -> Dialer]
    BY <1>0, <1>2, <2>1 DEF CallAdmitted
  <2> QED
    BY <1>0, <1>2, <2>2 DEF CallAdmitted
<1>3. ASSUME NEW d \in Dialers, Inserts(d) \/ InsertRefused(d) \/ Dials(d)
      PROVE  CallTypeOK'
  <2>1. record' \in [Calls -> {"absent", "started", "ended"}] /\ placed' \in [Calls -> Nat]
    BY <1>0, <1>3 DEF Inserts, InsertRefused, Dials
  <2> QED
    BY <1>0, <1>3, <1>a, <2>1 DEF Inserts, InsertRefused, Dials
<1>4. ASSUME NEW d \in Dialers, BridgeStarts(d) \/ BridgeFails(d) \/ StopsBridge(d)
      PROVE  CallTypeOK'
  <2>1. dialer[d].token \in Tokens \cup {Unset}
    BY <1>0 DEF Dialer
  <2>2. CASE BridgeStarts(d)
    <3>1. \A b \in Bridge :
            /\ [b EXCEPT !.running = TRUE, !.stored = dialer[d].token, !.alarmed = TRUE] \in Bridge
            /\ [b EXCEPT !.running = TRUE, !.stored = dialer[d].token] \in Bridge
      BY <2>1 DEF Bridge
    <3>2. bridge' \in [Calls -> Bridge]
      <4> DEFINE c == dialer[d].id
                 Begun(b) == [b EXCEPT !.running = TRUE, !.stored = dialer[d].token]
                 Set(b) == [b EXCEPT !.running = TRUE, !.stored = dialer[d].token,
                                     !.alarmed = TRUE]
      <4>1. \/ bridge' = [bridge EXCEPT ![c] = Set(bridge[c])]
            \/ bridge' = [bridge EXCEPT ![c] = Begun(bridge[c])]
        BY <2>2 DEF BridgeStarts
      <4>2. \A b \in Bridge : Set(b) \in Bridge /\ Begun(b) \in Bridge
        BY <3>1
      <4> HIDE DEF Begun, Set
      <4> QED
        BY <1>0, <4>1, <4>2
    <3> QED
      BY <1>0, <1>a, <2>2, <3>2 DEF BridgeStarts
  <2>3. CASE BridgeFails(d) \/ StopsBridge(d)
    <3>1. bridge' \in [Calls -> Bridge]
      BY <1>0, <1>c, <2>3 DEF BridgeFails, StopsBridge
    <3> QED
      BY <1>0, <1>a, <2>3, <3>1 DEF BridgeFails, StopsBridge
  <2> QED
    BY <1>4, <2>2, <2>3
<1>5. ASSUME NEW d \in Dialers,
             BridgeRefuses(d) \/ BridgeAnswers(d) \/ DialerLeaves(d) \/ DialerDies(d)
      PROVE  CallTypeOK'
  BY <1>0, <1>5, <1>a, <1>b DEF BridgeRefuses, BridgeAnswers, DialerLeaves, DialerDies
<1>6. ASSUME NEW d \in Dialers, DialStep(d)
      PROVE  CallTypeOK'
  BY <1>1, <1>3, <1>4, <1>5, <1>6 DEF DialStep, CallTurnedAway
<1>7. ASSUME NEW c \in Calls, BridgeStep(c)
      PROVE  CallTypeOK'
  <2>1. bridge' \in [Calls -> Bridge]
    <3>1. CASE MonitorSettles(c) \/ BridgeAlarm(c) \/ Swept(c)
      BY <1>0, <1>c, <3>1 DEF MonitorSettles, BridgeAlarm, Swept
    <3>2. CASE ContainerExits(c) \/ Settles(c)
      <4>1. bridge' = [bridge EXCEPT ![c] = [bridge[c] EXCEPT !.running = FALSE]]
            \/ bridge' = [bridge EXCEPT ![c] = [bridge[c] EXCEPT !.settling = Unset]]
        BY <3>2 DEF ContainerExits, Settles
      <4>2. /\ [bridge[c] EXCEPT !.running = FALSE] \in Bridge
            /\ [bridge[c] EXCEPT !.settling = Unset] \in Bridge
        BY <1>0 DEF Bridge
      <4> QED
        BY <1>0, <4>1, <4>2
    <3> QED
      BY <1>7, <3>1, <3>2 DEF BridgeStep
  <2>2. record' \in [Calls -> {"absent", "started", "ended"}]
    BY <1>0, <1>7
    DEF BridgeStep, ContainerExits, MonitorSettles, BridgeAlarm, Settles, Swept
  <2> QED
    BY <1>0, <1>7, <2>1, <2>2
    DEF BridgeStep, ContainerExits, MonitorSettles, BridgeAlarm, Settles, Swept
<1> QED
  BY <1>1, <1>2, <1>6, <1>7 DEF Next, Acquires, AlarmFires, Tick

-----------------------------------------------------------------------------
(* Streams                                                                  *)

Past == {"streaming", "over"}

HandlersHaveStreams == \A h \in Requests : request[h].at # "idle" => request[h].id \in Streams

(* A handler that took the row and has yet to claim the slot: its session   *)
(* is not relayed, and no other handler is there.                           *)
ClaimersAlone ==
  \A h \in Requests : request[h].at = "claiming" =>
    /\ session[request[h].id].status \in Past
    /\ session[request[h].id].token = request[h].token
    /\ relayed[request[h].id] = 0
    /\ \A g \in Requests : request[g].at = "claiming" /\ request[g].id = request[h].id => g = h

ReadyIsUnused == \A s \in Streams : session[s].status \notin Past => relayed[s] = 0

StreamsInv == HandlersHaveStreams /\ ClaimersAlone /\ ReadyIsUnused /\ ClaimedByItsRow

(* A row that is past ready stays so and keeps its token.                   *)
RowsMoveOn ==
  \A s \in Streams : session[s].status \in Past =>
    session'[s].status \in Past /\ session'[s].token = session[s].token

(* What each step does, as far as the streams are concerned.                *)
RowTaken(h) ==
  LET s == request[h].id IN
  /\ request[h].at = "checking" /\ session[s].status = "ready"
  /\ session[s].token = request[h].token
  /\ session' = [session EXCEPT ![s].status = "streaming"]
  /\ UNCHANGED relayed
  /\ Goes(h, "claiming") \/ Goes(h, "failing")

SlotTaken(h) ==
  /\ request[h].at = "claiming"
  /\ relayed' = [relayed EXCEPT ![request[h].id] = @ + 1]
  /\ UNCHANGED session
  /\ Goes(h, "relaying")

(* Nobody comes to claim; the rows keep what they have, or are renewed      *)
(* before they are taken, or end.                                           *)
Aside ==
  /\ UNCHANGED relayed
  /\ \A h \in Requests : request'[h].at = "claiming" =>
       request[h].at = "claiming" /\ request'[h] = request[h]
  /\ \A h \in Requests : request'[h].at # "idle" => request'[h].id \in Streams
  /\ \/ UNCHANGED session
     \/ \E s \in Streams :
          \/ /\ session[s].status \in {"absent", "ready"}
             /\ \E t \in Tokens \cup {NoToken} :
                  session' = [session EXCEPT ![s] = [status |-> "ready", token |-> t]]
          \/ session' = [session EXCEPT ![s].status = "over"]

StreamsDo == Aside \/ \E h \in Requests : RowTaken(h) \/ SlotTaken(h)

LEMMA StreamCases ==
  ASSUME Types, HandlersHaveStreams, Next
  PROVE  StreamsDo
<1> USE DEF Aside
<1>0. /\ session \in [Streams -> Session] /\ request \in [Requests -> Request]
      /\ relayed \in [Streams -> Nat]
  BY DEF Types, StreamTypeOK
<1>1. CASE UNCHANGED streams
  BY <1>0, <1>1 DEF streams, HandlersHaveStreams, StreamsDo
<1>a. ASSUME NEW h \in Requests, NEW at, at # "claiming", Goes(h, at), request[h].at # "idle"
      PROVE  /\ \A g \in Requests : request'[g].at = "claiming" =>
                   request[g].at = "claiming" /\ request'[g] = request[g]
             /\ \A g \in Requests : request'[g].at # "idle" => request'[g].id \in Streams
  BY <1>0, <1>a DEF Goes, HandlersHaveStreams, Request
<1>b. ASSUME NEW h \in Requests, Done(h)
      PROVE  /\ \A g \in Requests : request'[g].at = "claiming" =>
                   request[g].at = "claiming" /\ request'[g] = request[g]
             /\ \A g \in Requests : request'[g].at # "idle" => request'[g].id \in Streams
  BY <1>0, <1>b DEF Done, Idle, HandlersHaveStreams, Request
<1>c. ASSUME NEW h \in Requests, NEW s \in Streams, NEW t, NEW owns, NEW at, at # "claiming",
             request' = [request EXCEPT ![h] = [at |-> at, id |-> s, token |-> t, owns |-> owns]]
      PROVE  /\ \A g \in Requests : request'[g].at = "claiming" =>
                   request[g].at = "claiming" /\ request'[g] = request[g]
             /\ \A g \in Requests : request'[g].at # "idle" => request'[g].id \in Streams
  BY <1>0, <1>c DEF HandlersHaveStreams, Request
<1>2. ASSUME NEW t \in Tokens, NEW h \in Requests, NEW s \in Streams, Creates(h, s, t)
      PROVE  Aside
  <2>1. CASE Begins(h, s, t, TRUE)
    BY <1>2, <1>c, <2>1 DEF Creates, Begins
  <2>2. CASE UNCHANGED request
    BY <1>2, <2>2 DEF Creates, HandlersHaveStreams
  <2> QED
    BY <1>2, <2>1, <2>2 DEF Creates
<1>3. ASSUME NEW h \in Requests, NEW s \in Streams, CreatesAgain(h, s) \/ Connects(h, s)
      PROVE  Aside
  <2>1. CASE CreatesAgain(h, s)
    BY <1>c, <2>1 DEF CreatesAgain, Begins
  <2>2. CASE Connects(h, s)
    BY <1>c, <2>2 DEF Connects
  <2> QED
    BY <1>3, <2>1, <2>2
<1>4. ASSUME NEW h \in Requests, Writes(h)
      PROVE  Aside
  <2>1. request[h].id \in Streams /\ request[h].token \in Tokens \cup {NoToken}
    BY <1>0, <1>4 DEF Writes, HandlersHaveStreams, Request
  <2>2. \/ UNCHANGED session
        \/ /\ session[request[h].id].status \in {"absent", "ready"}
           /\ session' = [session EXCEPT ![request[h].id] =
                             [status |-> "ready", token |-> request[h].token]]
    BY <1>0, <1>4 DEF Writes, Recorded
  <2>3. UNCHANGED relayed /\ request[h].at = "writing" /\ (Done(h) \/ Goes(h, "leaving"))
    BY <1>4 DEF Writes
  <2> QED
    BY <1>a, <1>b, <2>1, <2>2, <2>3
<1>5. ASSUME NEW h \in Requests, Fails(h) \/ RelayEnds(h)
      PROVE  Aside
  <2>1. request[h].id \in Streams /\ UNCHANGED relayed /\ request[h].at # "idle"
        /\ Goes(h, "leaving")
    BY <1>5 DEF Fails, RelayEnds, HandlersHaveStreams
  <2>2. UNCHANGED session \/ session' = [session EXCEPT ![request[h].id].status = "over"]
    BY <1>0, <1>5 DEF Fails, RelayEnds, Closed
  <2> QED
    BY <1>a, <2>1, <2>2
<1>6. ASSUME NEW h \in Requests, WriteFails(h) \/ Rejected(h) \/ Outrun(h) \/ SlotDenied(h)
      PROVE  Aside
  BY <1>6, <1>a, <1>b DEF WriteFails, Rejected, Outrun, SlotDenied
<1>7. ASSUME NEW h \in Requests, Leaves(h) \/ Dies(h)
      PROVE  Aside
  BY <1>7, <1>b DEF Leaves, Dies
<1>8. ASSUME NEW h \in Requests, ClaimsSlot(h)
      PROVE  Aside \/ SlotTaken(h)
  <2>1. CASE Goes(h, "failing") /\ UNCHANGED relayed
    BY <1>8, <1>a, <2>1 DEF ClaimsSlot
  <2> QED
    BY <1>8, <2>1 DEF ClaimsSlot, SlotTaken
<1>9. ASSUME NEW h \in Requests, ClaimsRow(h)
      PROVE  RowTaken(h)
  BY <1>9 DEF ClaimsRow, Mine, Status, RowTaken
<1>10. ASSUME NEW h \in Requests, StreamStep(h)
       PROVE  StreamsDo
  BY <1>1, <1>3, <1>4, <1>5, <1>6, <1>7, <1>8, <1>9, <1>10 DEF StreamStep, TurnedAway, StreamsDo
<1> QED
  BY <1>1, <1>2, <1>10 DEF Next, Acquires, AlarmFires, Tick, StreamsDo

LEMMA RowsKept ==
  ASSUME Types, StreamsDo
  PROVE  RowsMoveOn
<1>0. session \in [Streams -> Session] /\ request \in [Requests -> Request]
  BY DEF Types, StreamTypeOK
<1>1. CASE Aside
  BY <1>0, <1>1 DEF Aside, RowsMoveOn, Past, Session
<1>2. ASSUME NEW h \in Requests, RowTaken(h) \/ SlotTaken(h)
      PROVE  RowsMoveOn
  BY <1>0, <1>2 DEF RowTaken, SlotTaken, RowsMoveOn, Past, Session
<1> QED
  BY <1>1, <1>2 DEF StreamsDo

LEMMA StreamsStep ==
  ASSUME Types, StreamsInv, Next
  PROVE  StreamsInv'
<1>0. /\ session \in [Streams -> Session] /\ request \in [Requests -> Request]
      /\ relayed \in [Streams -> Nat]
  BY DEF Types, StreamTypeOK
<1>1. StreamsDo /\ RowsMoveOn /\ LedgerStep
  BY StreamCases, RowsKept, LedgerSteps DEF StreamsInv, Types
<1> USE DEF StreamsInv
<1>2. ASSUME Aside
      PROVE  HandlersHaveStreams' /\ ClaimersAlone' /\ ReadyIsUnused'
  <2>1. HandlersHaveStreams'
    BY <1>2 DEF Aside, HandlersHaveStreams
  <2>2. ClaimersAlone'
    <3> SUFFICES ASSUME NEW h \in Requests, request'[h].at = "claiming"
                 PROVE  /\ session'[request'[h].id].status \in Past
                        /\ session'[request'[h].id].token = request'[h].token
                        /\ relayed'[request'[h].id] = 0
                        /\ \A g \in Requests :
                             request'[g].at = "claiming" /\ request'[g].id = request'[h].id
                               => g = h
      BY DEF ClaimersAlone
    <3>1. request[h].at = "claiming" /\ request'[h] = request[h] /\ request[h].id \in Streams
      BY <1>2 DEF Aside, HandlersHaveStreams
    <3>2. \A g \in Requests : request'[g].at = "claiming" =>
             request[g].at = "claiming" /\ request'[g] = request[g]
      BY <1>2 DEF Aside
    <3> QED
      BY <1>1, <1>2, <3>1, <3>2 DEF ClaimersAlone, RowsMoveOn, Aside
  <2>3. ReadyIsUnused'
    BY <1>1, <1>2 DEF ReadyIsUnused, RowsMoveOn, Aside
  <2> QED
    BY <2>1, <2>2, <2>3
<1>3. ASSUME NEW h \in Requests, RowTaken(h)
      PROVE  HandlersHaveStreams' /\ ClaimersAlone' /\ ReadyIsUnused'
  <2> DEFINE s == request[h].id
  <2>1. /\ s \in Streams /\ session[s].status = "ready" /\ session[s].token = request[h].token
        /\ session' = [session EXCEPT ![s].status = "streaming"]
        /\ UNCHANGED relayed /\ relayed[s] = 0
    BY <1>3 DEF RowTaken, HandlersHaveStreams, ReadyIsUnused, Past
  <2>2. /\ \A g \in Requests : g # h => request'[g] = request[g]
        /\ request'[h].id = s /\ request'[h].token = request[h].token
    BY <1>0, <1>3 DEF RowTaken, Goes, Request
  <2>3. \A g \in Requests : request[g].at = "claiming" => request[g].id # s
    BY <2>1 DEF ClaimersAlone, Past
  <2>4. HandlersHaveStreams'
    BY <2>1, <2>2 DEF HandlersHaveStreams
  <2>5. session'[s].status \in Past /\ session'[s].token = request[h].token
    BY <1>0, <2>1 DEF Past, Session
  <2>6. \A x \in Streams : x # s => session'[x] = session[x]
    BY <1>0, <2>1
  <2>7. ClaimersAlone'
    <3> SUFFICES ASSUME NEW g \in Requests, request'[g].at = "claiming"
                 PROVE  /\ session'[request'[g].id].status \in Past
                        /\ session'[request'[g].id].token = request'[g].token
                        /\ relayed'[request'[g].id] = 0
                        /\ \A x \in Requests :
                             request'[x].at = "claiming" /\ request'[x].id = request'[g].id
                               => x = g
      BY DEF ClaimersAlone
    <3>1. CASE g = h
      BY <2>1, <2>2, <2>3, <2>5, <3>1
    <3>2. CASE g # h
      <4>1. request[g].at = "claiming" /\ request'[g] = request[g]
            /\ request[g].id # s /\ request[g].id \in Streams
        BY <2>2, <2>3, <3>2 DEF HandlersHaveStreams
      <4> QED
        BY <2>1, <2>2, <2>6, <4>1 DEF ClaimersAlone
    <3> QED
      BY <3>1, <3>2
  <2>8. ReadyIsUnused'
    BY <1>1, <2>1 DEF ReadyIsUnused, RowsMoveOn
  <2> QED
    BY <2>4, <2>7, <2>8
<1>4. ASSUME NEW h \in Requests, SlotTaken(h)
      PROVE  HandlersHaveStreams' /\ ClaimersAlone' /\ ReadyIsUnused'
  <2> DEFINE s == request[h].id
  <2>1. /\ s \in Streams /\ request[h].at = "claiming"
        /\ relayed' = [relayed EXCEPT ![s] = @ + 1] /\ UNCHANGED session
        /\ session[s].status \in Past
    BY <1>4 DEF SlotTaken, HandlersHaveStreams, ClaimersAlone
  <2>2. /\ \A g \in Requests : g # h => request'[g] = request[g]
        /\ request'[h].id = s /\ request'[h].at = "relaying"
    BY <1>0, <1>4 DEF SlotTaken, Goes, Request
  <2>3. \A g \in Requests : g # h /\ request[g].at = "claiming" => request[g].id # s
    BY <2>1 DEF ClaimersAlone
  <2>4. HandlersHaveStreams'
    BY <2>1, <2>2 DEF HandlersHaveStreams
  <2>5. ClaimersAlone'
    <3> SUFFICES ASSUME NEW g \in Requests, request'[g].at = "claiming"
                 PROVE  /\ session'[request'[g].id].status \in Past
                        /\ session'[request'[g].id].token = request'[g].token
                        /\ relayed'[request'[g].id] = 0
                        /\ \A x \in Requests :
                             request'[x].at = "claiming" /\ request'[x].id = request'[g].id
                               => x = g
      BY DEF ClaimersAlone
    <3>1. /\ g # h /\ request[g].at = "claiming" /\ request'[g] = request[g]
          /\ request[g].id # s /\ request[g].id \in Streams
      BY <2>2, <2>3 DEF HandlersHaveStreams
    <3>2. relayed'[request[g].id] = relayed[request[g].id]
      BY <1>0, <2>1, <3>1
    <3> QED
      BY <2>1, <2>2, <3>1, <3>2 DEF ClaimersAlone
  <2>6. ReadyIsUnused'
    BY <1>0, <2>1 DEF ReadyIsUnused
  <2> QED
    BY <2>4, <2>5, <2>6
<1>5. ClaimedByItsRow'
  <2> SUFFICES ASSUME NEW s \in DOMAIN slots', Claimed(slots'[s])
               PROVE  /\ s \in Streams
                      /\ session'[s].token = slots'[s].token
                      /\ session'[s].status \in Past
    BY DEF ClaimedByItsRow, Claimed, Past
  <2>1. CASE s \in DOMAIN slots /\ Claimed(slots[s]) /\ slots[s].token = slots'[s].token
    <3>1. s \in Streams /\ session[s].token = slots[s].token /\ session[s].status \in Past
      BY <2>1 DEF ClaimedByItsRow, Claimed, Past
    <3> QED
      BY <1>1, <2>1, <3>1 DEF RowsMoveOn
  <2>2. CASE ClaimedNow(s, slots'[s].token)
    <3>1. PICK h \in Requests :
            request[h].at = "claiming" /\ request[h].id = s /\ request[h].token = slots'[s].token
      BY <2>2 DEF ClaimedNow
    <3>2. s \in Streams /\ session[s].token = slots'[s].token /\ session[s].status \in Past
      BY <3>1 DEF HandlersHaveStreams, ClaimersAlone
    <3> QED
      BY <1>1, <3>2 DEF RowsMoveOn
  <2> QED
    BY <1>1, <2>1, <2>2 DEF LedgerStep
<1> QED
  BY <1>1, <1>2, <1>3, <1>4, <1>5 DEF StreamsDo

(* Seen as ids that are used once, that is a take, a use, an end or nothing.*)
LEMMA StreamsRefine ==
  ASSUME Types, StreamsInv, StreamsDo
  PROVE  [Relayed!Next]_<<[s \in Streams |-> Stage(session[s].status)], relayed>>
<1> DEFINE stages == [s \in Streams |-> Stage(session[s].status)]
<1>0. /\ session \in [Streams -> Session] /\ request \in [Requests -> Request]
      /\ relayed \in [Streams -> Nat]
  BY DEF Types, StreamTypeOK
<1> USE DEF StreamsInv
<1>1. CASE Aside
  <2>1. CASE UNCHANGED session
    BY <1>1, <2>1 DEF Aside
  <2>2. ASSUME NEW s \in Streams, session[s].status \in {"absent", "ready"},
               NEW t \in Tokens \cup {NoToken},
               session' = [session EXCEPT ![s] = [status |-> "ready", token |-> t]]
        PROVE  UNCHANGED stages
    <3>1. Stage("ready") = "free" /\ Stage(session[s].status) = "free"
      BY <2>2 DEF Stage
    <3>2. \A x \in Streams : Stage(session'[x].status) = Stage(session[x].status)
      BY <1>0, <2>2, <3>1
    <3> QED
      BY <3>2
  <2>3. ASSUME NEW s \in Streams, session' = [session EXCEPT ![s].status = "over"]
        PROVE  Relayed!End(s)
    <3>1. Stage("over") = "over"
      BY DEF Stage
    <3>2. session'[s].status = "over" /\ \A x \in Streams : x # s => session'[x] = session[x]
      BY <1>0, <2>3 DEF Session
    <3>3. stages' = [stages EXCEPT ![s] = "over"]
      BY <3>1, <3>2
    <3> QED
      BY <1>1, <3>3 DEF Relayed!End, Aside
  <2> QED
    BY <1>1, <2>1, <2>2, <2>3 DEF Aside, Relayed!Next
<1>2. ASSUME NEW h \in Requests, RowTaken(h)
      PROVE  Relayed!Next
  <2> DEFINE s == request[h].id
  <2>1. /\ s \in Streams /\ session[s].status = "ready"
        /\ session' = [session EXCEPT ![s].status = "streaming"] /\ UNCHANGED relayed
    BY <1>2 DEF RowTaken, HandlersHaveStreams
  <2>2. Stage("ready") = "free" /\ Stage("streaming") = "taken"
    BY DEF Stage
  <2>3. session'[s].status = "streaming" /\ \A x \in Streams : x # s => session'[x] = session[x]
    BY <1>0, <2>1 DEF Session
  <2>4. stages[s] = "free" /\ stages' = [stages EXCEPT ![s] = "taken"]
    BY <2>1, <2>2, <2>3
  <2>5. Relayed!Take(s)
    BY <2>1, <2>4 DEF Relayed!Take
  <2> QED
    BY <2>1, <2>5 DEF Relayed!Next
<1>3. ASSUME NEW h \in Requests, SlotTaken(h)
      PROVE  Relayed!Next
  <2> DEFINE s == request[h].id
  <2>1. s \in Streams /\ session[s].status \in Past /\ relayed[s] = 0
    BY <1>3 DEF SlotTaken, HandlersHaveStreams, ClaimersAlone
  <2>a. relayed' = [relayed EXCEPT ![s] = 1] /\ UNCHANGED session
    BY <1>0, <1>3, <2>1 DEF SlotTaken
  <2>2. Stage(session[s].status) # "free"
    BY <2>1 DEF Past, Stage
  <2>3. Relayed!Use(s)
    BY <2>1, <2>a, <2>2 DEF Relayed!Use
  <2> QED
    BY <2>1, <2>3 DEF Relayed!Next
<1> QED
  BY <1>1, <1>2, <1>3 DEF StreamsDo

-----------------------------------------------------------------------------
(* Calls                                                                    *)

DialersHaveCalls == \A d \in Dialers : dialer[d].at # "idle" => dialer[d].id \in Calls

(* A handler that inserted the record and has yet to place the call: nobody *)
(* placed it, and no other handler is there.                                *)
DiallersAlone ==
  \A d \in Dialers : dialer[d].at = "dialling" =>
    /\ record[dialer[d].id] # "absent"
    /\ placed[dialer[d].id] = 0
    /\ \A e \in Dialers : dialer[e].at = "dialling" /\ dialer[e].id = dialer[d].id => e = d

AbsentIsUnplaced == \A c \in Calls : record[c] = "absent" => placed[c] = 0

CallsInv == DialersHaveCalls /\ DiallersAlone /\ AbsentIsUnplaced

(* What each step does, as far as the calls are concerned.                  *)
RecordInserted(d) ==
  /\ dialer[d].at = "inserting" /\ record[dialer[d].id] = "absent"
  /\ record' = [record EXCEPT ![dialer[d].id] = "started"]
  /\ UNCHANGED placed
  /\ Turns(d, "dialling") \/ Turns(d, "leaving")

CallPlaced(d) ==
  /\ dialer[d].at = "dialling"
  /\ placed' = [placed EXCEPT ![dialer[d].id] = @ + 1]
  /\ UNCHANGED record
  /\ Turns(d, "starting") \/ Turns(d, "leaving")

OtherCalls ==
  /\ UNCHANGED placed
  /\ \A d \in Dialers : dialer'[d].at = "dialling" =>
       dialer[d].at = "dialling" /\ dialer'[d] = dialer[d]
  /\ \A d \in Dialers : dialer'[d].at # "idle" => dialer'[d].id \in Calls
  /\ \/ UNCHANGED record
     \/ \E c \in Calls : record' = [record EXCEPT ![c] = "ended"]

CallsDo == OtherCalls \/ \E d \in Dialers : RecordInserted(d) \/ CallPlaced(d)

LEMMA CallCases ==
  ASSUME Types, DialersHaveCalls, Next
  PROVE  CallsDo
<1> USE DEF OtherCalls
<1>0. /\ record \in [Calls -> {"absent", "started", "ended"}]
      /\ dialer \in [Dialers -> Dialer] /\ placed \in [Calls -> Nat]
  BY DEF Types, CallTypeOK
<1>1. CASE UNCHANGED calls
  BY <1>0, <1>1 DEF calls, DialersHaveCalls, CallsDo
<1>a. ASSUME NEW d \in Dialers, NEW at, at # "dialling", Turns(d, at), dialer[d].at # "idle"
      PROVE  /\ \A e \in Dialers : dialer'[e].at = "dialling" =>
                   dialer[e].at = "dialling" /\ dialer'[e] = dialer[e]
             /\ \A e \in Dialers : dialer'[e].at # "idle" => dialer'[e].id \in Calls
  BY <1>0, <1>a DEF Turns, DialersHaveCalls, Dialer
<1>b. ASSUME NEW d \in Dialers, HangsUp(d)
      PROVE  /\ \A e \in Dialers : dialer'[e].at = "dialling" =>
                   dialer[e].at = "dialling" /\ dialer'[e] = dialer[e]
             /\ \A e \in Dialers : dialer'[e].at # "idle" => dialer'[e].id \in Calls
  BY <1>0, <1>b DEF HangsUp, Free, DialersHaveCalls, Dialer
<1>2. ASSUME NEW t \in Tokens, NEW d \in Dialers, NEW c \in Calls, CallAdmitted(d, c, t)
      PROVE  OtherCalls
  <2>1. CASE dialer' = [dialer EXCEPT ![d] = [at |-> "inserting", id |-> c, token |-> t]]
    BY <1>0, <1>2, <2>1 DEF CallAdmitted, DialersHaveCalls
  <2>2. CASE UNCHANGED dialer
    BY <1>2, <2>2 DEF CallAdmitted, DialersHaveCalls
  <2> QED
    BY <1>2, <2>1, <2>2 DEF CallAdmitted
<1>3. ASSUME NEW d \in Dialers, Inserts(d)
      PROVE  RecordInserted(d)
  BY <1>3 DEF Inserts, RecordInserted
<1>4. ASSUME NEW d \in Dialers, Dials(d)
      PROVE  OtherCalls \/ CallPlaced(d)
  <2>1. CASE Turns(d, "leaving") /\ UNCHANGED placed
    BY <1>4, <1>a, <2>1 DEF Dials
  <2> QED
    BY <1>4, <2>1 DEF Dials, CallPlaced
<1>5. ASSUME NEW d \in Dialers,
             \/ InsertRefused(d) \/ BridgeStarts(d) \/ BridgeRefuses(d) \/ BridgeAnswers(d)
             \/ BridgeFails(d) \/ StopsBridge(d) \/ DialerLeaves(d) \/ DialerDies(d)
      PROVE  OtherCalls
  <2>1. UNCHANGED <<record, placed>> /\ dialer[d].at # "idle"
    BY <1>5
    DEF InsertRefused, BridgeStarts, BridgeRefuses, BridgeAnswers, BridgeFails, StopsBridge,
        DialerLeaves, DialerDies
  <2>2. HangsUp(d) \/ Turns(d, "leaving") \/ Turns(d, "stopping") \/ Turns(d, "ringing")
    BY <1>5
    DEF InsertRefused, BridgeStarts, BridgeRefuses, BridgeAnswers, BridgeFails, StopsBridge,
        DialerLeaves, DialerDies
  <2> QED
    BY <1>a, <1>b, <2>1, <2>2
<1>6. ASSUME NEW d \in Dialers, DialStep(d)
      PROVE  CallsDo
  BY <1>1, <1>3, <1>4, <1>5, <1>6 DEF DialStep, CallTurnedAway, CallsDo
<1>7. ASSUME NEW c \in Calls, BridgeStep(c)
      PROVE  OtherCalls
  <2>1. UNCHANGED <<dialer, placed>>
        /\ (UNCHANGED record \/ record' = [record EXCEPT ![c] = "ended"])
    BY <1>7 DEF BridgeStep, ContainerExits, MonitorSettles, BridgeAlarm, Settles, Swept
  <2> QED
    BY <2>1 DEF DialersHaveCalls
<1> QED
  BY <1>1, <1>2, <1>6, <1>7 DEF Next, Acquires, AlarmFires, Tick, CallsDo

LEMMA CallsStep ==
  ASSUME Types, CallsInv, CallsDo
  PROVE  CallsInv'
<1>0. /\ record \in [Calls -> {"absent", "started", "ended"}]
      /\ dialer \in [Dialers -> Dialer] /\ placed \in [Calls -> Nat]
  BY DEF Types, CallTypeOK
<1> USE DEF CallsInv
<1>1. ASSUME OtherCalls
      PROVE  CallsInv'
  <2>1. DialersHaveCalls'
    BY <1>1 DEF OtherCalls, DialersHaveCalls
  <2>2. \A c \in Calls : record'[c] = record[c] \/ record'[c] = "ended"
    BY <1>0, <1>1 DEF OtherCalls
  <2>3. AbsentIsUnplaced'
    BY <1>1, <2>2 DEF OtherCalls, AbsentIsUnplaced
  <2>4. DiallersAlone'
    <3> SUFFICES ASSUME NEW d \in Dialers, dialer'[d].at = "dialling"
                 PROVE  /\ record'[dialer'[d].id] # "absent"
                        /\ placed'[dialer'[d].id] = 0
                        /\ \A e \in Dialers :
                             dialer'[e].at = "dialling" /\ dialer'[e].id = dialer'[d].id
                               => e = d
      BY DEF DiallersAlone
    <3>1. /\ dialer[d].at = "dialling" /\ dialer'[d] = dialer[d]
          /\ dialer[d].id \in Calls /\ UNCHANGED placed
          /\ \A e \in Dialers : dialer'[e].at = "dialling" =>
               dialer[e].at = "dialling" /\ dialer'[e] = dialer[e]
      BY <1>1 DEF OtherCalls, DialersHaveCalls
    <3> QED
      BY <2>2, <3>1 DEF DiallersAlone
  <2> QED
    BY <2>1, <2>3, <2>4
<1>2. ASSUME NEW d \in Dialers, RecordInserted(d)
      PROVE  CallsInv'
  <2> DEFINE c == dialer[d].id
  <2>1. /\ c \in Calls /\ record[c] = "absent" /\ placed[c] = 0
        /\ record' = [record EXCEPT ![c] = "started"] /\ UNCHANGED placed
    BY <1>2 DEF RecordInserted, DialersHaveCalls, AbsentIsUnplaced
  <2>2. /\ \A e \in Dialers : e # d => dialer'[e] = dialer[e]
        /\ dialer'[d].id = c
    BY <1>0, <1>2 DEF RecordInserted, Turns, Dialer
  <2>3. \A e \in Dialers : dialer[e].at = "dialling" => dialer[e].id # c
    BY <2>1 DEF DiallersAlone
  <2>4. DialersHaveCalls'
    BY <2>1, <2>2 DEF DialersHaveCalls
  <2>5. \A x \in Calls : record'[x] = IF x = c THEN "started" ELSE record[x]
    BY <1>0, <2>1
  <2>6. AbsentIsUnplaced'
    BY <2>1, <2>5 DEF AbsentIsUnplaced
  <2>7. DiallersAlone'
    <3> SUFFICES ASSUME NEW e \in Dialers, dialer'[e].at = "dialling"
                 PROVE  /\ record'[dialer'[e].id] # "absent"
                        /\ placed'[dialer'[e].id] = 0
                        /\ \A x \in Dialers :
                             dialer'[x].at = "dialling" /\ dialer'[x].id = dialer'[e].id
                               => x = e
      BY DEF DiallersAlone
    <3>1. CASE e = d
      BY <2>1, <2>2, <2>3, <2>5, <3>1
    <3>2. CASE e # d
      <4>1. dialer[e].at = "dialling" /\ dialer'[e] = dialer[e]
            /\ dialer[e].id # c /\ dialer[e].id \in Calls
        BY <2>2, <2>3, <3>2 DEF DialersHaveCalls
      <4> QED
        BY <2>1, <2>2, <2>5, <4>1 DEF DiallersAlone
    <3> QED
      BY <3>1, <3>2
  <2> QED
    BY <2>4, <2>6, <2>7
<1>3. ASSUME NEW d \in Dialers, CallPlaced(d)
      PROVE  CallsInv'
  <2> DEFINE c == dialer[d].id
  <2>1. /\ c \in Calls /\ dialer[d].at = "dialling" /\ record[c] # "absent"
        /\ placed' = [placed EXCEPT ![c] = @ + 1] /\ UNCHANGED record
    BY <1>3 DEF CallPlaced, DialersHaveCalls, DiallersAlone
  <2>2. /\ \A e \in Dialers : e # d => dialer'[e] = dialer[e]
        /\ dialer'[d].id = c /\ dialer'[d].at # "dialling"
    BY <1>0, <1>3 DEF CallPlaced, Turns, Dialer
  <2>3. \A e \in Dialers : e # d /\ dialer[e].at = "dialling" => dialer[e].id # c
    BY <2>1 DEF DiallersAlone
  <2>4. DialersHaveCalls'
    BY <2>1, <2>2 DEF DialersHaveCalls
  <2>5. \A x \in Calls : x # c => placed'[x] = placed[x]
    BY <1>0, <2>1
  <2>6. AbsentIsUnplaced'
    BY <2>1, <2>5 DEF AbsentIsUnplaced
  <2>7. DiallersAlone'
    <3> SUFFICES ASSUME NEW e \in Dialers, dialer'[e].at = "dialling"
                 PROVE  /\ record'[dialer'[e].id] # "absent"
                        /\ placed'[dialer'[e].id] = 0
                        /\ \A x \in Dialers :
                             dialer'[x].at = "dialling" /\ dialer'[x].id = dialer'[e].id
                               => x = e
      BY DEF DiallersAlone
    <3>1. /\ e # d /\ dialer[e].at = "dialling" /\ dialer'[e] = dialer[e]
          /\ dialer[e].id # c /\ dialer[e].id \in Calls
      BY <2>2, <2>3 DEF DialersHaveCalls
    <3> QED
      BY <2>1, <2>2, <2>5, <3>1 DEF DiallersAlone
  <2> QED
    BY <2>4, <2>6, <2>7
<1> QED
  BY <1>1, <1>2, <1>3 DEF CallsDo

LEMMA CallsRefine ==
  ASSUME Types, CallsInv, CallsDo
  PROVE  [Placed!Next]_<<[c \in Calls |-> CallStage(record[c])], placed>>
<1> DEFINE stages == [c \in Calls |-> CallStage(record[c])]
<1>0. /\ record \in [Calls -> {"absent", "started", "ended"}]
      /\ dialer \in [Dialers -> Dialer] /\ placed \in [Calls -> Nat]
  BY DEF Types, CallTypeOK
<1> USE DEF CallsInv
<1>1. CASE OtherCalls
  <2>1. CASE UNCHANGED record
    BY <1>1, <2>1 DEF OtherCalls
  <2>2. ASSUME NEW c \in Calls, record' = [record EXCEPT ![c] = "ended"]
        PROVE  Placed!End(c)
    <3>1. CallStage("ended") = "over"
      BY DEF CallStage
    <3>2. stages' = [stages EXCEPT ![c] = "over"]
      BY <1>0, <2>2, <3>1
    <3> QED
      BY <1>1, <3>2 DEF Placed!End, OtherCalls
  <2> QED
    BY <1>1, <2>1, <2>2 DEF OtherCalls, Placed!Next
<1>2. ASSUME NEW d \in Dialers, RecordInserted(d)
      PROVE  Placed!Next
  <2> DEFINE c == dialer[d].id
  <2>1. /\ c \in Calls /\ record[c] = "absent"
        /\ record' = [record EXCEPT ![c] = "started"] /\ UNCHANGED placed
    BY <1>2 DEF RecordInserted, DialersHaveCalls
  <2>2. CallStage("absent") = "free" /\ CallStage("started") = "taken"
    BY DEF CallStage
  <2>3. stages[c] = "free" /\ stages' = [stages EXCEPT ![c] = "taken"]
    BY <1>0, <2>1, <2>2
  <2>4. Placed!Take(c)
    BY <2>1, <2>3 DEF Placed!Take
  <2> QED
    BY <2>1, <2>4 DEF Placed!Next
<1>3. ASSUME NEW d \in Dialers, CallPlaced(d)
      PROVE  Placed!Next
  <2> DEFINE c == dialer[d].id
  <2>1. c \in Calls /\ record[c] # "absent" /\ placed[c] = 0
    BY <1>3 DEF CallPlaced, DialersHaveCalls, DiallersAlone
  <2>2. placed' = [placed EXCEPT ![c] = 1] /\ UNCHANGED record
    BY <1>0, <1>3, <2>1 DEF CallPlaced
  <2>3. CallStage(record[c]) # "free"
    BY <1>0, <2>1 DEF CallStage
  <2>4. Placed!Use(c)
    BY <2>1, <2>2, <2>3 DEF Placed!Use
  <2> QED
    BY <2>1, <2>4 DEF Placed!Next
<1> QED
  BY <1>1, <1>2, <1>3 DEF CallsDo

-----------------------------------------------------------------------------
(* Together                                                                 *)

IInv == Types /\ StreamsInv /\ CallsInv

LEMMA InitIInv == Init => IInv
<1> SUFFICES ASSUME Init PROVE IInv
  OBVIOUS
<1> USE DEF Init
<1>1. slots = <<>> /\ DOMAIN slots = {} /\ alarm = {}
  BY DEF LedgerInit
<1>2. LedgerTypeOK
  BY <1>1 DEF LedgerTypeOK
<1>3. StreamTypeOK /\ HandlersHaveStreams /\ ClaimersAlone /\ ReadyIsUnused
  BY DEF StreamsInit, StreamTypeOK, Session, Request, Idle, HandlersHaveStreams, ClaimersAlone,
         ReadyIsUnused
<1>4. CallTypeOK /\ CallsInv
  BY DEF CallsInit, CallTypeOK, Dialer, Bridge, Free, NoBridge, CallsInv, DialersHaveCalls,
         DiallersAlone, AbsentIsUnplaced
<1>5. ClaimedByItsRow
  BY <1>1 DEF ClaimedByItsRow
<1> QED
  BY <1>2, <1>3, <1>4, <1>5 DEF IInv, Types, StreamsInv

LEMMA StepTypes ==
  ASSUME Types, Next
  PROVE  Types'
<1>1. LedgerTypeOK'
  BY LedgerSteps DEF Types, LedgerStep, LedgerTypeOK
<1>2. drawn' \in Nat
  BY DEF Types, Next, Acquires, Fresh
<1> QED
  BY <1>1, <1>2, StreamTypes, CallTypes DEF Types

(* What the refinements and the invariants need of a step.                  *)
LEMMA Step ==
  ASSUME IInv, [Next]_vars
  PROVE  /\ IInv'
         /\ [Relayed!Next]_<<[s \in Streams |-> Stage(session[s].status)], relayed>>
         /\ [Placed!Next]_<<[c \in Calls |-> CallStage(record[c])], placed>>
<1>1. CASE Next
  <2>1. StreamsDo /\ CallsDo
    BY <1>1, StreamCases, CallCases DEF IInv, StreamsInv, CallsInv
  <2> QED
    BY <1>1, <2>1, StepTypes, StreamsStep, CallsStep, StreamsRefine, CallsRefine DEF IInv
<1>2. CASE UNCHANGED vars
  <2>1. UNCHANGED <<session, relayed, record, placed>>
    BY <1>2 DEF vars
  <2>2. IInv'
    BY <1>2
    DEF vars, IInv, Types, LedgerTypeOK, StreamTypeOK, CallTypeOK, StreamsInv,
        HandlersHaveStreams, ClaimersAlone, ReadyIsUnused, ClaimedByItsRow, CallsInv,
        DialersHaveCalls, DiallersAlone, AbsentIsUnplaced
  <2> QED
    BY <2>1, <2>2
<1> QED
  BY <1>1, <1>2

LEMMA Always == Spec => []IInv
<1>1. IInv /\ [Next]_vars => IInv'
  BY Step
<1> QED
  BY InitIInv, <1>1, PTL DEF Spec

(* The ledger, its streams and its calls keep their types.                  *)
THEOREM SessionTypes == Spec => []TypeOK
<1>1. IInv => TypeOK
  BY DEF IInv, Types, TypeOK
<1> QED
  BY <1>1, Always, PTL

(* A slot that awaits no claim was claimed for a session whose row is past  *)
(* ready and names the slot's token.                                        *)
THEOREM ClaimedSlotsHaveRows == Spec => []ClaimedByItsRow
<1>1. IInv => ClaimedByItsRow
  BY DEF IInv, StreamsInv
<1> QED
  BY <1>1, Always, PTL

(* Streams are ids that are used once: handle_stt_create and                *)
(* handle_stt_stream implement SingleUse.                                   *)
THEOREM StreamsAreRelayedOnce == Spec => RelayedOnce
<1>1. Init => Relayed!Init
  <2> SUFFICES ASSUME Init PROVE Relayed!Init
    OBVIOUS
  <2>1. Stage("absent") = "free"
    BY DEF Stage
  <2> QED
    BY <2>1 DEF Init, StreamsInit, Relayed!Init
<1>2. IInv /\ [Next]_vars =>
        [Relayed!Next]_<<[s \in Streams |-> Stage(session[s].status)], relayed>>
  BY Step
<1> QED
  BY <1>1, <1>2, Always, PTL DEF Spec, RelayedOnce, Relayed!Spec, Relayed!vars

(* And so are calls: start_session, settle and the cron implement it.       *)
THEOREM CallsArePlacedOnce == Spec => PlacedOnce
<1>1. Init => Placed!Init
  <2> SUFFICES ASSUME Init PROVE Placed!Init
    OBVIOUS
  <2>1. CallStage("absent") = "free"
    BY DEF CallStage
  <2> QED
    BY <2>1 DEF Init, CallsInit, Placed!Init
<1>2. IInv /\ [Next]_vars =>
        [Placed!Next]_<<[c \in Calls |-> CallStage(record[c])], placed>>
  BY Step
<1> QED
  BY <1>1, <1>2, Always, PTL DEF Spec, PlacedOnce, Placed!Spec, Placed!vars
=============================================================================
