----------------------------- MODULE SttAdmission -----------------------------
(***************************************************************************)
(* The speech admission ledger (worker-rs/src/stt_admission.rs) inside its *)
(* Durable Object (SttAdmissionDo, worker-rs/src/routes_ai.rs): one object *)
(* for every account, whose requests run one at a time.                    *)
(*                                                                         *)
(* A session reserves seconds of audio and holds a slot in flight under an *)
(* acquisition token; the token is claimed before a deadline, or the alarm *)
(* frees the slot; it is released when the work is over; the reservation   *)
(* itself stays charged until a window has passed.                         *)
(*                                                                         *)
(* Abstractions: times are kept relative to now, so a reservation has an   *)
(* age and a deadline has time left.  Seconds and cost are two budgets of  *)
(* the same shape and one here.  A session always comes with the same      *)
(* account and amount, so the 409 for another one does not occur.          *)
(***************************************************************************)
EXTENDS Naturals, FiniteSets, FiniteSetsExt, Functions

CONSTANTS
  Sessions,        \* session ids
  Uid,             \* the account of each session
  Cost,            \* what each session reserves
  Tokens,          \* acquisition tokens
  Window,          \* Limits::window_ms, in ticks
  ClaimDeadline,   \* Limits::claim_deadline_ms, in ticks
  UidInFlight, GlobalInFlight,
  UidBudget, GlobalBudget

ASSUME LimitsAssumption ==
  /\ Cost \in [Sessions -> Nat \ {0}]
  /\ Window \in Nat \ {0} /\ ClaimDeadline \in Nat \ {0}
  /\ UidInFlight \in Nat \ {0} /\ GlobalInFlight \in Nat \ {0}
  /\ UidBudget \in Nat /\ GlobalBudget \in Nat

ASSUME SessionsAssumption == IsFiniteSet(Sessions) /\ DOMAIN Uid = Sessions

VARIABLES
  slots,   \* SttAdmission::reservations, by session id
  alarm    \* the object's alarm: {} or {ticks until it is due}

ledger == <<slots, alarm>>

(* pending: claim_by is Some, and left ticks away.                          *)
Slot == [age : Nat, inFlight : BOOLEAN, pending : BOOLEAN, left : Nat, token : Tokens]

(* A slot as an admission leaves it.                                        *)
Acquired(age, t) ==
  [age |-> age, inFlight |-> TRUE, pending |-> TRUE, left |-> ClaimDeadline, token |-> t]

Freed(slot) == [slot EXCEPT !.inFlight = FALSE, !.pending = FALSE, !.left = 0]

-----------------------------------------------------------------------------
(* next_alarm, and save_and_schedule at the end of every request            *)

Deadlines(held) ==
  {held[s].left : s \in {x \in DOMAIN held : held[x].inFlight /\ held[x].pending}}

NextAlarm(held) == {n \in Deadlines(held) : \A m \in Deadlines(held) : n <= m}

Save(held) == slots' = held /\ alarm' = NextAlarm(held)

LedgerInit == slots = <<>> /\ alarm = {}

-----------------------------------------------------------------------------
(* /admit                                                                   *)

(* The reservations of the window: admit forgets every older one, whether   *)
(* or not it is still in flight.                                            *)
Live == Restrict(slots, {s \in DOMAIN slots : slots[s].age < Window})

InFlight(held) == {s \in DOMAIN held : held[s].inFlight}

SameUid(s, S) == {x \in S : Uid[x] = Uid[s]}

Reserved(S) == MapThenSumSet(LAMBDA s : Cost[s], S)

Full(s) ==
  \/ Cardinality(InFlight(Live)) >= GlobalInFlight
  \/ Cardinality(SameUid(s, InFlight(Live))) >= UidInFlight

OverBudget(s) ==
  \/ Reserved(DOMAIN Live) + Cost[s] > GlobalBudget
  \/ Reserved(SameUid(s, DOMAIN Live)) + Cost[s] > UidBudget

(* A session without a reservation: admitted under the new token.           *)
AdmitFresh(s, t) ==
  /\ s \notin DOMAIN Live /\ ~Full(s) /\ ~OverBudget(s)
  /\ Save([x \in DOMAIN Live \cup {s} |-> IF x = s THEN Acquired(0, t) ELSE Live[x]])

(* One already in flight: told the token it runs under.                     *)
AdmitDuplicate(s) ==
  /\ s \in InFlight(Live)
  /\ Save(Live)

(* One that was released: in flight again under the new token, without      *)
(* being charged again.                                                     *)
Reacquire(s, t) ==
  /\ s \in DOMAIN Live \ InFlight(Live) /\ ~Full(s)
  /\ Save([Live EXCEPT ![s] = Acquired(@.age, t)])

(* 429.                                                                     *)
Refuse(s) ==
  /\ \/ s \notin DOMAIN Live /\ (Full(s) \/ OverBudget(s))
     \/ s \in DOMAIN Live \ InFlight(Live) /\ Full(s)
  /\ Save(Live)

-----------------------------------------------------------------------------
(* /claim and /release                                                      *)

Holds(s, t) == s \in DOMAIN slots /\ slots[s].token = t

(* claimed: true.  From here on no deadline threatens the slot.             *)
Slip_Claim(s, t) ==
  /\ Holds(s, t) /\ slots[s].inFlight /\ slots[s].pending
  /\ slots[s].left > 0
  /\ Save(slots)

Claim(s, t) ==
  /\ Holds(s, t) /\ slots[s].inFlight /\ slots[s].pending
  /\ slots[s].left > 0
  /\ Save([slots EXCEPT ![s].pending = FALSE, ![s].left = 0])

(* claimed: false.  A claim that comes after its deadline frees the slot.   *)
ClaimLate(s, t) ==
  \/ /\ Holds(s, t) /\ slots[s].inFlight /\ slots[s].pending
     /\ slots[s].left = 0
     /\ Save([slots EXCEPT ![s] = Freed(@)])
  \/ /\ ~(Holds(s, t) /\ slots[s].inFlight /\ slots[s].pending)
     /\ Save(slots)

Slip_ReleaseForgets(s, t) ==
  Save(IF Holds(s, t) THEN Restrict(slots, DOMAIN slots \ {s}) ELSE slots)

Slip_ReleaseAny(s, t) ==
  Save(IF s \in DOMAIN slots THEN [slots EXCEPT ![s] = Freed(@)] ELSE slots)

Release(s, t) ==
  Save(IF Holds(s, t) THEN [slots EXCEPT ![s] = Freed(@)] ELSE slots)

-----------------------------------------------------------------------------
(* The alarm and the clock                                                  *)

Expired(slot) == slot.inFlight /\ slot.pending /\ slot.left = 0

Slip_Alarm ==
  /\ 0 \in alarm
  /\ slots' = [s \in DOMAIN slots |->
                 IF Expired(slots[s]) THEN Freed(slots[s]) ELSE slots[s]]
  /\ alarm' = {}

Alarm ==
  /\ 0 \in alarm
  /\ Save([s \in DOMAIN slots |->
             IF Expired(slots[s]) THEN Freed(slots[s]) ELSE slots[s]])

Sooner(n) == IF n = 0 THEN 0 ELSE n - 1

(* One tick.  Ages beyond the window are all alike.                         *)
Pass ==
  /\ slots' = [s \in DOMAIN slots |->
                 [slots[s] EXCEPT !.age = Min({@ + 1, Window}), !.left = Sooner(@)]]
  /\ alarm' = {Sooner(n) : n \in alarm}

-----------------------------------------------------------------------------

LedgerTypeOK ==
  /\ DOMAIN slots \subseteq Sessions
  /\ \A s \in DOMAIN slots : slots[s] \in Slot
  /\ alarm \subseteq Nat

(* Whenever a claim is awaited the alarm is set, and not later than the     *)
(* earliest deadline: no admission, release, claim or alarm in between      *)
(* postpones or loses it.                                                   *)
AlarmCovers ==
  \A n \in Deadlines(slots) : \E a \in alarm : a <= n
=============================================================================
