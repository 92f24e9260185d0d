-------------------------- MODULE AssistantAdmission --------------------------
(***************************************************************************)
(* The assistant's admission ledger (worker-rs/src/assistant_admission.rs) *)
(* inside its Durable Object (AssistantAdmissionDo in routes_ai.rs), which *)
(* handles one request at a time.  A managed request reserves an estimate  *)
(* of what it will use; it is settled with what it did use, or released,   *)
(* and is charged until a window has passed.                               *)
(*                                                                         *)
(* Abstractions: a reservation has an age.  Tokens and cost are two budgets*)
(* of the same shape and one here.                                         *)
(***************************************************************************)
EXTENDS Naturals, FiniteSets, FiniteSetsExt, Functions

CONSTANTS
  Requests,      \* request ids: every request draws its own
  Uid,           \* the account of each
  Estimates,     \* what a request may reserve
  Window,        \* Limits::window_ms, in ticks
  UidInFlight, GlobalInFlight,
  UidBudget, GlobalBudget

ASSUME AdmissionAssumption ==
  /\ IsFiniteSet(Requests) /\ DOMAIN Uid = Requests
  /\ Estimates \subseteq Nat \ {0}
  /\ Window \in Nat \ {0}
  /\ UidInFlight \in Nat \ {0} /\ GlobalInFlight \in Nat \ {0}
  /\ UidBudget \in Nat \ {0} /\ GlobalBudget \in Nat \ {0}

VARIABLE reservations   \* AssistantAdmission::reservations, by request id

Reservation == [age : 0..Window, charge : Nat, inFlight : BOOLEAN]

LedgerInit == reservations = <<>>

(* admit forgets what is older than the window.                             *)
Recent == Restrict(reservations, {r \in DOMAIN reservations : reservations[r].age < Window})

InFlight == {r \in DOMAIN Recent : Recent[r].inFlight}

OfUid(r, S) == {q \in S : Uid[q] = Uid[r]}

Charge(S) == MapThenSumSet(LAMBDA r : reservations[r].charge, S)

Exceeds(r, estimate) ==
  \/ Cardinality(InFlight) >= GlobalInFlight
  \/ Cardinality(OfUid(r, InFlight)) >= UidInFlight
  \/ Charge(DOMAIN Recent) + estimate > GlobalBudget
  \/ Charge(OfUid(r, DOMAIN Recent)) + estimate > UidBudget

(* 200.                                                                     *)
Admit(r, estimate) ==
  /\ r \notin DOMAIN Recent /\ ~Exceeds(r, estimate)
  /\ reservations' =
       [q \in DOMAIN Recent \cup {r} |->
          IF q = r THEN [age |-> 0, charge |-> estimate, inFlight |-> TRUE] ELSE Recent[q]]

(* 429.                                                                     *)
Refuse(r, estimate) ==
  /\ r \notin DOMAIN Recent /\ Exceeds(r, estimate)
  /\ reservations' = Recent

Released(r) ==
  [q \in DOMAIN reservations |->
     IF q = r THEN [reservations[q] EXCEPT !.inFlight = FALSE] ELSE reservations[q]]

Settled(r, used) ==
  [q \in DOMAIN reservations |->
     IF q = r THEN [reservations[q] EXCEPT !.inFlight = FALSE, !.charge = used]
              ELSE reservations[q]]

(* One tick.  Ages beyond the window are all alike.                         *)
Aged ==
  [q \in DOMAIN reservations |-> [reservations[q] EXCEPT !.age = Min({@ + 1, Window})]]

LedgerTypeOK ==
  /\ DOMAIN reservations \subseteq Requests
  /\ \A r \in DOMAIN reservations : reservations[r] \in Reservation
=============================================================================
