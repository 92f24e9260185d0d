------------------------ MODULE SpeechAdmission_proofs ------------------------
(***************************************************************************)
(* Proofs about the speech admission ledger with any clients, and about    *)
(* the keyed speech requests that are among its clients, for every set of  *)
(* sessions, attempts, audio and tokens (the sessions finite where they    *)
(* are counted), and every value of the limits and windows.                *)
(***************************************************************************)
EXTENDS SttClients, SpeechRequests, FoldLemmas

-----------------------------------------------------------------------------
(* Minima                                                                   *)

(* Ages stop at the window.                                                 *)
LEMMA MinWindow ==
  ASSUME NEW n \in Nat
  PROVE  /\ Min({n, Window}) \in 0..Window
         /\ Min({n, Window}) < Window => Min({n, Window}) = n
         /\ n < Window => Min({n, Window}) = n
<1>1. Window \in Nat
  BY LimitsAssumption
<1>2. CASE n <= Window
  BY <1>1, <1>2 DEF Min
<1>3. CASE n > Window
  BY <1>1, <1>3 DEF Min
<1> QED
  BY <1>1, <1>2, <1>3

-----------------------------------------------------------------------------
(* The invariant                                                            *)

(* Sessions that count against the limits in flight.                        *)
Busy == InFlight(Live)

Capacity ==
  /\ Cardinality(Busy) <= GlobalInFlight
  /\ \A s \in Sessions : Cardinality(SameUid(s, Busy)) <= UidInFlight

AgesInWindow == \A s \in DOMAIN slots : slots[s].age \in 0..Window

(* Whoever works still knows the token it works under.                      *)
WorkersHold == \A w \in working : <<w[1], w[2]>> \in held

(* Nobody works under a token whose claim is still awaited.                 *)
PendingIsIdle ==
  \A s \in DOMAIN slots, w \in working :
    slots[s].pending => <<w[1], w[2]>> # <<s, slots[s].token>>

(* Behind everybody at work on a reservation of the window, under a token   *)
(* nobody released, there is a slot in flight whose claim was granted under *)
(* that worker's token.                                                     *)
Supports(s, w) ==
  /\ s \in DOMAIN slots
  /\ slots[s].inFlight /\ ~slots[s].pending
  /\ slots[s].token = w[2] /\ slots[s].age = w[3]

WorkersSupported == \A w \in Covered : Supports(w[1], w)

IInv ==
  /\ ClientsTypeOK /\ AgesInWindow /\ AlarmCovers
  /\ WorkersHold /\ PendingIsIdle /\ WorkersSupported
  /\ Capacity

-----------------------------------------------------------------------------
(* What the ledger's operations do to the slots                             *)

(* No slot appears, is taken, or changes its token or age.                  *)
OnlyFrees ==
  \A x \in DOMAIN slots' :
    /\ x \in DOMAIN slots /\ slots'[x] \in Slot
    /\ slots'[x].token = slots[x].token /\ slots'[x].age = slots[x].age
    /\ slots'[x].inFlight => slots[x].inFlight
    /\ slots'[x].pending => slots[x].pending

(* Session s gets the slot under token t and every other slot is as it was, *)
(* or was forgotten.                                                        *)
Takes(s, t) ==
  /\ s \in DOMAIN slots' /\ slots'[s] \in Slot
  /\ slots'[s].inFlight /\ slots'[s].token = t
  /\ slots'[s].age \in 0..Window
  /\ \A x \in DOMAIN slots' \ {s} : x \in DOMAIN slots /\ slots'[x] = slots[x]

(* A granted slot of the window stays as it is.                             *)
Stays(x) ==
  (x \in DOMAIN slots /\ slots[x].inFlight /\ ~slots[x].pending /\ slots[x].age < Window)
    => (x \in DOMAIN slots' /\ slots'[x] = slots[x])

(* Admission keeps the slots of the window, unchanged.                      *)
LEMMA LiveSlots ==
  /\ DOMAIN Live = {x \in DOMAIN slots : slots[x].age < Window}
  /\ \A x \in DOMAIN Live : Live[x] = slots[x]
BY DEF Live, Restrict

(* A session counts while its slot is in flight and of the window.          *)
LEMMA BusySessions ==
  /\ Busy = {x \in DOMAIN slots : slots[x].age < Window /\ slots[x].inFlight}
  /\ Busy' = {x \in DOMAIN slots' : slots'[x].age < Window /\ slots'[x].inFlight}
BY DEF Busy, InFlight, Live, Restrict

(* A slot as an admission leaves it.                                        *)
LEMMA AcquiredSlot ==
  ASSUME NEW n \in Nat, NEW t \in Tokens
  PROVE  /\ Acquired(n, t) \in Slot
         /\ Acquired(n, t).inFlight /\ Acquired(n, t).token = t
         /\ Acquired(n, t).age = n
BY LimitsAssumption DEF Acquired, Slot

(* A freed slot keeps its token and age.                                    *)
LEMMA FreedSlot ==
  ASSUME NEW slot \in Slot
  PROVE  /\ Freed(slot) \in Slot
         /\ Freed(slot).token = slot.token /\ Freed(slot).age = slot.age
         /\ ~Freed(slot).inFlight /\ ~Freed(slot).pending
BY DEF Freed, Slot

(* /admit for a session without a reservation.                              *)
LEMMA AdmitFreshSlots ==
  ASSUME LedgerTypeOK, NEW s \in Sessions, NEW t \in Tokens, AdmitFresh(s, t)
  PROVE  /\ Takes(s, t) /\ s \notin Busy
         /\ \A x \in Sessions : Stays(x)
<1>1. /\ s \notin DOMAIN Live
      /\ slots' = [x \in DOMAIN Live \cup {s} |->
                    IF x = s THEN Acquired(0, t) ELSE Live[x]]
  BY DEF AdmitFresh, Save
<1>2. /\ DOMAIN slots' = DOMAIN Live \cup {s}
      /\ slots'[s] = Acquired(0, t)
      /\ \A x \in DOMAIN Live : slots'[x] = Live[x]
  BY <1>1
<1>3. Acquired(0, t) \in Slot /\ Acquired(0, t).inFlight
      /\ Acquired(0, t).token = t /\ Acquired(0, t).age = 0
  BY AcquiredSlot
<1>4. 0 \in 0..Window
  BY LimitsAssumption
<1>5. Takes(s, t)
  BY <1>2, <1>3, <1>4, LiveSlots DEF Takes
<1>6. s \notin Busy
  BY <1>1, LiveSlots, BusySessions
<1>7. \A x \in Sessions : Stays(x)
  BY <1>2, LiveSlots DEF Stays
<1> QED
  BY <1>5, <1>6, <1>7

(* /admit for one that was released.                                        *)
LEMMA ReacquireSlots ==
  ASSUME LedgerTypeOK, AgesInWindow,
         NEW s \in Sessions, NEW t \in Tokens, Reacquire(s, t)
  PROVE  /\ Takes(s, t) /\ s \notin Busy
         /\ \A x \in Sessions : Stays(x)
<1>1. /\ s \in DOMAIN Live /\ ~Live[s].inFlight
      /\ slots' = [Live EXCEPT ![s] = Acquired(Live[s].age, t)]
  BY DEF Reacquire, Save, InFlight
<1>2. /\ DOMAIN slots' = DOMAIN Live
      /\ slots'[s] = Acquired(slots[s].age, t)
      /\ \A x \in DOMAIN Live \ {s} : slots'[x] = slots[x]
  BY <1>1, LiveSlots
<1>3. s \in DOMAIN slots /\ slots[s].age \in 0..Window /\ slots[s].age \in Nat
  BY <1>1, LiveSlots DEF AgesInWindow, LedgerTypeOK, Slot
<1>4. Takes(s, t)
  BY <1>1, <1>2, <1>3, LiveSlots, AcquiredSlot DEF Takes
<1>5. s \notin Busy
  BY <1>1, LiveSlots, BusySessions
<1>6. \A x \in Sessions : Stays(x)
  BY <1>1, <1>2, LiveSlots DEF Stays
<1> QED
  BY <1>4, <1>5, <1>6

(* /admit that forgets old reservations and changes nothing else.           *)
LEMMA SavedLiveSlots ==
  ASSUME LedgerTypeOK, slots' = Live
  PROVE  OnlyFrees /\ \A x \in Sessions : Stays(x)
BY LiveSlots DEF OnlyFrees, Stays, LedgerTypeOK

(* /claim that is granted.                                                  *)
LEMMA ClaimSlots ==
  ASSUME LedgerTypeOK, NEW s \in Sessions, NEW t \in Tokens, Claim(s, t)
  PROVE  /\ OnlyFrees /\ \A x \in Sessions : Stays(x)
         /\ s \in DOMAIN slots /\ slots[s].pending /\ slots[s].token = t
         /\ s \in DOMAIN slots' /\ slots'[s].inFlight /\ ~slots'[s].pending
         /\ slots'[s].age = slots[s].age /\ slots'[s].token = t
<1>1. /\ s \in DOMAIN slots /\ slots[s].token = t
      /\ slots[s].inFlight /\ slots[s].pending
      /\ slots' = [slots EXCEPT ![s] = [@ EXCEPT !.pending = FALSE, !.left = 0]]
  BY DEF Claim, Holds, Save
<1>2. slots[s] \in Slot
  BY <1>1 DEF LedgerTypeOK
<1>3. /\ DOMAIN slots' = DOMAIN slots
      /\ slots'[s] = [slots[s] EXCEPT !.pending = FALSE, !.left = 0]
      /\ \A x \in DOMAIN slots \ {s} : slots'[x] = slots[x]
  BY <1>1
<1>4. /\ slots'[s] \in Slot
      /\ slots'[s].inFlight /\ ~slots'[s].pending
      /\ slots'[s].age = slots[s].age /\ slots'[s].token = t
  BY <1>1, <1>2, <1>3 DEF Slot
<1>5. OnlyFrees
  BY <1>1, <1>3, <1>4 DEF OnlyFrees, LedgerTypeOK
<1>6. \A x \in Sessions : Stays(x)
  BY <1>1, <1>3 DEF Stays
<1> QED
  BY <1>1, <1>3, <1>4, <1>5, <1>6

(* Freeing some slots.                                                      *)
LEMMA FreeingSlots ==
  ASSUME LedgerTypeOK, NEW F,
         DOMAIN slots' = DOMAIN slots,
         \A x \in DOMAIN slots :
           slots'[x] = IF x \in F THEN Freed(slots[x]) ELSE slots[x]
  PROVE  OnlyFrees /\ \A x \in Sessions : x \notin F => Stays(x)
<1>1. ASSUME NEW x \in DOMAIN slots'
      PROVE  /\ x \in DOMAIN slots /\ slots'[x] \in Slot
             /\ slots'[x].token = slots[x].token /\ slots'[x].age = slots[x].age
             /\ slots'[x].inFlight => slots[x].inFlight
             /\ slots'[x].pending => slots[x].pending
  <2>1. x \in DOMAIN slots /\ slots[x] \in Slot
    BY DEF LedgerTypeOK
  <2>2. slots'[x] = Freed(slots[x]) \/ slots'[x] = slots[x]
    BY <2>1
  <2> QED
    BY <2>1, <2>2, FreedSlot
<1>2. OnlyFrees
  BY <1>1 DEF OnlyFrees
<1>3. \A x \in Sessions : x \notin F => Stays(x)
  BY DEF Stays
<1> QED
  BY <1>2, <1>3

(* /claim that is refused frees a pending slot or none.                     *)
LEMMA ClaimLateSlots ==
  ASSUME LedgerTypeOK, NEW s \in Sessions, NEW t \in Tokens, ClaimLate(s, t)
  PROVE  OnlyFrees /\ \A x \in Sessions : Stays(x)
<1>1. CASE s \in DOMAIN slots /\ slots[s].pending
           /\ slots' = [slots EXCEPT ![s] = Freed(@)]
  <2>1. /\ DOMAIN slots' = DOMAIN slots
        /\ \A x \in DOMAIN slots :
             slots'[x] = IF x \in {s} THEN Freed(slots[x]) ELSE slots[x]
    BY <1>1
  <2>2. OnlyFrees /\ \A x \in Sessions : x \notin {s} => Stays(x)
    BY <2>1, FreeingSlots
  <2>3. Stays(s)
    BY <1>1 DEF Stays
  <2> QED
    BY <2>2, <2>3
<1>2. CASE slots' = slots
  BY <1>2 DEF OnlyFrees, Stays, LedgerTypeOK
<1> QED
  BY <1>1, <1>2 DEF ClaimLate, Holds, Save

(* /release frees the slot of its own token or none.                        *)
LEMMA ReleaseSlots ==
  ASSUME LedgerTypeOK, NEW s \in Sessions, NEW t \in Tokens, Release(s, t)
  PROVE  /\ OnlyFrees
         /\ \A x \in Sessions : Stays(x) \/ (x = s /\ slots[s].token = t)
<1>1. CASE s \in DOMAIN slots /\ slots[s].token = t
           /\ slots' = [slots EXCEPT ![s] = Freed(@)]
  <2>1. /\ DOMAIN slots' = DOMAIN slots
        /\ \A x \in DOMAIN slots :
             slots'[x] = IF x \in {s} THEN Freed(slots[x]) ELSE slots[x]
    BY <1>1
  <2>2. OnlyFrees /\ \A x \in Sessions : x \notin {s} => Stays(x)
    BY <2>1, FreeingSlots
  <2> QED
    BY <1>1, <2>2
<1>2. CASE slots' = slots
  BY <1>2 DEF OnlyFrees, Stays, LedgerTypeOK
<1> QED
  BY <1>1, <1>2 DEF Release, Holds, Save

(* The alarm frees pending slots only.                                      *)
LEMMA AlarmSlots ==
  ASSUME LedgerTypeOK, Alarm
  PROVE  OnlyFrees /\ \A x \in Sessions : Stays(x)
<1> DEFINE F == {x \in DOMAIN slots : Expired(slots[x])}
<1>1. slots' = [x \in DOMAIN slots |->
                  IF Expired(slots[x]) THEN Freed(slots[x]) ELSE slots[x]]
  BY DEF Alarm, Save
<1>2. /\ DOMAIN slots' = DOMAIN slots
      /\ \A x \in DOMAIN slots :
           slots'[x] = IF x \in F THEN Freed(slots[x]) ELSE slots[x]
  BY <1>1
<1>3. \A x \in F : x \in DOMAIN slots /\ slots[x].pending
  BY DEF Expired
<1> HIDE DEF F
<1>4. OnlyFrees /\ \A x \in Sessions : x \notin F => Stays(x)
  BY <1>2, FreeingSlots
<1>5. \A x \in F : Stays(x)
  BY <1>3 DEF Stays
<1> QED
  BY <1>4, <1>5

-----------------------------------------------------------------------------
(* The alarm                                                                *)

(* Whatever a request saves, the alarm is set for the earliest deadline.    *)
LEMMA SaveCovers ==
  ASSUME \A x \in DOMAIN slots' : slots'[x] \in Slot,
         alarm' = NextAlarm(slots')
  PROVE  AlarmCovers' /\ alarm' \subseteq Nat
<1> DEFINE D == Deadlines(slots')
<1>1. D \in SUBSET Nat
  BY DEF Deadlines, Slot
<1>2. alarm' = {n \in D : \A m \in D : n <= m}
  BY DEF NextAlarm
<1> HIDE DEF D
<1>3. ASSUME NEW n \in D PROVE \E a \in alarm' : a <= n
  <2>1. PICK m \in D : \A x \in D : m <= x
    BY <1>1, <1>3, LeastNatural
  <2> QED
    BY <1>2, <2>1
<1>4. AlarmCovers'
  BY <1>3 DEF AlarmCovers, D
<1> QED
  BY <1>1, <1>2, <1>4

(* It stays so while time passes.                                           *)
LEMMA PassCovers ==
  ASSUME LedgerTypeOK, AlarmCovers, Pass
  PROVE  AlarmCovers' /\ alarm' \subseteq Nat
<1>1. alarm' = {Sooner(n) : n \in alarm} /\ alarm \subseteq Nat
  BY DEF Pass, LedgerTypeOK
<1>2. \A n \in Nat : Sooner(n) \in Nat
  BY DEF Sooner
<1>3. ASSUME NEW n \in Deadlines(slots') PROVE \E a \in alarm' : a <= n
  <2>1. PICK x \in DOMAIN slots' :
          slots'[x].inFlight /\ slots'[x].pending /\ n = slots'[x].left
    BY <1>3 DEF Deadlines
  <2>2. x \in DOMAIN slots /\ slots[x] \in Slot
        /\ slots'[x] = [slots[x] EXCEPT !.age = Min({@ + 1, Window}), !.left = Sooner(@)]
    BY <2>1 DEF Pass, LedgerTypeOK
  <2>3. slots[x].inFlight /\ slots[x].pending /\ n = Sooner(slots[x].left)
        /\ slots[x].left \in Nat
    BY <2>1, <2>2 DEF Slot
  <2>4. slots[x].left \in Deadlines(slots)
    BY <2>2, <2>3 DEF Deadlines
  <2>5. PICK a \in alarm : a <= slots[x].left
    BY <2>4 DEF AlarmCovers
  <2>6. Sooner(a) <= Sooner(slots[x].left)
    BY <1>1, <2>3, <2>5 DEF Sooner
  <2> QED
    BY <1>1, <2>3, <2>6
<1> QED
  BY <1>1, <1>2, <1>3 DEF AlarmCovers

-----------------------------------------------------------------------------
(* Capacity                                                                 *)

(* Finitely many sessions count, of one account or of all.                  *)
LEMMA BusyFinite ==
  ASSUME LedgerTypeOK
  PROVE  /\ Busy \subseteq Sessions /\ IsFiniteSet(Busy)
         /\ \A s : IsFiniteSet(SameUid(s, Busy)) /\ SameUid(s, Busy) \subseteq Busy
<1>1. Busy \subseteq Sessions
  BY BusySessions DEF LedgerTypeOK
<1>2. IsFiniteSet(Busy)
  BY <1>1, SessionsAssumption, FS_Subset
<1>3. \A s : SameUid(s, Busy) \subseteq Busy
  BY DEF SameUid
<1> QED
  BY <1>1, <1>2, <1>3, FS_Subset

(* A set that gained at most one element is at most one larger.             *)
LEMMA OneMore ==
  ASSUME NEW S, IsFiniteSet(S), NEW T, NEW x, T \subseteq S \cup {x}
  PROVE  /\ Cardinality(S) \in Nat /\ Cardinality(T) \in Nat
         /\ Cardinality(T) <= Cardinality(S) + 1
<1>1. IsFiniteSet(S \cup {x})
  BY FS_AddElement
<1>2. IsFiniteSet(T) /\ Cardinality(T) <= Cardinality(S \cup {x})
  BY <1>1, FS_Subset
<1>3. Cardinality(S \cup {x}) \in {Cardinality(S), Cardinality(S) + 1}
  BY FS_AddElement
<1>4. Cardinality(S) \in Nat /\ Cardinality(T) \in Nat
  BY <1>2, FS_CardinalityType
<1> QED
  BY <1>2, <1>3, <1>4

(* Freeing and forgetting slots respects the limits.                        *)
LEMMA CapacityShrinks ==
  ASSUME LedgerTypeOK, Capacity, Busy' \subseteq Busy
  PROVE  Capacity'
<1>1. Cardinality(Busy') <= Cardinality(Busy) /\ IsFiniteSet(Busy')
  BY BusyFinite, FS_Subset
<1>2. ASSUME NEW s \in Sessions
      PROVE  Cardinality(SameUid(s, Busy')) <= Cardinality(SameUid(s, Busy))
  <2>1. SameUid(s, Busy') \subseteq SameUid(s, Busy)
    BY DEF SameUid
  <2> QED
    BY <2>1, BusyFinite, FS_Subset
<1>3. \A S, T : IsFiniteSet(S) /\ T \subseteq S =>
        Cardinality(S) \in Nat /\ Cardinality(T) \in Nat
  BY FS_Subset, FS_CardinalityType
<1>4. Cardinality(Busy) \in Nat /\ Cardinality(Busy') \in Nat
  BY <1>3, BusyFinite
<1>5. Cardinality(Busy') <= GlobalInFlight
  BY <1>1, <1>4, LimitsAssumption DEF Capacity
<1>6. ASSUME NEW s \in Sessions PROVE Cardinality(SameUid(s, Busy')) <= UidInFlight
  <2>1. SameUid(s, Busy') \subseteq SameUid(s, Busy)
    BY DEF SameUid
  <2>2. /\ Cardinality(SameUid(s, Busy)) \in Nat
        /\ Cardinality(SameUid(s, Busy')) \in Nat
    BY <1>3, <2>1, BusyFinite
  <2> QED
    BY <1>2, <2>2, LimitsAssumption DEF Capacity
<1> QED
  BY <1>5, <1>6 DEF Capacity

(* An admission happens below both limits.                                  *)
LEMMA CapacityTakes ==
  ASSUME LedgerTypeOK, Capacity, NEW s \in Sessions, NEW t, Takes(s, t),
         s \notin Busy, ~Full(s)
  PROVE  Capacity'
<1>1. Busy' \subseteq Busy \cup {s}
  BY BusySessions DEF Takes
<1>2. /\ ~(Cardinality(Busy) >= GlobalInFlight)
      /\ ~(Cardinality(SameUid(s, Busy)) >= UidInFlight)
  BY DEF Full, Busy
<1>3. Cardinality(Busy') <= GlobalInFlight
  <2>1. /\ Cardinality(Busy) \in Nat /\ Cardinality(Busy') \in Nat
        /\ Cardinality(Busy') <= Cardinality(Busy) + 1
    BY <1>1, BusyFinite, OneMore
  <2> QED
    BY <1>2, <2>1, LimitsAssumption
<1>4. ASSUME NEW x \in Sessions PROVE Cardinality(SameUid(x, Busy')) <= UidInFlight
  <2>1. CASE Uid[x] = Uid[s]
    <3>1. SameUid(x, Busy') \subseteq SameUid(s, Busy) \cup {s}
      BY <1>1, <2>1 DEF SameUid
    <3>2. /\ Cardinality(SameUid(s, Busy)) \in Nat
          /\ Cardinality(SameUid(x, Busy')) \in Nat
          /\ Cardinality(SameUid(x, Busy')) <= Cardinality(SameUid(s, Busy)) + 1
      BY <3>1, BusyFinite, OneMore
    <3> QED
      BY <1>2, <3>2, LimitsAssumption
  <2>2. CASE Uid[x] # Uid[s]
    <3>1. SameUid(x, Busy') \subseteq SameUid(x, Busy)
      BY <1>1, <2>2 DEF SameUid
    <3>2. /\ IsFiniteSet(SameUid(x, Busy)) /\ IsFiniteSet(SameUid(x, Busy'))
          /\ Cardinality(SameUid(x, Busy')) <= Cardinality(SameUid(x, Busy))
      BY <3>1, BusyFinite, FS_Subset
    <3>3. /\ Cardinality(SameUid(x, Busy)) \in Nat
          /\ Cardinality(SameUid(x, Busy')) \in Nat
      BY <3>2, FS_CardinalityType
    <3> QED
      BY <3>2, <3>3, LimitsAssumption DEF Capacity
  <2> QED
    BY <2>1, <2>2
<1> QED
  BY <1>3, <1>4 DEF Capacity

-----------------------------------------------------------------------------
(* The invariant is inductive                                               *)

(* An empty ledger, and clients that know no token.                         *)
LEMMA InitIInv == ClientsInit => IInv
<1> SUFFICES ASSUME ClientsInit PROVE IInv
  OBVIOUS
<1>1. slots = <<>> /\ alarm = {} /\ held = {} /\ working = {} /\ outlived = {}
      /\ charged = [s \in Sessions |-> Window]
  BY DEF ClientsInit, LedgerInit
<1>2. DOMAIN slots = {}
  BY <1>1
<1>3. ClientsTypeOK
  BY <1>1, <1>2, LimitsAssumption DEF ClientsTypeOK, LedgerTypeOK
<1>4. AgesInWindow /\ AlarmCovers
  BY <1>2 DEF AgesInWindow, AlarmCovers, Deadlines
<1>5. WorkersHold /\ PendingIsIdle /\ WorkersSupported
  BY <1>1 DEF WorkersHold, PendingIsIdle, WorkersSupported, Covered
<1>6. Capacity
  <2>1. Busy = {} /\ \A s : SameUid(s, Busy) = {}
    BY <1>2, BusySessions DEF SameUid
  <2> QED
    BY <2>1, FS_EmptySet, LimitsAssumption DEF Capacity
<1> QED
  BY <1>3, <1>4, <1>5, <1>6 DEF IInv

(* What freeing slots does to the ledger's own part of the invariant.       *)
LEMMA FreesLedger ==
  ASSUME IInv, OnlyFrees, alarm' = NextAlarm(slots')
  PROVE  LedgerTypeOK' /\ AgesInWindow' /\ AlarmCovers' /\ Capacity'
<1>1. LedgerTypeOK /\ AgesInWindow /\ Capacity
  BY DEF IInv, ClientsTypeOK
<1>2. \A x \in DOMAIN slots' : slots'[x] \in Slot
  BY DEF OnlyFrees
<1>3. AlarmCovers' /\ alarm' \subseteq Nat
  BY <1>2, SaveCovers
<1>4. LedgerTypeOK'
  BY <1>1, <1>2, <1>3 DEF LedgerTypeOK, OnlyFrees
<1>5. AgesInWindow'
  BY <1>1 DEF AgesInWindow, OnlyFrees
<1>6. Busy' \subseteq Busy
  BY BusySessions DEF OnlyFrees
<1> QED
  BY <1>1, <1>3, <1>4, <1>5, <1>6, CapacityShrinks

(* Duplicates, refusals, late claims, the alarm: slots are freed that       *)
(* nobody works under, and clients learn at most their token.               *)
LEMMA FreesStep ==
  ASSUME IInv, OnlyFrees, \A x \in Sessions : Stays(x),
         alarm' = NextAlarm(slots'),
         held \subseteq held', held' \subseteq Sessions \X Tokens,
         UNCHANGED <<working, outlived, charged>>
  PROVE  IInv'
<1>1. LedgerTypeOK' /\ AgesInWindow' /\ AlarmCovers' /\ Capacity'
  BY FreesLedger
<1>2. ClientsTypeOK'
  BY <1>1 DEF IInv, ClientsTypeOK
<1>3. WorkersHold'
  BY DEF IInv, WorkersHold
<1>4. PendingIsIdle'
  BY DEF IInv, PendingIsIdle, OnlyFrees
<1>5. ASSUME NEW w \in Covered' PROVE Supports(w[1], w)'
  <2>1. Supports(w[1], w) /\ w[3] < Window
    BY <1>5 DEF IInv, WorkersSupported, Covered
  <2>2. w[1] \in Sessions /\ Stays(w[1])
    BY <2>1 DEF IInv, ClientsTypeOK, LedgerTypeOK, Supports
  <2> QED
    BY <2>1, <2>2 DEF Supports, Stays
<1>6. WorkersSupported'
  BY <1>5 DEF WorkersSupported
<1> QED
  BY <1>1, <1>2, <1>3, <1>4, <1>6 DEF IInv

(* An admission under a token nobody has.                                   *)
LEMMA TakesStep ==
  ASSUME IInv, NEW s \in Sessions, NEW t \in Unheld,
         Takes(s, t), s \notin Busy, ~Full(s), \A x \in Sessions : Stays(x),
         alarm' = NextAlarm(slots'), Told(s, t),
         UNCHANGED <<working, outlived>>, charged' \in [Sessions -> 0..Window]
  PROVE  IInv'
<1>1. ClientsTypeOK /\ LedgerTypeOK /\ AgesInWindow /\ Capacity
  BY DEF IInv, ClientsTypeOK
<1>2. t \in Tokens /\ \A p \in held : p[2] # t
  BY DEF Unheld
<1>3. \A x \in DOMAIN slots' : slots'[x] \in Slot
  BY <1>1 DEF Takes, LedgerTypeOK
<1>4. AlarmCovers' /\ alarm' \subseteq Nat
  BY <1>3, SaveCovers
<1>5. LedgerTypeOK' /\ AgesInWindow'
  BY <1>1, <1>3, <1>4 DEF LedgerTypeOK, AgesInWindow, Takes
<1>6. held \subseteq held' /\ held' \subseteq Sessions \X Tokens
  BY <1>1, <1>2 DEF Told, ClientsTypeOK
<1>7. ClientsTypeOK'
  BY <1>1, <1>5, <1>6 DEF ClientsTypeOK
<1>8. Capacity'
  BY <1>1, CapacityTakes
<1>9. WorkersHold'
  BY <1>6 DEF IInv, WorkersHold
<1>10. \A w \in working : w[2] # t
  BY <1>2 DEF IInv, WorkersHold
<1>11. PendingIsIdle'
  <2> SUFFICES ASSUME NEW x \in DOMAIN slots', NEW w \in working, slots'[x].pending
               PROVE  <<w[1], w[2]>> # <<x, slots'[x].token>>
    BY DEF PendingIsIdle
  <2>1. CASE x = s
    BY <1>10, <2>1 DEF Takes
  <2>2. CASE x # s
    BY <2>2 DEF Takes, IInv, PendingIsIdle
  <2> QED
    BY <2>1, <2>2
<1>12. ASSUME NEW w \in Covered' PROVE Supports(w[1], w)'
  <2>1. Supports(w[1], w) /\ w[3] < Window
    BY <1>12 DEF IInv, WorkersSupported, Covered
  <2>2. w[1] \in Sessions /\ Stays(w[1])
    BY <1>1, <2>1 DEF LedgerTypeOK, Supports
  <2> QED
    BY <2>1, <2>2 DEF Supports, Stays
<1>13. WorkersSupported'
  BY <1>12 DEF WorkersSupported
<1> QED
  BY <1>4, <1>5, <1>7, <1>8, <1>9, <1>11, <1>13 DEF IInv

(* A claim that is granted, to a client that hears of it or does not.       *)
LEMMA GrantedStep ==
  ASSUME IInv, NEW p \in held, Granted(p)
  PROVE  IInv'
<1>1. /\ p[1] \in Sessions /\ p[2] \in Tokens /\ p = <<p[1], p[2]>>
      /\ ClientsTypeOK /\ LedgerTypeOK /\ AgesInWindow
  BY DEF IInv, ClientsTypeOK
<1>2. /\ Claim(p[1], p[2]) /\ UNCHANGED <<held, outlived, charged>>
      /\ working' \subseteq working \cup {<<p[1], p[2], slots[p[1]].age>>}
  BY DEF Granted
<1>3. /\ OnlyFrees /\ \A x \in Sessions : Stays(x)
      /\ p[1] \in DOMAIN slots
      /\ p[1] \in DOMAIN slots' /\ slots'[p[1]].inFlight /\ ~slots'[p[1]].pending
      /\ slots'[p[1]].age = slots[p[1]].age /\ slots'[p[1]].token = p[2]
  BY <1>1, <1>2, ClaimSlots
<1>4. alarm' = NextAlarm(slots')
  BY <1>2 DEF Claim, Save
<1>5. LedgerTypeOK' /\ AgesInWindow' /\ AlarmCovers' /\ Capacity'
  BY <1>3, <1>4, FreesLedger
<1> DEFINE new == <<p[1], p[2], slots[p[1]].age>>
<1>6. new \in Sessions \X Tokens \X (0..Window)
  BY <1>1, <1>3 DEF AgesInWindow
<1>7. new[1] = p[1] /\ new[2] = p[2] /\ new[3] = slots[p[1]].age
  OBVIOUS
<1>8. working' \subseteq working \cup {new}
  BY <1>2
<1> HIDE DEF new
<1>9. ClientsTypeOK'
  BY <1>1, <1>2, <1>5, <1>6, <1>8 DEF ClientsTypeOK
<1>10. WorkersHold'
  BY <1>1, <1>2, <1>7, <1>8 DEF IInv, WorkersHold
<1>11. PendingIsIdle'
  <2> SUFFICES ASSUME NEW x \in DOMAIN slots', NEW w \in working', slots'[x].pending
               PROVE  <<w[1], w[2]>> # <<x, slots'[x].token>>
    BY DEF PendingIsIdle
  <2>1. x # p[1]
    BY <1>3
  <2>2. x \in DOMAIN slots /\ slots[x].pending /\ slots'[x].token = slots[x].token
    BY <1>3 DEF OnlyFrees
  <2>3. CASE w \in working
    BY <2>2, <2>3 DEF IInv, PendingIsIdle
  <2>4. CASE w = new
    BY <1>7, <2>1, <2>4
  <2> QED
    BY <1>8, <2>3, <2>4
<1>12. ASSUME NEW w \in Covered' PROVE Supports(w[1], w)'
  <2>1. w \in working' /\ w[3] < Window /\ <<w[1], w[2]>> \notin outlived
    BY <1>2, <1>12 DEF Covered
  <2>2. CASE w \in working
    <3>1. Supports(w[1], w)
      BY <2>1, <2>2 DEF IInv, WorkersSupported, Covered
    <3>2. w[1] \in Sessions /\ Stays(w[1])
      BY <1>1, <1>3, <3>1 DEF LedgerTypeOK, Supports
    <3> QED
      BY <2>1, <3>1, <3>2 DEF Supports, Stays
  <2>3. CASE w = new
    BY <1>3, <1>7, <2>3 DEF Supports
  <2> QED
    BY <1>8, <2>1, <2>2, <2>3
<1>13. WorkersSupported'
  BY <1>12 DEF WorkersSupported
<1> QED
  BY <1>5, <1>9, <1>10, <1>11, <1>13 DEF IInv

(* A release: whoever works under the token stops, or is counted no longer. *)
LEMMA ReleasedStep ==
  ASSUME IInv, NEW p \in held, Released(p)
  PROVE  IInv'
<1>1. /\ p[1] \in Sessions /\ p[2] \in Tokens /\ p = <<p[1], p[2]>>
      /\ ClientsTypeOK /\ LedgerTypeOK
  BY DEF IInv, ClientsTypeOK
<1>2. /\ Release(p[1], p[2]) /\ UNCHANGED <<held, charged>>
      /\ working' \subseteq working
      /\ outlived' = (outlived \cup {p}) \cap {<<w[1], w[2]>> : w \in working'}
  BY DEF Released, Without
<1>3. /\ OnlyFrees
      /\ \A x \in Sessions : Stays(x) \/ (x = p[1] /\ slots[p[1]].token = p[2])
  BY <1>1, <1>2, ReleaseSlots
<1>4. alarm' = NextAlarm(slots')
  BY <1>2 DEF Release, Save
<1>5. LedgerTypeOK' /\ AgesInWindow' /\ AlarmCovers' /\ Capacity'
  BY <1>3, <1>4, FreesLedger
<1>6. ClientsTypeOK'
  BY <1>1, <1>2, <1>5 DEF ClientsTypeOK
<1>7. WorkersHold'
  BY <1>2 DEF IInv, WorkersHold
<1>8. PendingIsIdle'
  BY <1>2, <1>3 DEF IInv, PendingIsIdle, OnlyFrees
<1>9. ASSUME NEW w \in Covered' PROVE Supports(w[1], w)'
  <2>1. /\ w \in working' /\ w \in working /\ w[3] < Window
        /\ <<w[1], w[2]>> \notin outlived'
    BY <1>2, <1>9 DEF Covered
  <2>2. <<w[1], w[2]>> \notin outlived /\ <<w[1], w[2]>> # p
    BY <1>2, <2>1
  <2>3. Supports(w[1], w)
    BY <2>1, <2>2 DEF IInv, WorkersSupported, Covered
  <2>4. w[1] \in Sessions /\ Stays(w[1])
    BY <1>1, <1>3, <2>2, <2>3 DEF LedgerTypeOK, Supports
  <2> QED
    BY <2>1, <2>3, <2>4 DEF Supports, Stays
<1>10. WorkersSupported'
  BY <1>9 DEF WorkersSupported
<1> QED
  BY <1>5, <1>6, <1>7, <1>8, <1>10 DEF IInv

(* A client that vanishes takes its work along and leaves its slot.         *)
LEMMA VanishStep ==
  ASSUME IInv, NEW p \in held, Vanish(p)
  PROVE  IInv'
<1>1. /\ slots' = slots /\ alarm' = alarm /\ charged' = charged
      /\ held' \in {held, held \ {p}} /\ working' \subseteq working
      /\ outlived' = outlived \ {p}
      /\ \A w \in working' : <<w[1], w[2]>> # p
  BY DEF Vanish, Without
<1>2. ClientsTypeOK'
  BY <1>1 DEF IInv, ClientsTypeOK, LedgerTypeOK
<1>3. AgesInWindow' /\ AlarmCovers'
  BY <1>1 DEF IInv, AgesInWindow, AlarmCovers, Deadlines
<1>4. Capacity'
  BY <1>1, BusySessions DEF IInv, Capacity
<1>5. WorkersHold' /\ PendingIsIdle'
  BY <1>1 DEF IInv, WorkersHold, PendingIsIdle
<1>6. Covered' \subseteq Covered
  BY <1>1 DEF Covered
<1>7. WorkersSupported'
  BY <1>1, <1>6 DEF IInv, WorkersSupported, Supports
<1> QED
  BY <1>2, <1>3, <1>4, <1>5, <1>7 DEF IInv

(* Time passes: slots and workers age alike.                                *)
LEMMA TickStep ==
  ASSUME IInv, ClientsTick
  PROVE  IInv'
<1> DEFINE Aged(w) == <<w[1], w[2], Min({w[3] + 1, Window})>>
<1>1. /\ ClientsTypeOK /\ LedgerTypeOK /\ AgesInWindow /\ Pass
      /\ held' = held /\ outlived' = outlived
      /\ working' = {Aged(w) : w \in working}
      /\ charged' = [s \in Sessions |-> Min({charged[s] + 1, Window})]
  BY DEF IInv, ClientsTypeOK, ClientsTick
<1>2. Window \in Nat
  BY LimitsAssumption
<1>3. /\ DOMAIN slots' = DOMAIN slots
      /\ \A x \in DOMAIN slots :
           slots'[x] = [slots[x] EXCEPT !.age = Min({@ + 1, Window}), !.left = Sooner(@)]
  BY <1>1 DEF Pass
<1>4. ASSUME NEW x \in DOMAIN slots
      PROVE  /\ slots'[x] \in Slot /\ slots[x].age \in Nat
             /\ slots'[x].age = Min({slots[x].age + 1, Window})
             /\ slots'[x].age \in 0..Window
             /\ slots'[x].age < Window => slots[x].age < Window
             /\ slots'[x].inFlight = slots[x].inFlight
             /\ slots'[x].pending = slots[x].pending
             /\ slots'[x].token = slots[x].token
  <2>1. slots[x] \in Slot /\ slots[x].age \in Nat /\ slots[x].left \in Nat
    BY <1>1 DEF LedgerTypeOK, Slot
  <2>2. /\ Min({slots[x].age + 1, Window}) \in 0..Window
        /\ Min({slots[x].age + 1, Window}) < Window
             => Min({slots[x].age + 1, Window}) = slots[x].age + 1
    BY <2>1, MinWindow
  <2>3. Sooner(slots[x].left) \in Nat
    BY <2>1 DEF Sooner
  <2>4. PICK n \in 0..Window : n = Min({slots[x].age + 1, Window})
    BY <2>2
  <2>5. slots'[x] = [slots[x] EXCEPT !.age = n, !.left = Sooner(slots[x].left)]
    BY <1>3, <2>4
  <2>6. n \in Nat /\ (n < Window => slots[x].age < Window)
    BY <1>2, <2>1, <2>2, <2>4
  <2> QED
    BY <2>1, <2>3, <2>4, <2>5, <2>6 DEF Slot
<1>5. AlarmCovers' /\ alarm' \subseteq Nat
  BY <1>1, PassCovers DEF IInv
<1>6. LedgerTypeOK' /\ AgesInWindow'
  BY <1>1, <1>3, <1>4, <1>5 DEF LedgerTypeOK, AgesInWindow
<1>7. ASSUME NEW w \in working
      PROVE  /\ Aged(w) \in Sessions \X Tokens \X (0..Window)
             /\ Aged(w)[1] = w[1] /\ Aged(w)[2] = w[2]
             /\ Aged(w)[3] = Min({w[3] + 1, Window})
             /\ Aged(w)[3] < Window => w[3] < Window
  <2>1. w \in Sessions \X Tokens \X (0..Window)
    BY <1>1 DEF ClientsTypeOK
  <2>2. w[1] \in Sessions /\ w[2] \in Tokens /\ w[3] \in Nat
    BY <1>2, <2>1
  <2>3. /\ Min({w[3] + 1, Window}) \in 0..Window
        /\ Min({w[3] + 1, Window}) < Window => Min({w[3] + 1, Window}) = w[3] + 1
    BY <2>2, MinWindow
  <2> QED
    BY <1>2, <2>2, <2>3
<1> HIDE DEF Aged
<1>8. charged' \in [Sessions -> 0..Window]
  <2>1. \A s \in Sessions : charged[s] + 1 \in Nat
    BY <1>1, <1>2 DEF ClientsTypeOK
  <2>2. \A s \in Sessions : Min({charged[s] + 1, Window}) \in 0..Window
    BY <2>1, MinWindow
  <2> QED
    BY <1>1, <2>2
<1>9. ClientsTypeOK'
  BY <1>1, <1>6, <1>7, <1>8 DEF ClientsTypeOK
<1>10. Capacity'
  <2>1. Busy' \subseteq Busy
    BY <1>3, <1>4, BusySessions
  <2> QED
    BY <1>1, <2>1, CapacityShrinks DEF IInv
<1>11. ASSUME NEW v \in working'
       PROVE  \E w \in working :
                /\ v[1] = w[1] /\ v[2] = w[2] /\ v[3] = Min({w[3] + 1, Window})
                /\ v[3] < Window => w[3] < Window
  <2>1. PICK w \in working : v = Aged(w)
    BY <1>1
  <2> QED
    BY <1>7, <2>1
<1>12. WorkersHold' /\ PendingIsIdle'
  <2>1. ASSUME NEW v \in working' PROVE <<v[1], v[2]>> \in held'
    <3>1. PICK w \in working : v[1] = w[1] /\ v[2] = w[2]
      BY <1>11
    <3> QED
      BY <1>1, <3>1 DEF IInv, WorkersHold
  <2>2. ASSUME NEW x \in DOMAIN slots', NEW v \in working', slots'[x].pending
        PROVE  <<v[1], v[2]>> # <<x, slots'[x].token>>
    <3>1. PICK w \in working : v[1] = w[1] /\ v[2] = w[2]
      BY <1>11
    <3>2. x \in DOMAIN slots /\ slots[x].pending /\ slots'[x].token = slots[x].token
      BY <1>3, <1>4, <2>2
    <3> QED
      BY <3>1, <3>2 DEF IInv, PendingIsIdle
  <2> QED
    BY <2>1, <2>2 DEF WorkersHold, PendingIsIdle
<1>13. ASSUME NEW v \in Covered' PROVE Supports(v[1], v)'
  <2>1. PICK w \in working :
          /\ v[1] = w[1] /\ v[2] = w[2] /\ v[3] = Min({w[3] + 1, Window})
          /\ w[3] < Window
    BY <1>11, <1>13 DEF Covered
  <2>2. Supports(w[1], w)
    BY <1>1, <1>13, <2>1 DEF IInv, WorkersSupported, Covered
  <2> QED
    BY <1>3, <1>4, <2>1, <2>2 DEF Supports
<1>14. WorkersSupported'
  BY <1>13 DEF WorkersSupported
<1> QED
  BY <1>5, <1>6, <1>9, <1>10, <1>12, <1>14 DEF IInv

(* Every operation of the ledger by any client, the alarm and the clock.    *)
LEMMA StepIInv == IInv /\ [ClientsNext]_clientsVars => IInv'
<1> SUFFICES ASSUME IInv, [ClientsNext]_clientsVars PROVE IInv'
  OBVIOUS
<1>1. ClientsTypeOK /\ LedgerTypeOK /\ AgesInWindow
  BY DEF IInv, ClientsTypeOK
<1>2. CASE UNCHANGED clientsVars
  <2>1. UNCHANGED <<slots, alarm, held, working, outlived, charged>>
    BY <1>2 DEF clientsVars
  <2>2. Capacity'
    BY <2>1, BusySessions DEF IInv, Capacity
  <2> QED
    BY <2>1, <2>2
    DEF IInv, ClientsTypeOK, LedgerTypeOK, AgesInWindow, AlarmCovers, Deadlines,
        WorkersHold, PendingIsIdle, WorkersSupported, Supports, Covered
<1>3. ASSUME NEW s \in Sessions, Admitted(s) PROVE IInv'
  <2>1. PICK t \in Unheld : /\ AdmitFresh(s, t) /\ Told(s, t)
                            /\ UNCHANGED <<working, outlived>>
                            /\ charged' = [charged EXCEPT ![s] = 0]
    BY <1>3 DEF Admitted
  <2>2. t \in Tokens
    BY DEF Unheld
  <2>3. Takes(s, t) /\ s \notin Busy /\ \A x \in Sessions : Stays(x)
    BY <1>1, <2>1, <2>2, AdmitFreshSlots
  <2>4. ~Full(s) /\ alarm' = NextAlarm(slots')
    BY <2>1 DEF AdmitFresh, Save
  <2>5. charged' \in [Sessions -> 0..Window]
    BY <1>1, <2>1, LimitsAssumption DEF ClientsTypeOK
  <2> QED
    BY <2>1, <2>3, <2>4, <2>5, TakesStep
<1>4. ASSUME NEW s \in Sessions, Reacquired(s) PROVE IInv'
  <2>1. PICK t \in Unheld : /\ Reacquire(s, t) /\ Told(s, t)
                            /\ UNCHANGED <<working, outlived, charged>>
    BY <1>4 DEF Reacquired
  <2>2. t \in Tokens
    BY DEF Unheld
  <2>3. Takes(s, t) /\ s \notin Busy /\ \A x \in Sessions : Stays(x)
    BY <1>1, <2>1, <2>2, ReacquireSlots
  <2>4. ~Full(s) /\ alarm' = NextAlarm(slots')
    BY <2>1 DEF Reacquire, Save
  <2>5. charged' \in [Sessions -> 0..Window]
    BY <1>1, <2>1 DEF ClientsTypeOK
  <2> QED
    BY <2>1, <2>3, <2>4, <2>5, TakesStep
<1>5. ASSUME NEW s \in Sessions, Duplicated(s) PROVE IInv'
  <2>1. /\ slots' = Live /\ alarm' = NextAlarm(slots') /\ s \in DOMAIN Live
        /\ Told(s, slots[s].token) /\ UNCHANGED <<working, outlived, charged>>
    BY <1>5 DEF Duplicated, AdmitDuplicate, InFlight, Save
  <2>2. slots[s].token \in Tokens
    BY <1>1, <2>1, LiveSlots DEF LedgerTypeOK, Slot
  <2>3. held \subseteq held' /\ held' \subseteq Sessions \X Tokens
    BY <1>1, <2>1, <2>2 DEF Told, ClientsTypeOK
  <2> QED
    BY <1>1, <2>1, <2>3, SavedLiveSlots, FreesStep
<1>6. ASSUME NEW s \in Sessions, Refused(s) PROVE IInv'
  <2>1. /\ slots' = Live /\ alarm' = NextAlarm(slots')
        /\ held' = held /\ UNCHANGED <<working, outlived, charged>>
    BY <1>6 DEF Refused, Refuse, Save
  <2>2. held \subseteq held' /\ held' \subseteq Sessions \X Tokens
    BY <1>1, <2>1 DEF ClientsTypeOK
  <2> QED
    BY <1>1, <2>1, <2>2, SavedLiveSlots, FreesStep
<1>7. ASSUME NEW p \in held, Denied(p) PROVE IInv'
  <2>1. p[1] \in Sessions /\ p[2] \in Tokens
    BY <1>1 DEF ClientsTypeOK
  <2>2. ClaimLate(p[1], p[2]) /\ held' = held /\ UNCHANGED <<working, outlived, charged>>
    BY <1>7 DEF Denied
  <2>3. alarm' = NextAlarm(slots')
    BY <2>2 DEF ClaimLate, Save
  <2>4. OnlyFrees /\ \A x \in Sessions : Stays(x)
    BY <1>1, <2>1, <2>2, ClaimLateSlots
  <2>5. held \subseteq held' /\ held' \subseteq Sessions \X Tokens
    BY <1>1, <2>2 DEF ClientsTypeOK
  <2> QED
    BY <2>2, <2>3, <2>4, <2>5, FreesStep
<1>8. CASE ClientsAlarm
  <2>1. /\ Alarm /\ alarm' = NextAlarm(slots')
        /\ held' = held /\ UNCHANGED <<working, outlived, charged>>
    BY <1>8 DEF ClientsAlarm, Alarm, Save
  <2>2. OnlyFrees /\ \A x \in Sessions : Stays(x)
    BY <1>1, <2>1, AlarmSlots
  <2>3. held \subseteq held' /\ held' \subseteq Sessions \X Tokens
    BY <1>1, <2>1 DEF ClientsTypeOK
  <2> QED
    BY <2>1, <2>2, <2>3, FreesStep
<1> QED
  BY <1>2, <1>3, <1>4, <1>5, <1>6, <1>7, <1>8,
     GrantedStep, ReleasedStep, VanishStep, TickStep
  DEF ClientsNext

(* The invariant holds of every execution.                                  *)
THEOREM IInvHolds == ClientsSpec => []IInv
BY InitIInv, StepIInv, PTL DEF ClientsSpec

-----------------------------------------------------------------------------
(* What follows from it                                                     *)

(* Every state of the ledger and its clients has its type.                  *)
THEOREM TypeCorrect == ClientsSpec => []ClientsTypeOK
<1>1. IInv => ClientsTypeOK
  BY DEF IInv
<1> QED
  BY <1>1, IInvHolds, PTL

(* The alarm is set while a claim is awaited, and not later than the        *)
(* earliest deadline: next_alarm at the end of every request never loses or *)
(* postpones one.                                                           *)
THEOREM AlarmCoversHolds == ClientsSpec => []AlarmCovers
<1>1. IInv => AlarmCovers
  BY DEF IInv
<1> QED
  BY <1>1, IInvHolds, PTL

(* Covered workers are no more than the busy sessions behind them.          *)
LEMMA WorkersAreBusy ==
  ASSUME IInv, NEW C \in SUBSET Covered, NEW B \in SUBSET Busy,
         \A w \in C : w[1] \in B
  PROVE  /\ Cardinality(C) <= Cardinality(B)
         /\ Cardinality(C) \in Nat /\ Cardinality(B) \in Nat
<1> DEFINE F == [w \in C |-> w[1]]
<1>1. LedgerTypeOK /\ working \subseteq Sessions \X Tokens \X (0..Window)
  BY DEF IInv, ClientsTypeOK
<1>2. IsFiniteSet(B)
  BY <1>1, BusyFinite, FS_Subset
<1>3. ASSUME NEW v \in C, NEW w \in C, v[1] = w[1] PROVE v = w
  <2>1. v \in working /\ w \in working
    BY DEF Covered
  <2>2. Supports(v[1], v) /\ Supports(w[1], w)
    BY DEF IInv, WorkersSupported
  <2>3. v[2] = w[2] /\ v[3] = w[3]
    BY <1>3, <2>2 DEF Supports
  <2> QED
    BY <1>1, <1>3, <2>1, <2>3
<1>4. F \in Injection(C, B)
  BY <1>3 DEF Injection, IsInjective
<1> HIDE DEF F
<1>5. IsFiniteSet(C) /\ Cardinality(C) <= Cardinality(B)
  BY <1>2, <1>4, FS_Injection
<1> QED
  BY <1>2, <1>5, FS_CardinalityType

(* Clients at work on reservations of the window, under tokens nobody has   *)
(* released, keep to the limits of the account and of the service, whatever *)
(* was claimed late, released twice or under a replaced token, expired or   *)
(* admitted again in between: of these the ledger loses count of nobody.    *)
THEOREM CoveredWithinLimitsHolds == ClientsSpec => []CoveredWithinLimits
<1>1. ASSUME IInv PROVE CoveredWithinLimits
  <2>1. \A w \in Covered : w[1] \in Busy /\ w[1] \in Sessions
    <3> SUFFICES ASSUME NEW w \in Covered PROVE w[1] \in Busy /\ w[1] \in Sessions
      OBVIOUS
    <3>1. w \in working /\ w[3] < Window
      BY DEF Covered
    <3>2. Supports(w[1], w)
      BY <1>1 DEF IInv, WorkersSupported
    <3>3. w[1] \in DOMAIN slots /\ slots[w[1]].inFlight /\ slots[w[1]].age < Window
      BY <3>1, <3>2 DEF Supports
    <3> QED
      BY <1>1, <3>3, BusySessions DEF IInv, ClientsTypeOK, LedgerTypeOK
  <2>2. Cardinality(Covered) <= GlobalInFlight
    <3>1. /\ Cardinality(Covered) <= Cardinality(Busy)
          /\ Cardinality(Covered) \in Nat /\ Cardinality(Busy) \in Nat
      BY <1>1, <2>1, WorkersAreBusy
    <3> QED
      BY <1>1, <3>1, LimitsAssumption DEF IInv, Capacity
  <2>3. ASSUME NEW w \in Covered
        PROVE  Cardinality({v \in Covered : Uid[v[1]] = Uid[w[1]]}) <= UidInFlight
    <3> DEFINE C == {v \in Covered : Uid[v[1]] = Uid[w[1]]}
               B == SameUid(w[1], Busy)
    <3>1. C \in SUBSET Covered /\ B \in SUBSET Busy /\ \A v \in C : v[1] \in B
      BY <2>1 DEF SameUid
    <3>2. Cardinality(B) <= UidInFlight
      BY <1>1, <2>1 DEF IInv, Capacity
    <3> HIDE DEF C, B
    <3>3. /\ Cardinality(C) <= Cardinality(B)
          /\ Cardinality(C) \in Nat /\ Cardinality(B) \in Nat
      BY <1>1, <3>1, WorkersAreBusy
    <3>4. Cardinality(C) <= UidInFlight
      BY <3>2, <3>3, LimitsAssumption
    <3> QED
      BY <3>4 DEF C
  <2> QED
    BY <2>2, <2>3 DEF CoveredWithinLimits
<1> QED
  BY <1>1, IInvHolds, PTL

(* Of the clients that were told one token, as every duplicate of a session *)
(* is, only one is granted the claim while the others are not at work.      *)
THEOREM GrantedOnceHolds == ClientsSpec => GrantedOnce
<1>1. ASSUME IInv, NEW p \in held, Claim(p[1], p[2]) PROVE Without(p) = working
  <2>1. p = <<p[1], p[2]>>
    BY <1>1 DEF IInv, ClientsTypeOK
  <2>2. p[1] \in DOMAIN slots /\ slots[p[1]].pending /\ slots[p[1]].token = p[2]
    BY <1>1 DEF Claim, Holds
  <2>3. \A w \in working : <<w[1], w[2]>> # p
    BY <1>1, <2>1, <2>2 DEF IInv, PendingIsIdle
  <2> QED
    BY <2>3 DEF Without
<1>2. IInv /\ [ClientsNext]_clientsVars =>
        [\A p \in held : Claim(p[1], p[2]) => Without(p) = working]_clientsVars
  BY <1>1
<1> QED
  BY <1>2, IInvHolds, PTL DEF ClientsSpec, GrantedOnce


-----------------------------------------------------------------------------
(* What was admitted stays charged                                          *)

(* A session admitted afresh within the window still has its reservation,   *)
(* and that is as old as its admission.                                     *)
Remembers ==
  \A s \in Charged : s \in DOMAIN slots /\ slots[s].age = charged[s]

WithinBudgets ==
  /\ Reserved(DOMAIN Live) <= GlobalBudget
  /\ \A s \in Sessions : Reserved(SameUid(s, DOMAIN Live)) <= UidBudget

BudgetInv == IInv /\ Remembers /\ WithinBudgets

(* Whatever else a request does, it neither adds a reservation nor makes    *)
(* one younger or older, and forgets none of the window.                    *)
KeepsAges ==
  /\ \A x \in DOMAIN slots' : x \in DOMAIN slots /\ slots'[x].age = slots[x].age
  /\ DOMAIN Live \subseteq DOMAIN slots'

(* What is reserved adds up, and for fewer sessions to no more.             *)
LEMMA ReservedSums ==
  ASSUME NEW S \in SUBSET Sessions
  PROVE  /\ Reserved(S) \in Nat
         /\ S = {} => Reserved(S) = 0
         /\ \A x \in S : Reserved(S) = Cost[x] + Reserved(S \ {x})
         /\ \A T \in SUBSET S : Reserved(T) <= Reserved(S)
<1>1. IsFiniteSet(S) /\ \A x \in S : Cost[x] \in Nat
  BY SessionsAssumption, LimitsAssumption, FS_Subset
<1>2. \A T : Reserved(T) = Sum(Cost, T)
  BY DEF Reserved, Sum
<1>3. /\ Sum(Cost, S) \in Nat
      /\ S = {} => Sum(Cost, S) = 0
      /\ \A x \in S : Sum(Cost, S) = Cost[x] + Sum(Cost, S \ {x})
  BY <1>1, SumTakesOut
<1>4. ASSUME NEW T \in SUBSET S PROVE Sum(Cost, T) <= Sum(Cost, S)
  <2>1. \A x \in T : Cost[x] \in Nat /\ Cost[x] <= Cost[x]
    BY <1>1
  <2> QED
    BY <1>1, <2>1, SumGrows
<1> QED
  BY <1>2, <1>3, <1>4

(* Forgetting reservations respects the budgets.                            *)
LEMMA ForgettingKeepsBudgets ==
  ASSUME LedgerTypeOK, WithinBudgets, DOMAIN Live' \subseteq DOMAIN Live
  PROVE  WithinBudgets'
<1>1. DOMAIN Live \in SUBSET Sessions
  BY LiveSlots DEF LedgerTypeOK
<1>2. Reserved(DOMAIN Live)' = Reserved(DOMAIN Live')
  BY DEF Reserved, MapThenSumSet, MapThenFoldSet
<1>3. Reserved(DOMAIN Live)' <= GlobalBudget
  <2>1. /\ Reserved(DOMAIN Live') <= Reserved(DOMAIN Live)
        /\ Reserved(DOMAIN Live) \in Nat /\ Reserved(DOMAIN Live') \in Nat
    BY <1>1, ReservedSums
  <2> QED
    BY <1>2, <2>1, LimitsAssumption DEF WithinBudgets
<1>4. ASSUME NEW s \in Sessions PROVE Reserved(SameUid(s, DOMAIN Live))' <= UidBudget
  <2> DEFINE S == SameUid(s, DOMAIN Live)
             T == SameUid(s, DOMAIN Live')
  <2>1. S \in SUBSET Sessions /\ T \in SUBSET S
    BY <1>1 DEF SameUid
  <2>2. Reserved(SameUid(s, DOMAIN Live))' = Reserved(T)
    BY DEF Reserved, MapThenSumSet, MapThenFoldSet, SameUid
  <2>3. Reserved(S) <= UidBudget
    BY DEF WithinBudgets
  <2> HIDE DEF S, T
  <2>4. Reserved(T) <= Reserved(S) /\ Reserved(S) \in Nat /\ Reserved(T) \in Nat
    BY <2>1, ReservedSums
  <2> QED
    BY <2>2, <2>3, <2>4, LimitsAssumption
<1> QED
  BY <1>3, <1>4 DEF WithinBudgets

(* /admit for a session without a reservation charges what it reserves.     *)
LEMMA AdmittingKeepsBudgets ==
  ASSUME LedgerTypeOK, WithinBudgets, NEW s \in Sessions, s \notin DOMAIN Live,
         ~OverBudget(s), DOMAIN Live' \subseteq DOMAIN Live \cup {s}
  PROVE  WithinBudgets'
<1> DEFINE D == DOMAIN Live
           E == DOMAIN Live'
<1>1. D \in SUBSET Sessions /\ E \in SUBSET Sessions /\ E \subseteq D \cup {s}
  BY LiveSlots DEF LedgerTypeOK
<1>2. /\ ~(Reserved(D) + Cost[s] > GlobalBudget)
      /\ ~(Reserved(SameUid(s, D)) + Cost[s] > UidBudget)
  BY DEF OverBudget
<1>3. ASSUME NEW S \in SUBSET Sessions, NEW T \in SUBSET Sessions, s \notin S, T \subseteq S \cup {s}
      PROVE  /\ Reserved(T) <= Reserved(S) + Cost[s]
             /\ Reserved(S) \in Nat /\ Reserved(T) \in Nat /\ Cost[s] \in Nat
  <2>1. Cost[s] \in Nat /\ S \cup {s} \in SUBSET Sessions
    BY LimitsAssumption
  <2>2. Reserved(T) <= Reserved(S \cup {s}) /\ Reserved(T) \in Nat /\ Reserved(S) \in Nat
    BY <1>3, <2>1, ReservedSums
  <2>3. (S \cup {s}) \ {s} = S
    BY <1>3
  <2>4. Reserved(S \cup {s}) = Cost[s] + Reserved(S)
    BY <2>1, <2>3, ReservedSums
  <2> QED
    BY <2>1, <2>2, <2>4
<1>4. Reserved(DOMAIN Live)' <= GlobalBudget
  <2>1. Reserved(DOMAIN Live)' = Reserved(E)
    BY DEF Reserved, MapThenSumSet, MapThenFoldSet
  <2>2. /\ Reserved(E) <= Reserved(D) + Cost[s]
        /\ Reserved(D) \in Nat /\ Reserved(E) \in Nat /\ Cost[s] \in Nat
    BY <1>1, <1>3
  <2> QED
    BY <1>2, <2>1, <2>2, LimitsAssumption
<1>5. ASSUME NEW x \in Sessions PROVE Reserved(SameUid(x, DOMAIN Live))' <= UidBudget
  <2> DEFINE S == SameUid(x, D)
             T == SameUid(x, E)
  <2>1. S \in SUBSET Sessions /\ T \in SUBSET Sessions /\ s \notin S /\ T \subseteq S \cup {s}
    BY <1>1 DEF SameUid
  <2>2. Reserved(SameUid(x, DOMAIN Live))' = Reserved(T)
    BY DEF Reserved, MapThenSumSet, MapThenFoldSet, SameUid
  <2>3. CASE Uid[x] = Uid[s]
    <3>1. S = SameUid(s, D)
      BY <2>3 DEF SameUid
    <3> HIDE DEF S, T, D
    <3>2. /\ Reserved(T) <= Reserved(S) + Cost[s]
          /\ Reserved(S) \in Nat /\ Reserved(T) \in Nat /\ Cost[s] \in Nat
      BY <1>3, <2>1
    <3> QED
      BY <1>2, <2>2, <3>1, <3>2, LimitsAssumption
  <2>4. CASE Uid[x] # Uid[s]
    <3>1. T \in SUBSET S /\ Reserved(S) <= UidBudget
      BY <1>1, <2>4 DEF SameUid, WithinBudgets
    <3> HIDE DEF S, T
    <3>2. Reserved(T) <= Reserved(S) /\ Reserved(S) \in Nat /\ Reserved(T) \in Nat
      BY <2>1, <3>1, ReservedSums
    <3> QED
      BY <2>2, <3>1, <3>2, LimitsAssumption
  <2> QED
    BY <2>3, <2>4
<1> QED
  BY <1>4, <1>5 DEF WithinBudgets

(* A request that only frees, forgets and hands out.                        *)
LEMMA KeepingStep ==
  ASSUME BudgetInv, IInv', KeepsAges, UNCHANGED charged
  PROVE  BudgetInv'
<1>1. LedgerTypeOK /\ AgesInWindow /\ WithinBudgets /\ Remembers
  BY DEF BudgetInv, IInv, ClientsTypeOK
<1>2. DOMAIN Live' \subseteq DOMAIN Live
  <2>1. DOMAIN Live' = {x \in DOMAIN slots' : slots'[x].age < Window}
    BY DEF Live, Restrict
  <2> QED
    BY <2>1, LiveSlots DEF KeepsAges
<1>3. Remembers'
  BY <1>1, LiveSlots DEF Remembers, Charged, KeepsAges
<1> QED
  BY <1>1, <1>2, <1>3, ForgettingKeepsBudgets DEF BudgetInv

(* Which requests those are.                                                *)
LEMMA QuietKeepsAges ==
  ASSUME LedgerTypeOK, slots' = Live \/ Alarm \/ UNCHANGED slots
  PROVE  KeepsAges
<1>1. /\ DOMAIN Live \subseteq DOMAIN slots
      /\ \A x \in DOMAIN slots : Freed(slots[x]).age = slots[x].age
  BY LiveSlots, FreedSlot DEF LedgerTypeOK
<1>2. CASE slots' = Live
  BY <1>2, LiveSlots DEF KeepsAges
<1>3. CASE Alarm
  <2>1. slots' = [x \in DOMAIN slots |->
                    IF Expired(slots[x]) THEN Freed(slots[x]) ELSE slots[x]]
    BY <1>3 DEF Alarm, Save
  <2> QED
    BY <1>1, <2>1 DEF KeepsAges
<1>4. CASE UNCHANGED slots
  BY <1>1, <1>4 DEF KeepsAges
<1> QED
  BY <1>2, <1>3, <1>4

LEMMA RequestsKeepAges ==
  ASSUME LedgerTypeOK, NEW s \in Sessions, NEW t \in Tokens,
         Reacquire(s, t) \/ Claim(s, t) \/ ClaimLate(s, t) \/ Release(s, t)
  PROVE  KeepsAges
<1>1. /\ DOMAIN Live \subseteq DOMAIN slots
      /\ \A x \in DOMAIN slots : slots[x] \in Slot /\ slots[x].age \in Nat
      /\ \A x \in DOMAIN slots : Freed(slots[x]).age = slots[x].age
  BY LiveSlots, FreedSlot DEF LedgerTypeOK, Slot
<1>2. CASE Reacquire(s, t)
  <2>1. /\ s \in DOMAIN Live
        /\ slots' = [Live EXCEPT ![s] = Acquired(Live[s].age, t)]
    BY <1>2 DEF Reacquire, Save
  <2>2. Acquired(Live[s].age, t).age = slots[s].age
    BY <1>1, <2>1, LiveSlots, AcquiredSlot
  <2> QED
    BY <2>1, <2>2, LiveSlots DEF KeepsAges
<1>3. CASE Claim(s, t)
  <2>1. slots' = [slots EXCEPT ![s] = [@ EXCEPT !.pending = FALSE, !.left = 0]]
    BY <1>3 DEF Claim, Save
  <2>2. s \in DOMAIN slots =>
          [slots[s] EXCEPT !.pending = FALSE, !.left = 0].age = slots[s].age
    BY <1>1 DEF Slot
  <2> QED
    BY <1>1, <2>1, <2>2 DEF KeepsAges
<1>4. CASE ClaimLate(s, t) \/ Release(s, t)
  <2>1. slots' = slots \/ slots' = [slots EXCEPT ![s] = Freed(@)]
    BY <1>4 DEF ClaimLate, Release, Save
  <2> QED
    BY <1>1, <2>1 DEF KeepsAges
<1> QED
  BY <1>2, <1>3, <1>4

LEMMA BudgetStep == BudgetInv /\ [ClientsNext]_clientsVars => BudgetInv'
<1> SUFFICES ASSUME BudgetInv, [ClientsNext]_clientsVars PROVE BudgetInv'
  OBVIOUS
<1>1. /\ IInv /\ IInv' /\ LedgerTypeOK /\ AgesInWindow /\ WithinBudgets /\ Remembers
      /\ held \subseteq Sessions \X Tokens /\ charged \in [Sessions -> 0..Window]
  BY StepIInv DEF BudgetInv, IInv, ClientsTypeOK
<1>2. CASE UNCHANGED clientsVars
  BY <1>1, <1>2, QuietKeepsAges, KeepingStep DEF clientsVars
<1>3. ASSUME NEW s \in Sessions, Admitted(s) PROVE BudgetInv'
  <2>1. PICK t \in Unheld : AdmitFresh(s, t) /\ charged' = [charged EXCEPT ![s] = 0]
    BY <1>3 DEF Admitted
  <2>2. /\ s \notin DOMAIN Live /\ ~OverBudget(s) /\ t \in Tokens
        /\ slots' = [x \in DOMAIN Live \cup {s} |->
                      IF x = s THEN Acquired(0, t) ELSE Live[x]]
    BY <2>1 DEF AdmitFresh, Save, Unheld
  <2>3. /\ DOMAIN slots' = DOMAIN Live \cup {s} /\ slots'[s].age = 0
        /\ \A x \in DOMAIN Live : slots'[x].age = slots[x].age
    BY <2>2, LiveSlots, AcquiredSlot
  <2>4. DOMAIN Live' \subseteq DOMAIN Live \cup {s}
    BY <2>3 DEF Live, Restrict
  <2>5. WithinBudgets'
    BY <1>1, <2>2, <2>4, AdmittingKeepsBudgets
  <2>6. Remembers'
    BY <1>1, <2>1, <2>3, LiveSlots DEF Remembers, Charged
  <2> QED
    BY <1>1, <2>5, <2>6 DEF BudgetInv
<1>4. ASSUME NEW s \in Sessions, Reacquired(s) \/ Duplicated(s) \/ Refused(s)
      PROVE  BudgetInv'
  <2>1. \/ \E t \in Tokens : Reacquire(s, t)
        \/ slots' = Live
    BY <1>4 DEF Reacquired, Unheld, Duplicated, AdmitDuplicate, Refused, Refuse, Save
  <2>2. UNCHANGED charged
    BY <1>4 DEF Reacquired, Duplicated, Refused
  <2> QED
    BY <1>1, <2>1, <2>2, QuietKeepsAges, RequestsKeepAges, KeepingStep
<1>5. ASSUME NEW p \in held, Granted(p) \/ Denied(p) \/ Released(p) \/ Vanish(p)
      PROVE  BudgetInv'
  <2>1. p[1] \in Sessions /\ p[2] \in Tokens
    BY <1>1
  <2>2. /\ UNCHANGED charged
        /\ \/ Claim(p[1], p[2]) \/ ClaimLate(p[1], p[2]) \/ Release(p[1], p[2])
           \/ UNCHANGED slots
    BY <1>5 DEF Granted, Denied, Released, Vanish
  <2> QED
    BY <1>1, <2>1, <2>2, QuietKeepsAges, RequestsKeepAges, KeepingStep
<1>6. CASE ClientsAlarm
  BY <1>1, <1>6, QuietKeepsAges, KeepingStep DEF ClientsAlarm
<1>7. CASE ClientsTick
  <2>1. /\ DOMAIN slots' = DOMAIN slots
        /\ \A x \in DOMAIN slots :
             slots'[x] = [slots[x] EXCEPT !.age = Min({@ + 1, Window}), !.left = Sooner(@)]
        /\ charged' = [s \in Sessions |-> Min({charged[s] + 1, Window})]
    BY <1>7 DEF ClientsTick, Pass
  <2>2. \A x \in DOMAIN slots : /\ slots[x].age \in Nat
                                /\ slots'[x].age = Min({slots[x].age + 1, Window})
    BY <1>1, <2>1 DEF LedgerTypeOK, Slot
  <2>3. \A n \in Nat : Min({n + 1, Window}) < Window => n < Window
    <3> SUFFICES ASSUME NEW n \in Nat, Min({n + 1, Window}) < Window PROVE n < Window
      OBVIOUS
    <3>1. Min({n + 1, Window}) = n + 1 /\ Window \in Nat
      BY MinWindow, LimitsAssumption
    <3> QED
      BY <3>1
  <2>4. DOMAIN Live' \subseteq DOMAIN Live
    <3>1. DOMAIN Live' = {x \in DOMAIN slots' : slots'[x].age < Window}
      BY DEF Live, Restrict
    <3> QED
      BY <2>1, <2>2, <2>3, <3>1, LiveSlots
  <2>5. Remembers'
    <3> SUFFICES ASSUME NEW s \in Charged'
                 PROVE  s \in DOMAIN slots' /\ slots'[s].age = charged'[s]
      BY DEF Remembers
    <3>1. /\ s \in Sessions /\ charged[s] \in Nat
          /\ charged'[s] = Min({charged[s] + 1, Window}) /\ charged'[s] < Window
      <4>1. s \in Sessions /\ charged'[s] < Window
        BY DEF Charged
      <4>2. charged[s] \in 0..Window /\ Window \in Nat
        BY <1>1, <4>1, LimitsAssumption
      <4>3. charged' = [x \in Sessions |-> Min({charged[x] + 1, Window})]
        BY <2>1
      <4>4. charged'[s] = Min({charged[s] + 1, Window})
        BY <4>1, <4>3, Zenon
      <4>5. charged[s] \in Nat
        BY <4>2
      <4> QED
        BY <4>1, <4>4, <4>5
    <3>2. s \in Charged
      BY <2>3, <3>1 DEF Charged
    <3> QED
      BY <1>1, <2>1, <2>2, <3>1, <3>2 DEF Remembers
  <2> QED
    BY <1>1, <2>4, <2>5, ForgettingKeepsBudgets DEF BudgetInv
<1> QED
  BY <1>2, <1>3, <1>4, <1>5, <1>6, <1>7 DEF ClientsNext

LEMMA BudgetInit == ClientsInit => BudgetInv
<1> SUFFICES ASSUME ClientsInit PROVE BudgetInv
  OBVIOUS
<1>1. DOMAIN slots = {} /\ charged = [s \in Sessions |-> Window]
  BY DEF ClientsInit, LedgerInit
<1>2. DOMAIN Live = {} /\ \A s : SameUid(s, DOMAIN Live) = {}
  BY <1>1, LiveSlots DEF SameUid
<1>3. Reserved({}) = 0
  BY ReservedSums
<1>4. WithinBudgets
  BY <1>2, <1>3, LimitsAssumption DEF WithinBudgets
<1>5. Remembers
  BY <1>1, LimitsAssumption DEF Remembers, Charged
<1> QED
  BY <1>4, <1>5, InitIInv DEF BudgetInv

(* Releasing, expiring or losing a slot gives no budget back: what sessions *)
(* were admitted for within a window stays within the budget of their       *)
(* account and of the service.                                              *)
THEOREM BudgetRememberedHolds == ClientsSpec => []BudgetRemembered
<1>1. ASSUME BudgetInv PROVE BudgetRemembered
  <2>1. LedgerTypeOK /\ charged \in [Sessions -> 0..Window]
    BY <1>1 DEF BudgetInv, IInv, ClientsTypeOK
  <2>2. DOMAIN Live \in SUBSET Sessions /\ Charged \in SUBSET DOMAIN Live
    BY <1>1, <2>1, LiveSlots DEF BudgetInv, Remembers, Charged, LedgerTypeOK
  <2>3. Reserved(Charged) <= GlobalBudget
    <3>1. /\ Reserved(Charged) <= Reserved(DOMAIN Live)
          /\ Reserved(DOMAIN Live) \in Nat /\ Reserved(Charged) \in Nat
      BY <2>2, ReservedSums
    <3> QED
      BY <1>1, <3>1, LimitsAssumption DEF BudgetInv, WithinBudgets
  <2>4. ASSUME NEW s \in Charged PROVE Reserved(SameUid(s, Charged)) <= UidBudget
    <3>1. /\ SameUid(s, Charged) \in SUBSET SameUid(s, DOMAIN Live)
          /\ SameUid(s, DOMAIN Live) \in SUBSET Sessions /\ s \in Sessions
      BY <2>2 DEF SameUid
    <3>2. /\ Reserved(SameUid(s, Charged)) <= Reserved(SameUid(s, DOMAIN Live))
          /\ Reserved(SameUid(s, DOMAIN Live)) \in Nat
          /\ Reserved(SameUid(s, Charged)) \in Nat
      BY <3>1, ReservedSums
    <3>3. Reserved(SameUid(s, DOMAIN Live)) <= UidBudget
      BY <1>1, <3>1 DEF BudgetInv, WithinBudgets
    <3> QED
      BY <3>2, <3>3, LimitsAssumption
  <2> QED
    BY <2>3, <2>4 DEF BudgetRemembered
<1> QED
  BY <1>1, BudgetInit, BudgetStep, PTL DEF ClientsSpec

-----------------------------------------------------------------------------
(* Types of the ledger                                                      *)

WellFormed(table) == DOMAIN table \subseteq Sessions /\ \A s \in DOMAIN table : table[s] \in Slot

LEMMA Saved ==
  ASSUME NEW table, WellFormed(table), Save(table)
  PROVE  LedgerTypeOK'
BY DEF WellFormed, Save, NextAlarm, Deadlines, Slot, LedgerTypeOK

LEMMA FreedIsSlot ==
  ASSUME NEW slot \in Slot
  PROVE  Freed(slot) \in Slot
BY DEF Freed, Slot

LEMMA LiveIsWellFormed ==
  ASSUME LedgerTypeOK
  PROVE  WellFormed(Live) /\ DOMAIN Live \subseteq DOMAIN slots
BY DEF LedgerTypeOK, Live, Restrict, WellFormed

LEMMA AdmitsTypes ==
  ASSUME LedgerTypeOK, NEW s \in Sessions,
         \/ \E t \in Tokens : AdmitFresh(s, t) \/ Reacquire(s, t)
         \/ AdmitDuplicate(s) \/ Refuse(s)
  PROVE  LedgerTypeOK'
<1>a. \A n \in Nat, t \in Tokens : Acquired(n, t) \in Slot
  BY LimitsAssumption DEF Acquired, Slot
<1>1. ASSUME NEW t \in Tokens, AdmitFresh(s, t)
      PROVE  LedgerTypeOK'
  <2> DEFINE table == [x \in DOMAIN Live \cup {s} |-> IF x = s THEN Acquired(0, t) ELSE Live[x]]
  <2>1. WellFormed(table)
    BY <1>a, LiveIsWellFormed DEF WellFormed
  <2> QED
    BY <1>1, <2>1, Saved DEF AdmitFresh
<1>2. ASSUME NEW t \in Tokens, Reacquire(s, t)
      PROVE  LedgerTypeOK'
  <2>1. s \in DOMAIN Live /\ Live[s].age \in Nat
    BY <1>2, LiveIsWellFormed DEF Reacquire, WellFormed, Slot
  <2>2. WellFormed([Live EXCEPT ![s] = Acquired(@.age, t)])
    BY <1>a, <2>1, LiveIsWellFormed DEF WellFormed
  <2> QED
    BY <1>2, <2>2, Saved DEF Reacquire
<1>3. CASE AdmitDuplicate(s) \/ Refuse(s)
  BY <1>3, LiveIsWellFormed, Saved DEF AdmitDuplicate, Refuse
<1> QED
  BY <1>1, <1>2, <1>3

LEMMA ClaimsTypes ==
  ASSUME LedgerTypeOK, NEW s, NEW t, Claim(s, t) \/ ClaimLate(s, t) \/ Release(s, t)
  PROVE  LedgerTypeOK'
<1>0. WellFormed(slots)
  BY DEF LedgerTypeOK, WellFormed
<1>1. CASE Claim(s, t)
  <2>1. WellFormed([slots EXCEPT ![s].pending = FALSE, ![s].left = 0])
    BY <1>0 DEF WellFormed, Slot
  <2> QED
    BY <1>1, <2>1, Saved DEF Claim
<1>2. CASE ClaimLate(s, t) \/ Release(s, t)
  <2>1. WellFormed([slots EXCEPT ![s] = Freed(@)])
    BY <1>0, FreedIsSlot DEF WellFormed
  <2> QED
    BY <1>0, <1>2, <2>1, Saved DEF ClaimLate, Release
<1> QED
  BY <1>1, <1>2

LEMMA AgesTypes ==
  ASSUME LedgerTypeOK, Alarm \/ Pass
  PROVE  LedgerTypeOK'
<1>1. CASE Alarm
  <2>1. WellFormed([s \in DOMAIN slots |->
                      IF Expired(slots[s]) THEN Freed(slots[s]) ELSE slots[s]])
    BY FreedIsSlot DEF LedgerTypeOK, WellFormed
  <2> QED
    BY <1>1, <2>1, Saved DEF Alarm
<1>2. CASE Pass
  <2>1. \A n \in Nat : Sooner(n) \in Nat /\ Min({n + 1, Window}) \in Nat
    <3>0. Window \in Nat
      BY LimitsAssumption
    <3>1. ASSUME NEW n \in Nat
          PROVE  Min({n, Window}) \in Nat
      <4>1. CASE n <= Window
        BY <3>0, <4>1 DEF Min
      <4>2. CASE n > Window
        BY <3>0, <4>2 DEF Min
      <4> QED
        BY <3>0, <4>1, <4>2
    <3>2. \A n \in Nat : n + 1 \in Nat
      OBVIOUS
    <3> QED
      BY <3>1, <3>2 DEF Sooner
  <2>2. ASSUME NEW s \in DOMAIN slots
        PROVE  slots'[s] \in Slot
    <3>1. /\ slots[s] \in Slot
          /\ slots'[s] = [slots[s] EXCEPT !.age = Min({@ + 1, Window}), !.left = Sooner(@)]
      BY <1>2 DEF Pass, LedgerTypeOK
    <3>2. slots[s].age \in Nat /\ slots[s].left \in Nat
      BY <3>1 DEF Slot
    <3>3. Min({slots[s].age + 1, Window}) \in Nat /\ Sooner(slots[s].left) \in Nat
      BY <2>1, <3>2
    <3> QED
      BY <3>1, <3>3 DEF Slot
  <2> QED
    BY <1>2, <2>1, <2>2 DEF Pass, LedgerTypeOK
<1> QED
  BY <1>1, <1>2

-----------------------------------------------------------------------------
(* Types of rows and attempts                                               *)

Named == \A a \in Attempts : at[a].pc # "idle" => at[a].id \in Sessions

Types == TypeOK /\ Named

LEMMA IdleIsAttempt == Idle \in Attempt
BY SpeechAssumption DEF Idle, Attempt

LEMMA LeavingIsAttempt ==
  ASSUME at \in [Attempts -> Attempt], NEW a \in Attempts
  PROVE  /\ Leaving(a) \in Attempt /\ Leaving(a).pc = "leaving"
         /\ Leaving(a).id = at[a].id
<1>1. at[a].id \in Sessions \cup {Nothing} /\ at[a].token \in Tokens \cup {Nothing}
  BY DEF Attempt
<1> QED
  BY <1>1, IdleIsAttempt DEF Leaving, Attempt

LEMMA OlderIsBounded ==
  ASSUME NEW n \in 0..StaleWindow
  PROVE  Older(n) \in 0..StaleWindow
BY SpeechAssumption DEF Older

LEMMA LedgerTypes ==
  ASSUME Types, Step
  PROVE  LedgerTypeOK'
<1>0. LedgerTypeOK /\ \A a \in Attempts : at[a].pc # "idle" => at[a].id \in Sessions
  BY DEF Types, TypeOK, Named
<1>u. Unused \subseteq Tokens
  BY DEF Unused
<1>1. CASE UNCHANGED ledger
  BY <1>0, <1>1 DEF ledger, LedgerTypeOK
<1>2. ASSUME NEW a \in Attempts, Owns(a) \/ Shares(a) \/ NoCapacity(a)
      PROVE  LedgerTypeOK'
  <2>1. at[a].id \in Sessions
    BY <1>0, <1>2 DEF Owns, Shares, NoCapacity
  <2> QED
    BY <1>0, <1>u, <1>2, <2>1, AdmitsTypes DEF Owns, Shares, NoCapacity
<1>3. ASSUME NEW a \in Attempts, Releases(a) \/ Claims(a) \/ ClaimLost(a) \/ Leaves(a)
      PROVE  LedgerTypeOK'
  BY <1>0, <1>1, <1>3, ClaimsTypes DEF Releases, Claims, ClaimLost, Leaves
<1>4. CASE AlarmFires \/ Tick
  BY <1>0, <1>4, AgesTypes DEF AlarmFires, Tick
<1>5. ASSUME NEW a \in Attempts, Works(a)
      PROVE  LedgerTypeOK'
  BY <1>1, <1>2, <1>3, <1>5
  DEF Works, Writes, Overtaken, WriteFails, Answers, Settles, SettleFails, Dies
<1> QED
  BY <1>1, <1>4, <1>5 DEF Step, Arrives

LEMMA MovedIsAttempt ==
  ASSUME at \in [Attempts -> Attempt], NEW a \in Attempts, NEW b \in Attempts
  PROVE  Moved(a, b) \in Attempt
BY DEF Moved, Attempt

LEMMA AttemptTypes ==
  ASSUME Types, Step
  PROVE  at' \in [Attempts -> Attempt]
<1>0. at \in [Attempts -> Attempt] /\ LedgerTypeOK
  BY DEF Types, TypeOK
<1>a. ASSUME NEW a \in Attempts, Ends(a)
      PROVE  at' \in [Attempts -> Attempt]
  BY <1>0, <1>a, IdleIsAttempt DEF Ends
<1>b. ASSUME NEW a \in Attempts, GivesUp(a) \/ Goes(a, "calling")
      PROVE  at' \in [Attempts -> Attempt]
  BY <1>0, <1>b, LeavingIsAttempt DEF GivesUp, Goes, Attempt
<1>1. ASSUME NEW a \in Attempts, NEW k \in Sessions, NEW h \in Audio, Arrives(a, k, h)
      PROVE  at' \in [Attempts -> Attempt]
  <2>1. [Idle EXCEPT !.pc = "admitting", !.id = k, !.hash = h, !.same = TRUE,
                     !.reclaims = rows[k].status = "started"] \in Attempt
    <3>1. 0 \in 0..StaleWindow
      BY SpeechAssumption
    <3>2. (rows[k].status = "started") \in BOOLEAN
      OBVIOUS
    <3> QED
      BY <3>1, <3>2 DEF Idle, Attempt
  <2> QED
    BY <1>0, <1>1, <2>1 DEF Arrives
<1>2. ASSUME NEW a \in Attempts, Owns(a)
      PROVE  at' \in [Attempts -> Attempt]
  <2>1. PICK t \in Tokens :
          \/ at' = [at EXCEPT ![a].pc = "writing", ![a].token = t]
          \/ Ends(a)
    BY <1>2 DEF Owns, Unused
  <2>2. [at[a] EXCEPT !.pc = "writing", !.token = t] \in Attempt
    BY <1>0 DEF Attempt
  <2>3. CASE at' = [at EXCEPT ![a].pc = "writing", ![a].token = t]
    <3>1. at' = [at EXCEPT ![a] = [at[a] EXCEPT !.pc = "writing", !.token = t]]
      BY <1>0, <2>3
    <3> QED
      BY <1>0, <2>2, <3>1
  <2> QED
    BY <1>a, <2>1, <2>3
<1>3. ASSUME NEW a \in Attempts, Shares(a)
      PROVE  at' \in [Attempts -> Attempt]
  <2>1. at[a].id \in DOMAIN slots /\ slots[at[a].id].token \in Tokens
    BY <1>0, <1>3, LiveIsWellFormed
    DEF Shares, AdmitDuplicate, InFlight, LedgerTypeOK, Slot
  <2> QED
    BY <1>0, <1>a, <1>3, <2>1 DEF Shares, Attempt
<1>4. ASSUME NEW a \in Attempts, Releases(a) \/ Answers(a)
      PROVE  at' \in [Attempts -> Attempt]
  BY <1>0, <1>4 DEF Releases, Answers, Attempt
<1>5. ASSUME NEW a \in Attempts, Writes(a) \/ WriteFails(a) \/ Settles(a)
      PROVE  at' \in [Attempts -> Attempt]
  <2>1. [at[a] EXCEPT !.pc = "claiming", !.hash = Nothing,
                      !.reclaims = FALSE, !.same = FALSE] \in Attempt
    BY <1>0 DEF Attempt
  <2> QED
    BY <1>0, <1>a, <1>5, <2>1, IdleIsAttempt, LeavingIsAttempt, MovedIsAttempt
    DEF Writes, WriteFails, Settles
<1>6. ASSUME NEW a \in Attempts, Works(a)
      PROVE  at' \in [Attempts -> Attempt]
  BY <1>a, <1>b, <1>2, <1>3, <1>4, <1>5, <1>6
  DEF Works, NoCapacity, Overtaken, Claims, ClaimLost, SettleFails, Leaves, Dies
<1>7. CASE Tick
  <2>1. 0 \in 0..StaleWindow
    BY SpeechAssumption
  <2>2. \A a \in Attempts : Older(at[a].life) \in 0..StaleWindow
    BY <1>0, OlderIsBounded DEF Attempt
  <2>3. \A a \in Attempts :
          (IF at[a].pc \in {"idle", "leaving"} THEN 0 ELSE Older(at[a].life)) \in 0..StaleWindow
    BY <2>1, <2>2
  <2> QED
    BY <1>0, <1>7, <2>3 DEF Tick, Attempt
<1> QED
  BY <1>0, <1>1, <1>6, <1>7 DEF Step, AlarmFires

LEMMA RowTypes ==
  ASSUME Types, Step
  PROVE  rows' \in [Sessions -> Row]
<1>0. rows \in [Sessions -> Row] /\ at \in [Attempts -> Attempt]
  BY DEF Types, TypeOK
<1>z. 0 \in 0..StaleWindow
  BY SpeechAssumption
<1>1. ASSUME NEW a \in Attempts, Start(a)
      PROVE  rows' \in [Sessions -> Row]
  <2>1. at[a].hash \in Audio \cup {Nothing} /\ at[a].life \in 0..StaleWindow
    BY <1>0 DEF Attempt
  <2>2. CASE at[a].id \in Sessions
    <3>1. [status |-> "started", age |-> at[a].life,
           hash |-> IF rows[at[a].id].status = "none" THEN at[a].hash ELSE rows[at[a].id].hash]
            \in Row
      BY <1>0, <2>1, <2>2 DEF Row
    <3> QED
      BY <1>0, <1>1, <2>2, <3>1 DEF Start
  <2>3. CASE at[a].id \notin Sessions
    BY <1>0, <1>1, <2>3 DEF Start
  <2> QED
    BY <2>2, <2>3
<1>2. ASSUME NEW a \in Attempts, Settles(a)
      PROVE  rows' \in [Sessions -> Row]
  BY <1>0, <1>z, <1>2 DEF Settles, Row
<1>3. CASE Tick
  <2>1. \A k \in Sessions : Older(rows[k].age) \in 0..StaleWindow
    BY <1>0, OlderIsBounded DEF Row
  <2> QED
    BY <1>0, <1>3, <2>1 DEF Tick, Row
<1>4. ASSUME NEW a \in Attempts, Works(a)
      PROVE  rows' \in [Sessions -> Row]
  BY <1>0, <1>1, <1>2, <1>4
  DEF Works, Owns, Shares, NoCapacity, Releases, Writes, Overtaken, WriteFails, Claims,
      ClaimLost, Answers, SettleFails, Leaves, Dies
<1> QED
  BY <1>0, <1>3, <1>4 DEF Step, Arrives, AlarmFires

LEMMA NamesStay ==
  ASSUME Types, Step
  PROVE  Named'
<1>0. /\ at \in [Attempts -> Attempt]
      /\ \A a \in Attempts : at[a].pc # "idle" => at[a].id \in Sessions
  BY DEF Types, TypeOK, Named
<1>a. ASSUME NEW a \in Attempts, Ends(a)
      PROVE  Named'
  BY <1>0, <1>a DEF Ends, Idle, Named
<1>b. ASSUME NEW a \in Attempts, GivesUp(a) \/ Goes(a, "calling"), at[a].pc # "idle"
      PROVE  Named'
  BY <1>0, <1>b, LeavingIsAttempt DEF GivesUp, Goes, Named, Attempt
<1>1. ASSUME NEW a \in Attempts, NEW k \in Sessions, NEW h \in Audio, Arrives(a, k, h)
      PROVE  Named'
  BY <1>0, <1>1 DEF Arrives, Idle, Named
<1>2. ASSUME NEW a \in Attempts, Owns(a) \/ Shares(a)
      PROVE  Named'
  <2>1. CASE Owns(a)
    <3>1. PICK t \in Tokens :
            \/ at' = [at EXCEPT ![a].pc = "writing", ![a].token = t]
            \/ Ends(a)
      BY <2>1 DEF Owns, Unused
    <3> QED
      BY <1>0, <1>a, <2>1, <3>1 DEF Owns, Named, Attempt
  <2>2. CASE Shares(a)
    BY <1>0, <1>a, <2>2 DEF Shares, Named, Attempt
  <2> QED
    BY <1>2, <2>1, <2>2
<1>3. ASSUME NEW a \in Attempts, Releases(a) \/ Answers(a)
      PROVE  Named'
  BY <1>0, <1>3 DEF Releases, Answers, Named, Attempt
<1>4. ASSUME NEW a \in Attempts, Writes(a) \/ WriteFails(a) \/ Settles(a)
      PROVE  Named'
  <2>1. ASSUME NEW x, at' = [b \in Attempts |-> IF b = a THEN x ELSE Moved(a, b)],
               at[a].pc # "idle", x.pc = "idle" \/ x.id = at[a].id
        PROVE  Named'
    BY <1>0, <2>1 DEF Moved, Named, Attempt
  <2>2. Idle.pc = "idle"
    BY DEF Idle
  <2>3. CASE Writes(a)
    <3> DEFINE x == [at[a] EXCEPT !.pc = "claiming", !.hash = Nothing,
                                  !.reclaims = FALSE, !.same = FALSE]
    <3>1. x.id = at[a].id
      BY <1>0 DEF Attempt
    <3>2. at' = [b \in Attempts |-> IF b = a THEN x ELSE Moved(a, b)] /\ at[a].pc # "idle"
      BY <2>3 DEF Writes
    <3> HIDE DEF x
    <3> QED
      BY <2>1, <3>1, <3>2
  <2>4. CASE WriteFails(a)
    BY <1>a, <2>1, <2>2, <2>4 DEF WriteFails
  <2>5. CASE Settles(a)
    BY <1>0, <2>1, <2>5, LeavingIsAttempt DEF Settles
  <2> QED
    BY <1>4, <2>3, <2>4, <2>5
<1>5. ASSUME NEW a \in Attempts, Works(a)
      PROVE  Named'
  BY <1>a, <1>b, <1>2, <1>3, <1>4, <1>5
  DEF Works, NoCapacity, Overtaken, Claims, ClaimLost, SettleFails, Leaves, Dies
<1>6. CASE Tick
  BY <1>0, <1>6 DEF Tick, Named, Attempt
<1> QED
  BY <1>0, <1>1, <1>5, <1>6 DEF Step, AlarmFires, Named

LEMMA TypesInvariant == Spec => []Types
<1>1. Init => Types
  <2>1. NoRow \in Row
    BY SpeechAssumption DEF NoRow, Row
  <2> QED
    BY <2>1, IdleIsAttempt
    DEF Init, LedgerInit, Types, TypeOK, LedgerTypeOK, Named, Idle
<1>2. Types /\ [Next]_vars => Types'
  <2> SUFFICES ASSUME Types, [Next]_vars PROVE Types'
    OBVIOUS
  <2>1. CASE Next
    <3>1. LedgerTypeOK' /\ at' \in [Attempts -> Attempt] /\ rows' \in [Sessions -> Row] /\ Named'
      BY <2>1, LedgerTypes, AttemptTypes, RowTypes, NamesStay DEF Next
    <3>2. Overdue' \subseteq Sessions
      BY <3>1 DEF Overdue, Runs, Named
    <3> QED
      BY <2>1, <3>1, <3>2 DEF Next, Types, TypeOK
  <2>2. CASE UNCHANGED vars
    BY <2>2 DEF vars, Types, TypeOK, LedgerTypeOK, Named
  <2> QED
    BY <2>1, <2>2
<1> QED
  BY <1>1, <1>2, PTL DEF Spec

(* Ledger, rows and attempts keep their types, whoever dies at what step.   *)
THEOREM RequestTypes == Spec => []TypeOK
<1>1. Types => TypeOK
  BY DEF Types
<1> QED
  BY <1>1, TypesInvariant, PTL

-----------------------------------------------------------------------------
(* One at a time                                                            *)

(* An attempt that has not written its row yet.                             *)
Prepares(a) == at[a].pc \in {"admitting", "releasing", "readmitting", "writing"}

(* Attempts at ids that are not late are over before the window is ...      *)
InTime == \A a \in Attempts : Runs(a) /\ at[a].id \notin late => at[a].life < StaleWindow

(* ... the row of one that runs is as old as the attempt ...                *)
RunsItsRow ==
  \A a \in Attempts : Runs(a) /\ at[a].id \notin late =>
    rows[at[a].id].status = "started" /\ rows[at[a].id].age = at[a].life

(* ... the row one may still reclaim is as old as the window ...            *)
ReclaimsStale ==
  \A a \in Attempts : Prepares(a) /\ at[a].reclaims /\ at[a].same =>
    rows[at[a].id].status = "started" /\ rows[at[a].id].age = StaleWindow

(* ... and so only one of them runs.                                        *)
RunsAlone ==
  \A a, b \in Attempts :
    Runs(a) /\ Runs(b) /\ at[a].id = at[b].id /\ at[a].id \notin late => a = b

AloneInv == Types /\ InTime /\ RunsItsRow /\ ReclaimsStale /\ RunsAlone

(* Whoever still runs as its row turns stale is noted.                      *)
LEMMA LateIsNoted ==
  ASSUME Types, Next, Types'
  PROVE  InTime' /\ late \subseteq late' /\ late' \subseteq Sessions
<1>1. late' = late \cup Overdue' /\ late' \subseteq Sessions
  BY DEF Next, Types, TypeOK
<1>2. ASSUME NEW a \in Attempts, Runs(a)', at'[a].id \notin late'
      PROVE  at'[a].life < StaleWindow
  <2>1. at'[a].life \in 0..StaleWindow /\ StaleWindow \in Nat
    BY SpeechAssumption DEF Types, TypeOK, Attempt
  <2>2. at'[a].life # StaleWindow
    BY <1>1, <1>2 DEF Overdue
  <2> QED
    BY <2>1, <2>2
<1> QED
  BY <1>1, <1>2 DEF InTime

(* A step of one attempt that leaves the rows alone and does not begin to   *)
(* run.                                                                     *)
Quiet(a) ==
  /\ rows' = rows
  /\ \A b \in Attempts \ {a} : at'[b] = at[b]
  /\ \/ ~Runs(a)' /\ ~Prepares(a)'
     \/ /\ at[a].pc # "idle"
        /\ at'[a].id = at[a].id /\ at'[a].life = at[a].life
        /\ at'[a].reclaims = at[a].reclaims /\ at'[a].same = at[a].same
        /\ Runs(a)' => Runs(a)
        /\ Prepares(a)' => Prepares(a)

LEMMA QuietKeeps ==
  ASSUME AloneInv, NEW a \in Attempts, Quiet(a), Types', InTime', late \subseteq late'
  PROVE  AloneInv'
<1>1. ASSUME NEW b \in Attempts
      PROVE  \/ ~Runs(b)' /\ ~Prepares(b)'
             \/ /\ at'[b].id = at[b].id /\ at'[b].life = at[b].life
                /\ at'[b].reclaims = at[b].reclaims /\ at'[b].same = at[b].same
                /\ Runs(b)' => Runs(b)
                /\ Prepares(b)' => Prepares(b)
  <2>1. CASE b = a
    BY <2>1 DEF Quiet
  <2>2. CASE b # a
    BY <2>2 DEF Quiet, Runs, Prepares
  <2> QED
    BY <2>1, <2>2
<1>2. rows' = rows
  BY DEF Quiet
<1>4. RunsItsRow'
  BY <1>1, <1>2 DEF AloneInv, RunsItsRow
<1>5. ReclaimsStale'
  BY <1>1, <1>2 DEF AloneInv, ReclaimsStale
<1>6. RunsAlone'
  BY <1>1 DEF AloneInv, RunsAlone
<1> QED
  BY <1>4, <1>5, <1>6 DEF AloneInv

LEMMA QuietSteps ==
  ASSUME Types, NEW a \in Attempts,
         \/ Owns(a) \/ Shares(a) \/ NoCapacity(a) \/ Releases(a) \/ Overtaken(a)
         \/ (WriteFails(a) /\ rows' = rows /\ Ends(a))
         \/ Claims(a) \/ ClaimLost(a) \/ Answers(a) \/ SettleFails(a)
         \/ Leaves(a) \/ Dies(a)
  PROVE  Quiet(a)
<1>0. at \in [Attempts -> Attempt]
  BY DEF Types, TypeOK
<1>a. CASE Ends(a) /\ rows' = rows
  BY <1>0, <1>a DEF Ends, Idle, Quiet, Runs, Prepares
<1>1. CASE Owns(a)
  <2>1. PICK t \in Tokens :
          \/ at' = [at EXCEPT ![a].pc = "writing", ![a].token = t]
          \/ Ends(a)
    BY <1>1 DEF Owns, Unused
  <2>2. rows' = rows /\ at[a].pc \in {"admitting", "readmitting"}
    BY <1>1 DEF Owns
  <2> QED
    BY <1>0, <1>a, <2>1, <2>2 DEF Quiet, Runs, Prepares, Attempt
<1>2. CASE Shares(a)
  BY <1>0, <1>a, <1>2 DEF Shares, Quiet, Runs, Prepares, Attempt
<1>3. CASE Releases(a)
  BY <1>0, <1>3 DEF Releases, Quiet, Runs, Prepares, Attempt
<1>4. CASE Overtaken(a) \/ ClaimLost(a) \/ SettleFails(a)
  BY <1>0, <1>4
  DEF Overtaken, ClaimLost, SettleFails, GivesUp, Leaving, Idle, Quiet, Runs, Prepares, Attempt
<1>5. CASE Claims(a) \/ Answers(a)
  BY <1>0, <1>5 DEF Claims, Answers, Goes, Quiet, Runs, Prepares, Attempt
<1>6. CASE NoCapacity(a) \/ Leaves(a) \/ Dies(a)
  BY <1>a, <1>6 DEF NoCapacity, Leaves, Dies
<1> QED
  BY <1>a, <1>1, <1>2, <1>3, <1>4, <1>5, <1>6

(* Whoever may write the row of an id that is not late is alone with it.    *)
LEMMA WriterIsAlone ==
  ASSUME AloneInv, NEW a \in Attempts, at[a].pc = "writing", MayWrite(a),
         NEW b \in Attempts, Runs(b), at[b].id \notin late
  PROVE  at[b].id # at[a].id
<1>1. at[b].life < StaleWindow /\ rows[at[b].id].status = "started"
      /\ rows[at[b].id].age = at[b].life
  BY DEF AloneInv, InTime, RunsItsRow
<1>2. Prepares(a)
  BY DEF Prepares
<1>3. at[a].reclaims /\ at[a].same => rows[at[a].id].age = StaleWindow
  BY <1>2 DEF AloneInv, ReclaimsStale
<1>4. at[b].life \in Nat /\ StaleWindow \in Nat
  BY SpeechAssumption DEF AloneInv, Types, TypeOK, Attempt
<1> QED
  BY <1>1, <1>3, <1>4 DEF MayWrite

(* How the writer goes on: it runs, or D1's answer was an error.            *)
Written(a, x) ==
  \/ x = Idle
  \/ x = [at[a] EXCEPT !.pc = "claiming", !.hash = Nothing, !.reclaims = FALSE, !.same = FALSE]

LEMMA WrittenGoesOn ==
  ASSUME at \in [Attempts -> Attempt], NEW a \in Attempts, NEW x, Written(a, x)
  PROVE  \/ x.pc = "idle"
         \/ x.pc = "claiming" /\ x.id = at[a].id /\ x.life = at[a].life
<1>1. CASE x = Idle
  BY <1>1 DEF Idle
<1>2. CASE x = [at[a] EXCEPT !.pc = "claiming", !.hash = Nothing,
                             !.reclaims = FALSE, !.same = FALSE]
  BY <1>2 DEF Attempt
<1> QED
  BY <1>1, <1>2 DEF Written

LEMMA WritingKeeps ==
  ASSUME AloneInv, NEW a \in Attempts, at[a].pc = "writing", MayWrite(a), Start(a),
         Types', InTime', late \subseteq late',
         NEW x, at' = [b \in Attempts |-> IF b = a THEN x ELSE Moved(a, b)], Written(a, x)
  PROVE  AloneInv'
<1>0. /\ at \in [Attempts -> Attempt] /\ rows \in [Sessions -> Row] /\ at[a].id \in Sessions
  BY DEF AloneInv, Types, TypeOK, Named
<1>1. /\ rows'[at[a].id].status = "started" /\ rows'[at[a].id].age = at[a].life
      /\ \A k \in Sessions \ {at[a].id} : rows'[k] = rows[k]
  BY <1>0 DEF Start
<1>2. ASSUME NEW b \in Attempts, b # a
      PROVE  /\ at'[b].pc = at[b].pc /\ at'[b].id = at[b].id /\ at'[b].life = at[b].life
             /\ at'[b].reclaims = at[b].reclaims
             /\ at'[b].same = (at[b].same /\ at[b].id # at[a].id)
             /\ Runs(b)' = Runs(b) /\ Prepares(b)' = Prepares(b)
  BY <1>0, <1>2 DEF Moved, Attempt, Runs, Prepares
<1>3. \/ at'[a].pc = "idle"
      \/ at'[a].pc = "claiming" /\ at'[a].id = at[a].id /\ at'[a].life = at[a].life
  BY <1>0, WrittenGoesOn
<1>4. ~Prepares(a)'
  BY <1>3 DEF Prepares
<1>5. \A b \in Attempts : Runs(b) /\ at[b].id \notin late => at[b].id # at[a].id
  BY WriterIsAlone
<1>6. \A b \in Attempts : Runs(b) \/ Prepares(b) => at[b].id \in Sessions
  BY DEF AloneInv, Types, Named, Runs, Prepares
<1>8. RunsItsRow'
  <2> SUFFICES ASSUME NEW b \in Attempts, Runs(b)', at'[b].id \notin late'
               PROVE  rows'[at'[b].id].status = "started" /\ rows'[at'[b].id].age = at'[b].life
    BY DEF RunsItsRow
  <2>1. CASE b = a
    BY <1>1, <1>3, <2>1 DEF Runs
  <2>2. CASE b # a
    <3>1. Runs(b) /\ at'[b].id = at[b].id /\ at'[b].life = at[b].life /\ at[b].id \notin late
      BY <1>2, <2>2
    <3>2. at[b].id # at[a].id /\ at[b].id \in Sessions
      BY <1>5, <1>6, <3>1
    <3> QED
      BY <1>1, <3>1, <3>2 DEF AloneInv, RunsItsRow
  <2> QED
    BY <2>1, <2>2
<1>9. ReclaimsStale'
  <2> SUFFICES ASSUME NEW b \in Attempts, Prepares(b)', at'[b].reclaims, at'[b].same
               PROVE  /\ rows'[at'[b].id].status = "started"
                      /\ rows'[at'[b].id].age = StaleWindow
    BY DEF ReclaimsStale
  <2>1. b # a
    BY <1>4
  <2>2. Prepares(b) /\ at[b].reclaims /\ at[b].same /\ at[b].id # at[a].id /\ at[b].id \in Sessions
    BY <1>2, <1>6, <2>1
  <2> QED
    BY <1>1, <1>2, <2>1, <2>2 DEF AloneInv, ReclaimsStale
<1>10. RunsAlone'
  <2> SUFFICES ASSUME NEW b \in Attempts, NEW c \in Attempts, Runs(b)', Runs(c)',
                      at'[b].id = at'[c].id, at'[b].id \notin late'
               PROVE  b = c
    BY DEF RunsAlone
  <2>1. ASSUME NEW d \in {b, c}, d # a
        PROVE  Runs(d) /\ at'[d].id = at[d].id /\ at[d].id \notin late /\ at[d].id # at[a].id
    <3>1. Runs(d) /\ at'[d].id = at[d].id /\ at[d].id \notin late
      BY <1>2, <2>1
    <3> QED
      BY <1>5, <3>1
  <2>2. at'[a].id = at[a].id \/ ~Runs(a)'
    BY <1>3 DEF Runs
  <2>3. CASE b # a /\ c # a
    BY <2>1, <2>3 DEF AloneInv, RunsAlone
  <2>4. CASE b = a \/ c = a
    BY <2>1, <2>2, <2>4
  <2> QED
    BY <2>3, <2>4
<1> QED
  BY <1>8, <1>9, <1>10 DEF AloneInv

LEMMA SettlingKeeps ==
  ASSUME AloneInv, NEW a \in Attempts, Settles(a), Types', InTime', late \subseteq late'
  PROVE  AloneInv'
<1>0. /\ at \in [Attempts -> Attempt] /\ rows \in [Sessions -> Row]
      /\ at[a].pc = "settling" /\ at[a].id \in Sessions /\ Runs(a)
  BY DEF AloneInv, Types, TypeOK, Named, Settles, Runs
<1>1. \A k \in Sessions \ {at[a].id} : rows'[k] = rows[k]
  BY <1>0 DEF Settles
<1>2. ASSUME NEW b \in Attempts, b # a
      PROVE  /\ at'[b].pc = at[b].pc /\ at'[b].id = at[b].id /\ at'[b].life = at[b].life
             /\ at'[b].reclaims = at[b].reclaims
             /\ at'[b].same = (at[b].same /\ at[b].id # at[a].id)
             /\ Runs(b)' = Runs(b) /\ Prepares(b)' = Prepares(b)
  BY <1>0, <1>2 DEF Settles, Moved, Attempt, Runs, Prepares
<1>3. at'[a].pc = "leaving" /\ ~Runs(a)' /\ ~Prepares(a)'
  BY <1>0, LeavingIsAttempt DEF Settles, Runs, Prepares
<1>4. \A b \in Attempts : b # a /\ Runs(b) /\ at[b].id \notin late => at[b].id # at[a].id
  BY <1>0 DEF AloneInv, RunsAlone
<1>5. \A b \in Attempts : Runs(b) \/ Prepares(b) => at[b].id \in Sessions
  BY DEF AloneInv, Types, Named, Runs, Prepares
<1>7. RunsItsRow'
  <2> SUFFICES ASSUME NEW b \in Attempts, Runs(b)', at'[b].id \notin late'
               PROVE  rows'[at'[b].id].status = "started" /\ rows'[at'[b].id].age = at'[b].life
    BY DEF RunsItsRow
  <2>1. /\ b # a /\ Runs(b) /\ at'[b].id = at[b].id /\ at'[b].life = at[b].life
        /\ at[b].id \notin late
    BY <1>2, <1>3
  <2>2. at[b].id # at[a].id /\ at[b].id \in Sessions
    BY <1>4, <1>5, <2>1
  <2> QED
    BY <1>1, <2>1, <2>2 DEF AloneInv, RunsItsRow
<1>8. ReclaimsStale'
  <2> SUFFICES ASSUME NEW b \in Attempts, Prepares(b)', at'[b].reclaims, at'[b].same
               PROVE  /\ rows'[at'[b].id].status = "started"
                      /\ rows'[at'[b].id].age = StaleWindow
    BY DEF ReclaimsStale
  <2>1. b # a
    BY <1>3
  <2>2. Prepares(b) /\ at[b].reclaims /\ at[b].same /\ at[b].id # at[a].id /\ at[b].id \in Sessions
    BY <1>2, <1>5, <2>1
  <2> QED
    BY <1>1, <1>2, <2>1, <2>2 DEF AloneInv, ReclaimsStale
<1>9. RunsAlone'
  BY <1>2, <1>3 DEF AloneInv, RunsAlone
<1> QED
  BY <1>7, <1>8, <1>9 DEF AloneInv

LEMMA ArrivingKeeps ==
  ASSUME AloneInv, NEW a \in Attempts, NEW k \in Sessions, NEW h \in Audio, Arrives(a, k, h),
         Types', InTime', late \subseteq late'
  PROVE  AloneInv'
<1>0. at \in [Attempts -> Attempt] /\ rows' = rows
  BY DEF AloneInv, Types, TypeOK, Arrives
<1>1. \A b \in Attempts \ {a} : at'[b] = at[b]
  BY <1>0 DEF Arrives
<1>2. /\ at'[a].pc = "admitting" /\ at'[a].id = k
      /\ at'[a].reclaims = (rows[k].status = "started")
      /\ Fresh(rows[k], h)
  BY <1>0 DEF Arrives, Idle
<1>5. ~Runs(a)' /\ \A b \in Attempts \ {a} : Runs(b)' = Runs(b) /\ Prepares(b)' = Prepares(b)
  BY <1>1, <1>2 DEF Runs, Prepares
<1>6. RunsItsRow'
  BY <1>0, <1>1, <1>5 DEF AloneInv, RunsItsRow
<1>7. ReclaimsStale'
  BY <1>0, <1>1, <1>2, <1>5 DEF AloneInv, ReclaimsStale, Fresh
<1>8. RunsAlone'
  BY <1>1, <1>5 DEF AloneInv, RunsAlone
<1> QED
  BY <1>6, <1>7, <1>8 DEF AloneInv

LEMMA TickKeeps ==
  ASSUME AloneInv, Tick, Types', InTime', late \subseteq late'
  PROVE  AloneInv'
<1>0. /\ at \in [Attempts -> Attempt] /\ rows \in [Sessions -> Row]
      /\ \A a \in Attempts : Runs(a) \/ Prepares(a) => at[a].id \in Sessions
      /\ StaleWindow \in Nat \ {0}
  BY SpeechAssumption DEF AloneInv, Types, TypeOK, Named, Runs, Prepares
<1>1. ASSUME NEW a \in Attempts
      PROVE  /\ at'[a].pc = at[a].pc /\ at'[a].id = at[a].id
             /\ at'[a].reclaims = at[a].reclaims /\ at'[a].same = at[a].same
             /\ Runs(a)' = Runs(a) /\ Prepares(a)' = Prepares(a)
             /\ Runs(a) => at'[a].life = Older(at[a].life)
  BY <1>0 DEF Tick, Attempt, Runs, Prepares
<1>2. ASSUME NEW k \in Sessions
      PROVE  /\ rows'[k].status = rows[k].status
             /\ rows[k].status = "started" => rows'[k].age = Older(rows[k].age)
  BY <1>0 DEF Tick, Row
<1>5. RunsItsRow'
  BY <1>0, <1>1, <1>2 DEF AloneInv, RunsItsRow
<1>6. Older(StaleWindow) = StaleWindow
  BY <1>0 DEF Older
<1>7. ReclaimsStale'
  BY <1>0, <1>1, <1>2, <1>6 DEF AloneInv, ReclaimsStale
<1>8. RunsAlone'
  BY <1>1 DEF AloneInv, RunsAlone
<1> QED
  BY <1>5, <1>7, <1>8 DEF AloneInv

(* The steps that write a row, but for one D1 did not take.                 *)
LEMMA WritingSteps ==
  ASSUME NEW a \in Attempts, Writes(a) \/ (WriteFails(a) /\ ~(rows' = rows /\ Ends(a)))
  PROVE  /\ at[a].pc = "writing" /\ MayWrite(a) /\ Start(a)
         /\ \E x : /\ at' = [b \in Attempts |-> IF b = a THEN x ELSE Moved(a, b)]
                   /\ Written(a, x)
BY DEF Writes, WriteFails, Written

LEMMA AloneStep ==
  ASSUME AloneInv, [Next]_vars, Types'
  PROVE  AloneInv'
<1>1. CASE UNCHANGED vars
  BY <1>1 DEF vars, AloneInv, InTime, RunsItsRow, ReclaimsStale, RunsAlone, Runs, Prepares
<1>2. CASE Next
  <2>1. InTime' /\ late \subseteq late' /\ Step
    BY <1>2, LateIsNoted DEF Next, AloneInv
  <2>2. ASSUME NEW a \in Attempts, Works(a)
        PROVE  AloneInv'
    <3>1. CASE \/ Owns(a) \/ Shares(a) \/ NoCapacity(a) \/ Releases(a) \/ Overtaken(a)
               \/ (WriteFails(a) /\ rows' = rows /\ Ends(a))
               \/ Claims(a) \/ ClaimLost(a) \/ Answers(a) \/ SettleFails(a)
               \/ Leaves(a) \/ Dies(a)
      BY <2>1, <3>1, QuietSteps, QuietKeeps DEF AloneInv
    <3>2. CASE Writes(a) \/ (WriteFails(a) /\ ~(rows' = rows /\ Ends(a)))
      BY <2>1, <3>2, WritingSteps, WritingKeeps
    <3>3. CASE Settles(a)
      BY <2>1, <3>3, SettlingKeeps
    <3> QED
      BY <2>2, <3>1, <3>2, <3>3 DEF Works
  <2>3. CASE AlarmFires
    BY <2>1, <2>3
    DEF AlarmFires, AloneInv, RunsItsRow, ReclaimsStale, RunsAlone, Runs, Prepares
  <2> QED
    BY <2>1, <2>2, <2>3, ArrivingKeeps, TickKeeps DEF Step
<1> QED
  BY <1>1, <1>2

LEMMA AloneInvariant == Spec => []AloneInv
<1>1. Init /\ Types => AloneInv
  BY DEF Init, Idle, AloneInv, InTime, RunsItsRow, ReclaimsStale, RunsAlone, Runs, Prepares
<1>2. AloneInv /\ [Next]_vars /\ Types' => AloneInv'
  BY AloneStep
<1> QED
  BY <1>1, <1>2, TypesInvariant, PTL DEF Spec

-----------------------------------------------------------------------------
(* The service is kept                                                      *)

(* What a step shows of the rows and of the calls, with the promise's terms *)
(* spelt out.                                                               *)
Status == [k \in Sessions |-> IF k \in late THEN "void" ELSE rows[k].status]
Calls == [k \in Sessions |-> IF k \in late THEN 0 ELSE Cardinality(Calling(k))]

Reserves(k) ==
  /\ Status[k] \in {"none", "failed"} /\ Calls[k] = 0
  /\ Status' = [Status EXCEPT ![k] = "started"] /\ Calls' = Calls

Begins(k) ==
  /\ Status[k] = "started" /\ Calls[k] = 0
  /\ Calls' = [Calls EXCEPT ![k] = 1] /\ Status' = Status

Concludes(k) ==
  /\ Status[k] = "started"
  /\ \E outcome \in {"complete", "failed"} : Status' = [Status EXCEPT ![k] = outcome]
  /\ Calls' = [Calls EXCEPT ![k] = 0]

Abandons(k) == Calls' = [Calls EXCEPT ![k] = 0] /\ Status' = Status

Lapses(K) ==
  /\ Status' = [k \in Sessions |-> IF k \in K THEN "void" ELSE Status[k]]
  /\ Calls' = [k \in Sessions |-> IF k \in K THEN 0 ELSE Calls[k]]

Serves ==
  \/ \E k \in Sessions : Reserves(k) \/ Begins(k) \/ Concludes(k) \/ Abandons(k)
  \/ \E K \in SUBSET Sessions : Lapses(K)

(* A step that shows at no id but those the promise has lapsed for.         *)
LEMMA NothingElseShows ==
  ASSUME late \subseteq late', late' \subseteq Sessions,
         \A k \in Sessions \ late' :
           rows'[k].status = rows[k].status /\ Calling(k)' = Calling(k)
  PROVE  Serves
<1>1. Lapses(late')
  BY DEF Lapses, Status, Calls
<1> QED
  BY <1>1 DEF Serves

(* What a step of attempt a may show at other ids than its own: nothing.    *)
Elsewhere(k) ==
  \A n \in Sessions \ {k} :
    /\ rows'[n].status = rows[n].status /\ Calling(n)' = Calling(n)
    /\ n \in late' => n \in late

LEMMA OthersStay ==
  ASSUME AloneInv, Next, NEW a \in Attempts, NEW k, k = at[a].id,
         \A n \in Sessions \ {k} : rows'[n].status = rows[n].status,
         \A b \in Attempts \ {a} :
           at'[b].pc = at[b].pc /\ at'[b].id = at[b].id /\ at'[b].life = at[b].life,
         at'[a].id = at[a].id \/ ~Runs(a)'
  PROVE  Elsewhere(k)
<1>1. ASSUME NEW n \in Sessions \ {k} PROVE Calling(n)' = Calling(n)
  BY DEF Calling, Runs
<1>2. ASSUME NEW n \in Sessions \ {k}, n \in late', n \notin late PROVE FALSE
  <2>1. n \in Overdue'
    BY <1>2 DEF Next
  <2>2. PICK b \in Attempts : Runs(b)' /\ at'[b].life = StaleWindow /\ at'[b].id = n
    BY <2>1 DEF Overdue
  <2>3. b # a
    BY <1>2, <2>2
  <2>4. Runs(b) /\ at[b].life = StaleWindow /\ at[b].id = n
    BY <2>2, <2>3 DEF Runs
  <2>5. StaleWindow < StaleWindow
    BY <1>2, <2>4 DEF AloneInv, InTime
  <2> QED
    BY <2>5, SpeechAssumption
<1> QED
  BY <1>1, <1>2 DEF Elsewhere

(* Such a step shows at its own id, unless the promise lapses for it.       *)
LEMMA ShowsAtOne ==
  ASSUME NEW k \in Sessions, Elsewhere(k), late \subseteq late', late' \subseteq Sessions,
         k \notin late'
  PROVE  /\ Status[k] = rows[k].status /\ Calls[k] = Cardinality(Calling(k))
         /\ Status' = [Status EXCEPT ![k] = rows'[k].status]
         /\ Calls' = [Calls EXCEPT ![k] = Cardinality(Calling(k)')]
<1>1. Status[k] = rows[k].status /\ Calls[k] = Cardinality(Calling(k))
  BY DEF Status, Calls
<1>2. Status' = [Status EXCEPT ![k] = rows'[k].status]
  BY DEF Elsewhere, Status
<1>3. Calls' = [Calls EXCEPT ![k] = Cardinality(Calling(k)')]
  BY DEF Elsewhere, Calls
<1> QED
  BY <1>1, <1>2, <1>3

(* A row is written while no call of its id runs; one taken over was begun  *)
(* before.                                                                  *)
LEMMA WritingServes ==
  ASSUME AloneInv, Next, Types', NEW a \in Attempts,
         at[a].pc = "writing", MayWrite(a), Start(a),
         NEW x, at' = [b \in Attempts |-> IF b = a THEN x ELSE Moved(a, b)], Written(a, x)
  PROVE  Serves
<1>k. PICK k \in Sessions : k = at[a].id
  BY DEF AloneInv, Types, Named
<1>0. /\ at \in [Attempts -> Attempt] /\ rows \in [Sessions -> Row]
      /\ late \subseteq late' /\ late' \subseteq Sessions
  BY LateIsNoted DEF AloneInv, Types, TypeOK
<1>1. /\ \A b \in Attempts \ {a} :
           at'[b].pc = at[b].pc /\ at'[b].id = at[b].id /\ at'[b].life = at[b].life
      /\ at'[a].pc \notin {"calling", "settling"}
      /\ at'[a].id = at[a].id \/ ~Runs(a)'
  BY <1>k, <1>0, WrittenGoesOn DEF Moved, Attempt, Runs
<1>2. /\ rows'[k].status = "started"
      /\ \A n \in Sessions \ {k} : rows'[n].status = rows[n].status
  BY <1>k, <1>0 DEF Start
<1>3. Elsewhere(k)
  BY <1>k, <1>0, <1>1, <1>2, OthersStay
<1>4. CASE k \in late'
  BY <1>k, <1>0, <1>3, <1>4, NothingElseShows DEF Elsewhere
<1>5. CASE k \notin late'
  <2>1. Calling(k) = {}
    BY <1>k, <1>0, <1>5, WriterIsAlone DEF Calling, Runs
  <2>2. Calling(k)' = {}
    BY <1>k, <1>1, <2>1 DEF Calling
  <2>3. Cardinality({}) = 0
    BY FS_EmptySet
  <2>4. /\ Status[k] = rows[k].status /\ Calls[k] = 0
        /\ Status' = [Status EXCEPT ![k] = "started"] /\ Calls' = [Calls EXCEPT ![k] = 0]
    BY <1>k, <1>0, <1>2, <1>3, <1>5, <2>1, <2>2, <2>3, ShowsAtOne
  <2>5. Calls' = Calls
    BY <1>k, <1>0, <2>4 DEF Calls
  <2>6. CASE rows[k].status \in {"none", "failed"}
    BY <1>k, <1>0, <2>4, <2>5, <2>6 DEF Reserves, Serves
  <2>7. CASE rows[k].status \notin {"none", "failed"}
    <3>1. rows[k].status = "started"
      BY <1>k, <2>7 DEF MayWrite, AloneInv, ReclaimsStale, Prepares
    <3> QED
      BY <1>k, <1>0, <1>2, <1>3, <2>1, <2>2, <3>1, NothingElseShows DEF Elsewhere
  <2> QED
    BY <2>6, <2>7
<1> QED
  BY <1>4, <1>5

LEMMA SettlingServes ==
  ASSUME AloneInv, Next, Types', NEW a \in Attempts, Settles(a)
  PROVE  Serves
<1>k. PICK k \in Sessions : k = at[a].id
  BY DEF AloneInv, Types, Named, Settles
<1>o. PICK outcome \in {"complete", "failed"} : outcome = IF at[a].ok THEN "complete" ELSE "failed"
  OBVIOUS
<1>0. /\ at \in [Attempts -> Attempt] /\ rows \in [Sessions -> Row]
      /\ at[a].pc = "settling" /\ late \subseteq late' /\ late' \subseteq Sessions
  BY LateIsNoted DEF AloneInv, Types, TypeOK, Settles
<1>1. /\ \A b \in Attempts \ {a} :
           at'[b].pc = at[b].pc /\ at'[b].id = at[b].id /\ at'[b].life = at[b].life
      /\ at'[a].pc = "leaving" /\ ~Runs(a)'
  BY <1>k, <1>0, LeavingIsAttempt DEF Settles, Moved, Attempt, Runs
<1>2. /\ rows'[k].status = outcome
      /\ \A n \in Sessions \ {k} : rows'[n].status = rows[n].status
  BY <1>k, <1>o, <1>0 DEF Settles, Row
<1>3. Elsewhere(k)
  BY <1>k, <1>0, <1>1, <1>2, OthersStay
<1>4. CASE k \in late'
  BY <1>k, <1>0, <1>3, <1>4, NothingElseShows DEF Elsewhere
<1>5. CASE k \notin late'
  <2>1. Calling(k)' = {}
    BY <1>k, <1>0, <1>1, <1>5 DEF AloneInv, RunsAlone, Runs, Calling
  <2>2. Cardinality({}) = 0
    BY FS_EmptySet
  <2>3. /\ Status[k] = rows[k].status
        /\ Status' = [Status EXCEPT ![k] = outcome] /\ Calls' = [Calls EXCEPT ![k] = 0]
    BY <1>k, <1>0, <1>2, <1>3, <1>5, <2>1, <2>2, ShowsAtOne
  <2>4. rows[k].status = "started"
    BY <1>k, <1>0, <1>5 DEF AloneInv, RunsItsRow, Runs
  <2>6. Concludes(k)
    BY <2>3, <2>4 DEF Concludes
  <2> QED
    BY <1>k, <1>0, <2>6 DEF Serves
<1> QED
  BY <1>4, <1>5

(* The call of a claimed row begins: the only one of its id.                *)
LEMMA ClaimingServes ==
  ASSUME AloneInv, Next, Types', NEW a \in Attempts, Claims(a)
  PROVE  Serves
<1>k. PICK k \in Sessions : k = at[a].id
  BY DEF AloneInv, Types, Named, Claims
<1>0. /\ at \in [Attempts -> Attempt] /\ rows \in [Sessions -> Row]
      /\ at[a].pc = "claiming" /\ late \subseteq late' /\ late' \subseteq Sessions
  BY LateIsNoted DEF AloneInv, Types, TypeOK, Named, Claims
<1>1. /\ at'[a].pc = "calling" /\ at'[a].id = at[a].id /\ rows' = rows
      /\ \A b \in Attempts \ {a} : at'[b] = at[b]
  BY <1>k, <1>0 DEF Claims, Goes, Attempt
<1>2. Elsewhere(k)
  BY <1>k, <1>0, <1>1, OthersStay
<1>3. CASE k \in late'
  BY <1>k, <1>0, <1>2, <1>3, NothingElseShows DEF Elsewhere
<1>4. CASE k \notin late'
  <2>1. Calling(k) = {} /\ Calling(k)' = {a}
    BY <1>k, <1>0, <1>1, <1>4 DEF AloneInv, RunsAlone, Runs, Calling
  <2>2. Cardinality({}) = 0 /\ Cardinality({a}) = 1
    BY FS_EmptySet, FS_Singleton
  <2>3. rows[k].status = "started"
    BY <1>k, <1>0, <1>4 DEF AloneInv, RunsItsRow, Runs
  <2>4. /\ Status[k] = "started" /\ Calls[k] = 0
        /\ Status' = [Status EXCEPT ![k] = "started"] /\ Calls' = [Calls EXCEPT ![k] = 1]
    BY <1>k, <1>0, <1>1, <1>2, <1>4, <2>1, <2>2, <2>3, ShowsAtOne
  <2>5. Status' = Status
    BY <1>k, <1>0, <2>4 DEF Status
  <2> QED
    BY <1>k, <1>0, <2>4, <2>5 DEF Begins, Serves
<1> QED
  BY <1>3, <1>4

(* An attempt that leaves or dies may abandon a call, and a quiet one does  *)
(* not show.                                                                *)
LEMMA QuietServes ==
  ASSUME AloneInv, Next, Types', NEW a \in Attempts, at[a].pc # "idle", rows' = rows,
         \A b \in Attempts \ {a} : at'[b] = at[b],
         at'[a].id = at[a].id \/ ~Runs(a)',
         at'[a].pc \in {"calling", "settling"} =>
           at[a].pc \in {"calling", "settling"} /\ at'[a].id = at[a].id
  PROVE  Serves
<1>k. PICK k \in Sessions : k = at[a].id
  BY DEF AloneInv, Types, Named
<1>0. late \subseteq late' /\ late' \subseteq Sessions
  BY LateIsNoted DEF AloneInv
<1>1. Elsewhere(k)
  BY <1>k, OthersStay
<1>2. CASE k \in late' \/ Calling(k)' = Calling(k)
  BY <1>k, <1>0, <1>1, <1>2, NothingElseShows DEF Elsewhere
<1>3. CASE k \notin late' /\ Calling(k)' # Calling(k)
  <2>1. at[a].pc \in {"calling", "settling"} /\ at'[a].pc \notin {"calling", "settling"}
    BY <1>k, <1>3 DEF Calling
  <2>2. Calling(k)' = {}
    BY <1>k, <1>0, <1>3, <2>1 DEF AloneInv, RunsAlone, Runs, Calling
  <2>3. Cardinality({}) = 0
    BY FS_EmptySet
  <2>4. /\ Status' = [Status EXCEPT ![k] = Status[k]]
        /\ Calls' = [Calls EXCEPT ![k] = 0]
    BY <1>k, <1>0, <1>1, <1>3, <2>2, <2>3, ShowsAtOne
  <2>5. Status' = Status
    BY <2>4 DEF Status
  <2> QED
    BY <1>k, <1>0, <2>4, <2>5 DEF Abandons, Serves
<1> QED
  BY <1>2, <1>3

LEMMA WorkServes ==
  ASSUME AloneInv, Next, Types', NEW a \in Attempts, Works(a)
  PROVE  Serves
<1>0. at \in [Attempts -> Attempt]
  BY DEF AloneInv, Types, TypeOK
<1>a. CASE at[a].pc # "idle" /\ rows' = rows /\ Ends(a)
  BY <1>0, <1>a, QuietServes DEF Ends, Idle, Runs
<1>b. CASE at[a].pc # "idle" /\ rows' = rows /\ GivesUp(a)
  BY <1>0, <1>b, QuietServes DEF GivesUp, Leaving, Idle, Runs
<1>2. CASE Owns(a)
  <2>1. PICK t \in Tokens :
          \/ at' = [at EXCEPT ![a].pc = "writing", ![a].token = t]
          \/ Ends(a)
    BY <1>2 DEF Owns, Unused
  <2>2. at[a].pc # "idle" /\ rows' = rows
    BY <1>2 DEF Owns
  <2> QED
    BY <1>0, <1>a, <2>1, <2>2, QuietServes DEF Runs, Attempt
<1>3. CASE Shares(a) \/ Releases(a)
  BY <1>0, <1>3, <1>a, QuietServes DEF Shares, Releases, Attempt
<1>4. CASE Overtaken(a) \/ ClaimLost(a) \/ SettleFails(a)
  BY <1>4, <1>b DEF Overtaken, ClaimLost, SettleFails
<1>5. CASE NoCapacity(a) \/ Leaves(a) \/ Dies(a)
  BY <1>5, <1>a DEF NoCapacity, Leaves, Dies
<1>6. CASE Writes(a) \/ (WriteFails(a) /\ ~(rows' = rows /\ Ends(a)))
  BY <1>6, WritingSteps, WritingServes
<1>7. CASE WriteFails(a) /\ rows' = rows /\ Ends(a)
  BY <1>7, <1>a DEF WriteFails
<1>8. CASE Answers(a)
  BY <1>0, <1>8, QuietServes DEF Answers, Attempt
<1> QED
  BY <1>2, <1>3, <1>4, <1>5, <1>6, <1>7, <1>8, ClaimingServes, SettlingServes DEF Works

LEMMA StepServes ==
  ASSUME AloneInv, [Next]_vars, Types'
  PROVE  Serves
<1>0. /\ at \in [Attempts -> Attempt] /\ rows \in [Sessions -> Row]
      /\ late \subseteq Sessions
  BY DEF AloneInv, Types, TypeOK
<1>1. CASE UNCHANGED vars
  BY <1>0, <1>1, NothingElseShows DEF vars, Calling
<1>2. CASE Next
  <2>1. late \subseteq late' /\ late' \subseteq Sessions /\ Step
    BY <1>2, LateIsNoted DEF Next, AloneInv
  <2>2. ASSUME NEW a \in Attempts, NEW k \in Sessions, NEW h \in Audio, Arrives(a, k, h)
        PROVE  Serves
    <3>1. rows' = rows /\ \A n \in Sessions : Calling(n)' = Calling(n)
      BY <1>0, <2>2 DEF Arrives, Idle, Calling
    <3> QED
      BY <2>1, <3>1, NothingElseShows
  <2>3. CASE AlarmFires
    BY <2>1, <2>3, NothingElseShows DEF AlarmFires, Calling
  <2>4. CASE Tick
    <3>1. \A b \in Attempts : at'[b].pc = at[b].pc /\ at'[b].id = at[b].id
      BY <1>0, <2>4 DEF Tick, Attempt
    <3>2. \A n \in Sessions : rows'[n].status = rows[n].status /\ Calling(n)' = Calling(n)
      BY <1>0, <2>4, <3>1 DEF Tick, Row, Calling
    <3> QED
      BY <2>1, <3>2, NothingElseShows
  <2> QED
    BY <1>2, <2>1, <2>2, <2>3, <2>4, WorkServes DEF Step
<1> QED
  BY <1>1, <1>2

(* The operation keeps the promised service, whoever dies and whatever      *)
(* answer is lost, and however long an attempt takes: one upstream call of  *)
(* an id at a time and none after its completion.  Only for an id of which  *)
(* an attempt was still at work when its row turned stale the promise       *)
(* lapses, then and not before.                                             *)
THEOREM RequestsKeepThePromise == Spec => PromiseKept
<1>1. Init => Promise!Init
  <2>1. ASSUME Init, NEW k \in Sessions
        PROVE  Cardinality(Calling(k)) = 0
    <3>1. Calling(k) = {}
      BY <2>1 DEF Init, Idle, Calling
    <3> QED
      BY <3>1, FS_EmptySet
  <2> QED
    BY <2>1 DEF Init, NoRow, Promise!Init
<1>2. Serves => [Promise!Next]_(Promise!vars)
  <2>1. ASSUME NEW k \in Sessions
        PROVE  /\ Reserves(k) => Promise!Reserve(k)
               /\ Begins(k) => Promise!Call(k)
               /\ Abandons(k) => Promise!Abandon(k)
    BY DEF Reserves, Begins, Abandons, Promise!Reserve, Promise!Call, Promise!Abandon,
           Status, Calls
  <2>2. ASSUME NEW k \in Sessions, Concludes(k)
        PROVE  Promise!Settle(k, "complete") \/ Promise!Settle(k, "failed")
    BY <2>2 DEF Concludes, Promise!Settle, Status, Calls
  <2>3. ASSUME NEW K \in SUBSET Sessions, Lapses(K)
        PROVE  Promise!Lapse(K)
    BY <2>3 DEF Lapses, Promise!Lapse, Status, Calls
  <2> QED
    BY <2>1, <2>2, <2>3 DEF Serves, Promise!Next
<1>3. AloneInv /\ [Next]_vars /\ AloneInv' => [Promise!Next]_(Promise!vars)
  BY <1>2, StepServes DEF AloneInv
<1> QED
  BY <1>1, <1>3, AloneInvariant, PTL DEF Spec, PromiseKept, Promise!Spec
=============================================================================
