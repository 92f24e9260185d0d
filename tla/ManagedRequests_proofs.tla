----------------------- MODULE ManagedRequests_proofs -----------------------
(***************************************************************************)
(* Proofs about managed requests and the assistant's admission ledger for  *)
(* every value of the limits and every finite set of requests.             *)
(***************************************************************************)
EXTENDS ManagedRequests, FoldLemmas

-----------------------------------------------------------------------------
(* What the ledger's operations do                                          *)

(* Every reservation was there, is no younger, and is not taken up again.   *)
Shrinks ==
  /\ DOMAIN reservations' \subseteq DOMAIN reservations
  /\ \A r \in DOMAIN reservations' :
       /\ reservations'[r] \in Reservation
       /\ reservations'[r].age >= reservations[r].age
       /\ reservations'[r].inFlight => reservations[r].inFlight

(* Nothing but request r changes.                                           *)
Others(r) ==
  \A q \in DOMAIN reservations' \ {r} :
    q \in DOMAIN reservations /\ reservations'[q] = reservations[q]

(* Ages stop at the window.                                                 *)
LEMMA OlderWithinWindow ==
  ASSUME NEW n \in Nat
  PROVE  /\ Min({n + 1, Window}) \in 0..Window
         /\ n <= Window => Min({n + 1, Window}) >= n
         /\ Min({n + 1, Window}) = n + 1 \/ Min({n + 1, Window}) = Window
<1>1. Window \in Nat
  BY AdmissionAssumption
<1>2. CASE n + 1 <= Window
  <2>1. Min({n + 1, Window}) = n + 1
    BY <1>1, <1>2 DEF Min
  <2> QED
    BY <1>1, <1>2, <2>1
<1>3. CASE n + 1 > Window
  <2>1. Min({n + 1, Window}) = Window
    BY <1>1, <1>3 DEF Min
  <2> QED
    BY <1>1, <1>3, <2>1
<1> QED
  BY <1>1, <1>2, <1>3

(* The ledger is as it was.                                                 *)
LEMMA SameLedger ==
  ASSUME LedgerTypeOK, UNCHANGED reservations
  PROVE  /\ LedgerTypeOK' /\ Shrinks
         /\ \A r \in Requests : Others(r)
BY DEF LedgerTypeOK, Shrinks, Others, Reservation

(* /admit forgets what is older than the window.                            *)
LEMMA RecentLedger ==
  /\ DOMAIN Recent = {r \in DOMAIN reservations : reservations[r].age < Window}
  /\ \A r \in DOMAIN Recent : Recent[r] = reservations[r]
BY DEF Recent, Restrict

(* 429 changes nothing else.                                                *)
LEMMA RefusedLedger ==
  ASSUME LedgerTypeOK, NEW r, NEW estimate, Refuse(r, estimate)
  PROVE  /\ LedgerTypeOK' /\ Shrinks
         /\ \A q : Others(q)
BY RecentLedger DEF Refuse, LedgerTypeOK, Shrinks, Others, Reservation

(* /release and /settle take a request out of flight.                       *)
LEMMA FreedLedger ==
  ASSUME LedgerTypeOK, NEW r \in Requests, NEW used \in Usage,
         reservations' = Freed(r, used)
  PROVE  /\ LedgerTypeOK' /\ Shrinks /\ Others(r)
         /\ r \in DOMAIN reservations' => ~reservations'[r].inFlight
<1>1. DOMAIN reservations' = DOMAIN reservations
  BY DEF Freed, Released, Settled
<1>2. \A q \in DOMAIN reservations : q # r => reservations'[q] = reservations[q]
  BY DEF Freed, Released, Settled
<1>3. ASSUME r \in DOMAIN reservations
      PROVE  /\ reservations'[r] \in Reservation
             /\ reservations'[r].age = reservations[r].age
             /\ ~reservations'[r].inFlight
  <2>0. reservations[r] \in Reservation
    BY <1>3 DEF LedgerTypeOK
  <2>1. CASE used = Unknown
    <3>1. reservations'[r] = [reservations[r] EXCEPT !.inFlight = FALSE]
      BY <1>3, <2>1 DEF Freed, Released
    <3> QED
      BY <2>0, <3>1 DEF Reservation
  <2>2. CASE used # Unknown
    <3>1. reservations'[r] = [reservations[r] EXCEPT !.inFlight = FALSE, !.charge = used]
      BY <1>3, <2>2 DEF Freed, Settled
    <3>2. used \in Nat
      BY <2>2 DEF Usage
    <3> QED
      BY <2>0, <3>1, <3>2 DEF Reservation
  <2> QED
    BY <2>1, <2>2
<1>4. \A q \in DOMAIN reservations : reservations[q] \in Reservation
  BY DEF LedgerTypeOK
<1>5. \A q \in DOMAIN reservations' :
        /\ reservations'[q] \in Reservation
        /\ reservations'[q].age = reservations[q].age
        /\ reservations'[q].inFlight => reservations[q].inFlight
  BY <1>1, <1>2, <1>3, <1>4
<1>6. \A q \in DOMAIN reservations : reservations[q].age \in Nat
  BY <1>4 DEF Reservation
<1> QED
  BY <1>1, <1>2, <1>3, <1>5, <1>6 DEF LedgerTypeOK, Shrinks, Others

(* A release that may not arrive.                                           *)
LEMMA MaybeReleasedLedger ==
  ASSUME LedgerTypeOK, NEW r \in Requests, reservations' \in {reservations, Released(r)}
  PROVE  LedgerTypeOK' /\ Shrinks /\ Others(r)
<1>1. CASE reservations' = Released(r)
  BY <1>1, FreedLedger DEF Freed, Usage
<1>2. CASE reservations' = reservations
  BY <1>2, SameLedger
<1> QED
  BY <1>1, <1>2

(* A tick.                                                                  *)
LEMMA AgedLedger ==
  ASSUME LedgerTypeOK, reservations' = Aged
  PROVE  /\ LedgerTypeOK' /\ Shrinks
         /\ \A r \in DOMAIN reservations' :
              \/ reservations'[r].age = reservations[r].age + 1
              \/ reservations'[r].age = Window
<1>1. DOMAIN reservations' = DOMAIN reservations
  BY DEF Aged
<1>2. ASSUME NEW r \in DOMAIN reservations
      PROVE  /\ reservations'[r] \in Reservation
             /\ reservations'[r].age >= reservations[r].age
             /\ reservations'[r].inFlight = reservations[r].inFlight
             /\ \/ reservations'[r].age = reservations[r].age + 1
                \/ reservations'[r].age = Window
  <2>1. reservations[r] \in Reservation
    BY DEF LedgerTypeOK
  <2>2. reservations'[r] =
          [reservations[r] EXCEPT !.age = Min({reservations[r].age + 1, Window})]
    BY DEF Aged
  <2>3. reservations[r].age \in Nat /\ reservations[r].age <= Window
    BY <2>1, AdmissionAssumption DEF Reservation
  <2> DEFINE older == Min({reservations[r].age + 1, Window})
  <2>4. /\ older \in 0..Window /\ older >= reservations[r].age
        /\ older = reservations[r].age + 1 \/ older = Window
    BY <2>3, OlderWithinWindow
  <2> HIDE DEF older
  <2> QED
    BY <2>1, <2>2, <2>4 DEF Reservation, older
<1> QED
  BY <1>1, <1>2 DEF LedgerTypeOK, Shrinks

(* 200: the request is in flight, and nothing else changes.                 *)
LEMMA AdmittedLedger ==
  ASSUME LedgerTypeOK, NEW r \in Requests, NEW estimate \in Estimates, Admit(r, estimate)
  PROVE  /\ LedgerTypeOK' /\ Others(r)
         /\ r \in DOMAIN reservations'
         /\ reservations'[r] = [age |-> 0, charge |-> estimate, inFlight |-> TRUE]
         /\ reservations'[r] \in Reservation
<1>1. /\ DOMAIN reservations' = DOMAIN Recent \cup {r}
      /\ reservations'[r] = [age |-> 0, charge |-> estimate, inFlight |-> TRUE]
      /\ \A q \in DOMAIN reservations' \ {r} : reservations'[q] = Recent[q]
  BY DEF Admit
<1>2. [age |-> 0, charge |-> estimate, inFlight |-> TRUE] \in Reservation
  BY AdmissionAssumption DEF Reservation
<1>3. Others(r)
  BY <1>1, RecentLedger DEF Others
<1> QED
  BY <1>1, <1>2, <1>3, RecentLedger DEF LedgerTypeOK, Others

-----------------------------------------------------------------------------
(* Types                                                                    *)

(* A finalization keeps the type of a row.                                  *)
LEMMA FinalizedRow ==
  ASSUME NEW row \in Row, NEW used \in Usage
  PROVE  /\ Finalized(row, used) \in Row
         /\ Finalized(row, used).finalized
         /\ Finalized(row, used).settled = row.settled
<1>1. CASE row.finalized
  BY <1>1 DEF Finalized
<1>2. CASE ~row.finalized
  <2> DEFINE known == IF used = Unknown THEN row.used ELSE used
             to == [status |-> "ended", finalized |-> TRUE, settled |-> row.settled,
                    used |-> known, age |-> 0]
  <2>1. Finalized(row, used) = to
    BY <1>2 DEF Finalized, Row
  <2>2. known \in Usage /\ row.settled \in BOOLEAN /\ 0 \in 0..Stale
    BY RequestsAssumption DEF Row
  <2>3. to \in Row
    BY <2>2 DEF Row
  <2> QED
    BY <2>1, <2>3
<1> QED
  BY <1>1, <1>2 DEF Row

(* What the other updates write.                                            *)
LEMMA UpdatedRow ==
  ASSUME NEW row \in Row
  PROVE  /\ [row EXCEPT !.status = "streaming", !.age = 0] \in Row
         /\ [row EXCEPT !.settled = TRUE, !.age = 0] \in Row
<1>1. 0 \in 0..Stale
  BY RequestsAssumption
<1>2. /\ [row EXCEPT !.status = "streaming"] \in Row
      /\ [row EXCEPT !.settled = TRUE] \in Row
  BY DEF Row
<1>3. \A one \in Row : [one EXCEPT !.age = 0] \in Row
  BY <1>1 DEF Row
<1>4. /\ [row EXCEPT !.status = "streaming", !.age = 0] =
           [[row EXCEPT !.status = "streaming"] EXCEPT !.age = 0]
      /\ [row EXCEPT !.settled = TRUE, !.age = 0] =
           [[row EXCEPT !.settled = TRUE] EXCEPT !.age = 0]
  BY DEF Row
<1> QED
  BY <1>2, <1>3, <1>4

(* An update that may be lost, of a row that keeps its type.                *)
LEMMA WrittenRows ==
  ASSUME TypeOK, NEW r \in Requests, NEW row \in Row, Written(r, row)
  PROVE  /\ rows' \in [Requests -> Row] /\ stops' \in 0..MaxStops
         /\ rows'[r] \in {rows[r], row}
         /\ \A q \in Requests \ {r} : rows'[q] = rows[q]
BY RequestsAssumption DEF Written, TypeOK

(* A handler that goes on or leaves keeps its type.                         *)
LEMMA HandlersMove ==
  ASSUME TypeOK, NEW r \in Requests
  PROVE  /\ \A at \in {"admitted", "asking", "streaming", "settling", "marking", "calling"} :
              Goes(r, at) => /\ handler' \in [Requests -> Handler]
                             /\ handler'[r].at = at
                             /\ \A q \in Requests \ {r} : handler'[q] = handler[q]
         /\ Leaves(r) => /\ handler' \in [Requests -> Handler] /\ handler'[r].at = "gone"
                         /\ \A q \in Requests \ {r} : handler'[q] = handler[q]
<1>1. handler[r] \in Handler /\ handler \in [Requests -> Handler]
  BY DEF TypeOK
<1>2. Gone \in Handler /\ Gone.at = "gone"
  BY DEF Gone, New, Handler, Usage
<1>3. ASSUME NEW at \in {"admitted", "asking", "streaming", "settling", "marking", "calling"},
             Goes(r, at)
      PROVE  /\ handler' \in [Requests -> Handler]
             /\ handler'[r].at = at
             /\ \A q \in Requests \ {r} : handler'[q] = handler[q]
  <2>1. handler' = [handler EXCEPT ![r] = [handler[r] EXCEPT !.at = at]]
    BY <1>3 DEF Goes
  <2>2. /\ [handler[r] EXCEPT !.at = at] \in Handler
        /\ [handler[r] EXCEPT !.at = at].at = at
    BY <1>1 DEF Handler
  <2> QED
    BY <1>1, <2>1, <2>2
<1>4. Leaves(r) => /\ handler' \in [Requests -> Handler] /\ handler'[r].at = "gone"
                   /\ \A q \in Requests \ {r} : handler'[q] = handler[q]
  BY <1>1, <1>2 DEF Leaves
<1> QED
  BY <1>3, <1>4

(* Every step keeps the types.                                              *)
LEMMA TypesStep == TypeOK /\ [Next]_vars => TypeOK'
<1> SUFFICES ASSUME TypeOK, [Next]_vars PROVE TypeOK'
  OBVIOUS
<1>0. /\ LedgerTypeOK
      /\ rows \in [Requests -> Row] /\ handler \in [Requests -> Handler]
      /\ sweeps \subseteq Sweep /\ stops \in 0..MaxStops
      /\ reserved \in [Requests -> Nat] /\ spent \in [Requests -> Nat]
      /\ told \subseteq Requests
  BY DEF TypeOK
<1>1. CASE UNCHANGED vars
  BY <1>0, <1>1, SameLedger DEF TypeOK, vars
<1>2. CASE Tick
  <2>1. LedgerTypeOK'
    BY <1>0, <1>2, AgedLedger DEF Tick
  <2>2. rows' \in [Requests -> Row]
    <3>1. ASSUME NEW r \in Requests
          PROVE  [rows[r] EXCEPT !.age = Upto(rows[r].age, Stale)] \in Row
      BY <1>0, RequestsAssumption DEF Row, Upto
    <3> QED
      BY <1>0, <1>2, <3>1 DEF Tick
  <2> QED
    BY <1>0, <1>2, <2>1, <2>2 DEF Tick, TypeOK
<1>3. ASSUME NEW r \in Requests, Admitted(r) PROVE TypeOK'
  <2>1. PICK estimate \in Estimates :
          Admit(r, estimate) /\ reserved' = [reserved EXCEPT ![r] = estimate]
    BY <1>3 DEF Admitted
  <2>2. LedgerTypeOK'
    BY <1>0, <2>1, AdmittedLedger
  <2>3. handler' \in [Requests -> Handler]
    BY <1>0, <1>3, HandlersMove DEF Admitted
  <2>4. reserved' \in [Requests -> Nat]
    BY <1>0, <2>1, AdmissionAssumption
  <2> QED
    BY <1>0, <1>3, <2>2, <2>3, <2>4 DEF Admitted, TypeOK
<1>4. ASSUME NEW r \in Requests, Refused(r) PROVE TypeOK'
  BY <1>0, <1>4, RefusedLedger, HandlersMove DEF Refused, TypeOK
<1>5. ASSUME NEW r \in Requests, Inserts(r) PROVE TypeOK'
  <2>1. rows' \in [Requests -> Row]
    BY <1>0, <1>5 DEF Inserts, Row
  <2>2. handler' \in [Requests -> Handler]
    BY <1>5, HandlersMove DEF Inserts
  <2> QED
    BY <1>0, <1>5, <2>1, <2>2, SameLedger DEF Inserts, TypeOK
<1>6. ASSUME NEW r \in Requests, InsertFails(r) PROVE TypeOK'
  BY <1>0, <1>6, MaybeReleasedLedger, HandlersMove DEF InsertFails, TypeOK
<1>7. ASSUME NEW r \in Requests, Fails(r) PROVE TypeOK'
  <2>1. rows' \in [Requests -> Row] /\ stops' \in 0..MaxStops
    BY <1>0, <1>7, FinalizedRow, WrittenRows DEF Fails, Usage
  <2>2. PICK marks \in BOOLEAN :
          handler' = [handler EXCEPT ![r].at = "settling", ![r].marks = marks]
    BY <1>7 DEF Fails
  <2>3. [handler[r] EXCEPT !.at = "settling", !.marks = marks] \in Handler
    BY <1>0, <2>2 DEF Handler
  <2>4. handler' = [handler EXCEPT ![r] =
                      [handler[r] EXCEPT !.at = "settling", !.marks = marks]]
    BY <1>0, <2>2
  <2>5. handler' \in [Requests -> Handler]
    BY <1>0, <2>3, <2>4
  <2> QED
    BY <1>0, <1>7, <2>1, <2>5, SameLedger DEF Fails, TypeOK
<1>8. ASSUME NEW r \in Requests, Streams(r) PROVE TypeOK'
  <2>1. [rows[r] EXCEPT !.status = "streaming", !.age = 0] \in Row
    BY <1>0, UpdatedRow
  <2>2. rows' \in [Requests -> Row] /\ stops' \in 0..MaxStops
    BY <1>8, <2>1, WrittenRows DEF Streams
  <2>3. handler' \in [Requests -> Handler]
    BY <1>8, HandlersMove DEF Streams
  <2> QED
    BY <1>0, <1>8, <2>2, <2>3, SameLedger DEF Streams, TypeOK
<1>9. ASSUME NEW r \in Requests, Ends(r) PROVE TypeOK'
  <2>1. PICK used \in Usages : \E read \in {used, Unknown} :
          /\ Written(r, Finalized(rows[r], read))
          /\ handler' = [handler EXCEPT ![r].at = "settling", ![r].used = read,
                                       ![r].marks = TRUE]
          /\ spent' = [spent EXCEPT ![r] = used]
    BY <1>9 DEF Ends
  <2>5. used \in Nat /\ used \in Usage /\ Unknown \in Usage
    BY RequestsAssumption DEF Usage
  <2>6. PICK read \in Usage :
          /\ Written(r, Finalized(rows[r], read))
          /\ handler' = [handler EXCEPT ![r].at = "settling", ![r].used = read,
                                       ![r].marks = TRUE]
          /\ spent' = [spent EXCEPT ![r] = used]
    BY <2>1, <2>5
  <2>2. rows' \in [Requests -> Row] /\ stops' \in 0..MaxStops
    BY <1>0, <2>6, FinalizedRow, WrittenRows
  <2>7. [handler[r] EXCEPT !.at = "settling", !.used = read, !.marks = TRUE] \in Handler
    BY <1>0, <2>6 DEF Handler
  <2>8. handler' = [handler EXCEPT ![r] =
                      [handler[r] EXCEPT !.at = "settling", !.used = read, !.marks = TRUE]]
    BY <1>0, <2>6
  <2>3. handler' \in [Requests -> Handler]
    BY <1>0, <2>7, <2>8
  <2>4. spent' \in [Requests -> Nat]
    BY <1>0, <2>5, <2>6
  <2> QED
    BY <1>0, <1>9, <2>2, <2>3, <2>4, SameLedger DEF Ends, TypeOK
<1>10. ASSUME NEW r \in Requests, Called(r) PROVE TypeOK'
  BY <1>0, <1>10, FinalizedRow, HandlersMove, SameLedger DEF Called, TypeOK, Usage
<1>11. ASSUME NEW r \in Requests, Settles(r) PROVE TypeOK'
  <2>1. handler[r].used \in Usage
    BY <1>0 DEF Handler
  <2>2. LedgerTypeOK'
    BY <1>0, <1>11, <2>1, FreedLedger DEF Settles
  <2>3. handler' \in [Requests -> Handler]
    BY <1>11, HandlersMove DEF Settles
  <2> QED
    BY <1>0, <1>11, <2>2, <2>3 DEF Settles, Told, TypeOK
<1>12. ASSUME NEW r \in Requests, Marks(r) PROVE TypeOK'
  <2>1. rows' \in [Requests -> Row]
    <3>1. rows' = [rows EXCEPT ![r] = [rows[r] EXCEPT !.settled = TRUE, !.age = 0]]
      BY <1>0, <1>12 DEF Marks
    <3> QED
      BY <1>0, <3>1, UpdatedRow
  <2> QED
    BY <1>0, <1>12, <2>1, HandlersMove, SameLedger DEF Marks, TypeOK
<1>13. ASSUME NEW r \in Requests, Dies(r) PROVE TypeOK'
  <2>1. spent' \in [Requests -> Nat]
    BY <1>0, <1>13, RequestsAssumption DEF Dies
  <2> QED
    BY <1>0, <1>13, <2>1, HandlersMove, SameLedger DEF Dies, TypeOK
<1>14. ASSUME NEW r \in Requests, SweepReads(r) PROVE TypeOK'
  <2>1. rows[r].used \in Usage
    BY <1>0 DEF Row
  <2>2. sweeps' \subseteq Sweep
    BY <1>0, <1>14, <2>1 DEF SweepReads, Sweep
  <2> QED
    BY <1>0, <1>14, <2>2, SameLedger DEF SweepReads, TypeOK
<1>15. ASSUME NEW e \in sweeps, SweepStep(e) \/ SweepStops(e) PROVE TypeOK'
  <2>0. e \in Sweep /\ e.request \in Requests /\ e.used \in Usage
    BY <1>0 DEF Sweep
  <2>1. \A at \in {"settling", "marking"} : [e EXCEPT !.at = at] \in Sweep
    BY <2>0 DEF Sweep
  <2>2. CASE SweepFinalizes(e)
    <3>1. rows' \in [Requests -> Row] /\ stops' \in 0..MaxStops
      BY <1>0, <2>0, <2>2, FinalizedRow, WrittenRows DEF SweepFinalizes, Usage
    <3> QED
      BY <1>0, <2>1, <2>2, <3>1, SameLedger DEF SweepFinalizes, Onward, TypeOK
  <2>3. CASE SweepSettles(e)
    BY <1>0, <2>0, <2>1, <2>3, FreedLedger DEF SweepSettles, Told, Onward, TypeOK
  <2>4. CASE SweepMarks(e)
    <3>1. rows' \in [Requests -> Row]
      <4>1. rows' = [rows EXCEPT ![e.request] =
                       [rows[e.request] EXCEPT !.settled = TRUE, !.age = 0]]
        BY <1>0, <2>4 DEF SweepMarks
      <4> QED
        BY <1>0, <2>0, <4>1, UpdatedRow
    <3> QED
      BY <1>0, <2>4, <3>1, SameLedger DEF SweepMarks, TypeOK
  <2>5. CASE SweepStops(e)
    BY <1>0, <2>5, SameLedger, RequestsAssumption DEF SweepStops, TypeOK
  <2> QED
    BY <1>15, <2>2, <2>3, <2>4, <2>5 DEF SweepStep
<1> QED
  BY <1>1, <1>2, <1>3, <1>4, <1>5, <1>6, <1>7, <1>8, <1>9, <1>10, <1>11, <1>12, <1>13,
     <1>14, <1>15 DEF Next, HandlerStep

(* And they hold at first.                                                  *)
LEMMA RequestTypesInit == Init => TypeOK
<1>1. NoRow \in Row /\ New \in Handler
  BY RequestsAssumption DEF NoRow, Row, New, Handler, Usage
<1> QED
  BY <1>1, RequestsAssumption DEF Init, LedgerInit, TypeOK, LedgerTypeOK

(* Every row, reservation, handler and sweep has its type in every state.   *)
THEOREM RequestTypes == Spec => []TypeOK
BY RequestTypesInit, TypesStep, PTL DEF Spec

-----------------------------------------------------------------------------
(* A settled row holds no slot                                              *)

Free(r) == r \in DOMAIN reservations => ~reservations[r].inFlight

(* Neither the table nor the cron knows a request that has not begun.       *)
NewIsUnknown ==
  \A r \in Requests : At(r, "new") => rows[r] = NoRow /\ \A e \in sweeps : e.request # r

(* Whoever is about to record a settlement has freed the slot.              *)
MarkersAreFree ==
  /\ \A r \in Requests : At(r, "marking") => Free(r)
  /\ \A e \in sweeps : e.at = "marking" => Free(e.request)

SettledInv == TypeOK /\ NewIsUnknown /\ MarkersAreFree /\ SettledHoldsNothing

(* A slot is not taken up again but by an admission.                        *)
LEMMA FreeStaysFree ==
  ASSUME Shrinks, NEW r, Free(r) PROVE Free(r)'
BY DEF Shrinks, Free

(* A step of request r's handler, by what the invariant asks of it.         *)
LEMMA HandlerKeepsSettled ==
  ASSUME SettledInv, TypeOK', NEW r \in Requests, UNCHANGED sweeps,
         Shrinks \/ (At(r, "new") /\ Others(r)),
         \A q \in Requests \ {r} : handler'[q] = handler[q] /\ rows'[q] = rows[q],
         handler'[r].at # "new",
         handler'[r].at = "marking" => Free(r)',
         rows'[r].settled => rows[r].settled \/ Free(r)',
         Shrinks \/ ~rows'[r].settled
  PROVE  SettledInv'
<1>1. \A q \in Requests : q # r /\ Free(q) => Free(q)'
  BY DEF Shrinks, Others, Free
<1>2. Shrinks /\ Free(r) => Free(r)'
  BY FreeStaysFree
<1>3. NewIsUnknown'
  BY DEF SettledInv, NewIsUnknown, At
<1>4. MarkersAreFree'
  <2>1. ASSUME NEW q \in Requests, At(q, "marking")' PROVE Free(q)'
    BY <1>1, <2>1 DEF SettledInv, MarkersAreFree, At
  <2>2. ASSUME NEW e \in sweeps, e.at = "marking" PROVE Free(e.request)'
    <3>1. e.request \in Requests /\ Free(e.request)
      BY <2>2 DEF SettledInv, TypeOK, Sweep, MarkersAreFree
    <3>2. e.request = r => Shrinks
      BY DEF SettledInv, NewIsUnknown
    <3> QED
      BY <1>1, <1>2, <3>1, <3>2
  <2> QED
    BY <2>1, <2>2 DEF MarkersAreFree
<1>5. SettledHoldsNothing'
  <2>1. ASSUME NEW q \in Requests, rows'[q].settled PROVE Free(q)'
    <3>1. rows[q].settled => Free(q)
      BY DEF SettledInv, SettledHoldsNothing, Free
    <3> QED
      BY <1>1, <1>2, <2>1, <3>1
  <2> QED
    BY <2>1 DEF SettledHoldsNothing, Free
<1> QED
  BY <1>3, <1>4, <1>5 DEF SettledInv

(* A step of the cron.                                                      *)
LEMMA SweepKeepsSettled ==
  ASSUME SettledInv, TypeOK', UNCHANGED handler, Shrinks,
         \A r \in Requests : rows[r] = NoRow /\ rows'[r] # rows[r] =>
                             \E e \in sweeps : e.request = r,
         \A r \in Requests : rows'[r].settled => rows[r].settled \/ Free(r),
         \A e \in sweeps' : \/ rows[e.request] # NoRow
                           \/ \E d \in sweeps : d.request = e.request,
         \A e \in sweeps' : e.at = "marking" => e \in sweeps \/ Free(e.request)'
  PROVE  SettledInv'
<1>1. \A r : Free(r) => Free(r)'
  BY FreeStaysFree
<1>2. NewIsUnknown'
  BY DEF SettledInv, NewIsUnknown, At
<1>3. MarkersAreFree'
  BY <1>1 DEF SettledInv, MarkersAreFree, At
<1>4. SettledHoldsNothing'
  <2>1. ASSUME NEW r \in Requests, rows'[r].settled PROVE Free(r)'
    BY <1>1, <2>1 DEF SettledInv, SettledHoldsNothing, Free
  <2> QED
    BY <2>1 DEF SettledHoldsNothing, Free
<1> QED
  BY <1>2, <1>3, <1>4 DEF SettledInv

LEMMA SettledStep == SettledInv /\ [Next]_vars => SettledInv'
<1> SUFFICES ASSUME SettledInv, [Next]_vars PROVE SettledInv'
  OBVIOUS
<1>0. /\ TypeOK /\ TypeOK' /\ LedgerTypeOK /\ rows \in [Requests -> Row]
      /\ handler \in [Requests -> Handler] /\ sweeps \subseteq Sweep
  BY TypesStep DEF SettledInv, TypeOK
<1>a. \A r \in Requests : rows[r] \in Row
  BY <1>0
<1>1. CASE UNCHANGED vars
  BY <1>0, <1>1, SameLedger, SweepKeepsSettled DEF vars, SettledInv, NewIsUnknown,
     MarkersAreFree, SettledHoldsNothing, At, Free
<1>2. CASE Tick
  <2>1. Shrinks
    BY <1>0, <1>2, AgedLedger DEF Tick
  <2>2. /\ \A r \in Requests : rows[r] = NoRow => rows'[r] = rows[r]
        /\ \A r \in Requests : rows'[r].settled = rows[r].settled
    BY <1>2, <1>a DEF Tick, NoRow, Row
  <2>3. \A e \in sweeps' : e \in sweeps
    BY <1>2 DEF Tick
  <2> QED
    BY <1>0, <1>2, <2>1, <2>2, <2>3, SweepKeepsSettled DEF Tick
<1>3. ASSUME NEW r \in Requests, Admitted(r) PROVE SettledInv'
  <2>1. PICK estimate \in Estimates :
          Admit(r, estimate) /\ reserved' = [reserved EXCEPT ![r] = estimate]
    BY <1>3 DEF Admitted
  <2>2. Others(r)
    BY <1>0, <2>1, AdmittedLedger
  <2>3. /\ handler'[r].at \in {"admitted", "gone"}
        /\ \A q \in Requests \ {r} : handler'[q] = handler[q]
    BY <1>0, <1>3, HandlersMove DEF Admitted
  <2>4. At(r, "new") /\ UNCHANGED <<rows, sweeps>>
    BY <1>3 DEF Admitted
  <2>5. ~rows[r].settled
    BY <2>4 DEF SettledInv, NewIsUnknown, NoRow
  <2> QED
    BY <1>0, <2>2, <2>3, <2>4, <2>5, HandlerKeepsSettled
<1>4. ASSUME NEW r \in Requests, Refused(r) PROVE SettledInv'
  <2>1. Shrinks
    BY <1>0, <1>4, RefusedLedger DEF Refused
  <2> QED
    BY <1>0, <1>4, <2>1, HandlersMove, HandlerKeepsSettled DEF Refused
<1>5. ASSUME NEW r \in Requests, Inserts(r) PROVE SettledInv'
  <2>1. /\ rows'[r].settled = rows[r].settled
        /\ \A q \in Requests \ {r} : rows'[q] = rows[q]
    BY <1>0, <1>5, <1>a DEF Inserts, Row
  <2> QED
    BY <1>0, <1>5, <2>1, SameLedger, HandlersMove, HandlerKeepsSettled DEF Inserts
<1>6. ASSUME NEW r \in Requests, InsertFails(r) PROVE SettledInv'
  <2>1. Shrinks
    BY <1>0, <1>6, MaybeReleasedLedger DEF InsertFails
  <2> QED
    BY <1>0, <1>6, <2>1, HandlersMove, HandlerKeepsSettled DEF InsertFails
<1>7. ASSUME NEW r \in Requests, Fails(r) PROVE SettledInv'
  <2>1. /\ rows'[r].settled = rows[r].settled
        /\ \A q \in Requests \ {r} : rows'[q] = rows[q]
    BY <1>0, <1>7, <1>a, FinalizedRow, WrittenRows DEF Fails, Usage
  <2>2. /\ handler'[r].at = "settling"
        /\ \A q \in Requests \ {r} : handler'[q] = handler[q]
    BY <1>0, <1>7 DEF Fails, Handler
  <2> QED
    BY <1>0, <1>7, <2>1, <2>2, SameLedger, HandlerKeepsSettled DEF Fails
<1>8. ASSUME NEW r \in Requests, Streams(r) PROVE SettledInv'
  <2>0. [rows[r] EXCEPT !.status = "streaming", !.age = 0].settled = rows[r].settled
    BY <1>a DEF Row
  <2>1. /\ rows'[r].settled = rows[r].settled
        /\ \A q \in Requests \ {r} : rows'[q] = rows[q]
    BY <1>0, <1>8, <1>a, <2>0, UpdatedRow, WrittenRows DEF Streams
  <2> QED
    BY <1>0, <1>8, <2>1, SameLedger, HandlersMove, HandlerKeepsSettled DEF Streams
<1>9. ASSUME NEW r \in Requests, Ends(r) PROVE SettledInv'
  <2>1. PICK used \in Usages : \E read \in {used, Unknown} :
          /\ Written(r, Finalized(rows[r], read))
          /\ handler' = [handler EXCEPT ![r].at = "settling", ![r].used = read,
                                       ![r].marks = TRUE]
    BY <1>9 DEF Ends
  <2>2. used \in Usage /\ Unknown \in Usage
    BY RequestsAssumption DEF Usage
  <2>3. PICK read \in Usage :
          /\ Written(r, Finalized(rows[r], read))
          /\ handler' = [handler EXCEPT ![r].at = "settling", ![r].used = read,
                                       ![r].marks = TRUE]
    BY <2>1, <2>2
  <2>4. /\ rows'[r].settled = rows[r].settled
        /\ \A q \in Requests \ {r} : rows'[q] = rows[q]
    BY <1>0, <1>a, <2>3, FinalizedRow, WrittenRows
  <2>5. /\ handler'[r].at = "settling"
        /\ \A q \in Requests \ {r} : handler'[q] = handler[q]
    BY <1>0, <2>3 DEF Handler
  <2> QED
    BY <1>0, <1>9, <2>4, <2>5, SameLedger, HandlerKeepsSettled DEF Ends
<1>10. ASSUME NEW r \in Requests, Called(r) PROVE SettledInv'
  <2>1. /\ rows'[r].settled = rows[r].settled
        /\ \A q \in Requests \ {r} : rows'[q] = rows[q]
    BY <1>0, <1>10, <1>a, FinalizedRow DEF Called, Usage
  <2> QED
    BY <1>0, <1>10, <2>1, SameLedger, HandlersMove, HandlerKeepsSettled DEF Called
<1>11. ASSUME NEW r \in Requests, Settles(r) PROVE SettledInv'
  <2>1. handler[r].used \in Usage
    BY <1>0 DEF Handler
  <2>2. Shrinks /\ Free(r)'
    BY <1>0, <1>11, <2>1, FreedLedger DEF Settles, Free
  <2> QED
    BY <1>0, <1>11, <2>2, HandlersMove, HandlerKeepsSettled DEF Settles
<1>12. ASSUME NEW r \in Requests, Marks(r) PROVE SettledInv'
  <2>1. Shrinks /\ Free(r)'
    BY <1>0, <1>12, SameLedger, FreeStaysFree DEF Marks, SettledInv, MarkersAreFree
  <2>2. \A q \in Requests \ {r} : rows'[q] = rows[q]
    BY <1>0, <1>12 DEF Marks
  <2> QED
    BY <1>0, <1>12, <2>1, <2>2, HandlersMove, HandlerKeepsSettled DEF Marks
<1>13. ASSUME NEW r \in Requests, Dies(r) PROVE SettledInv'
  BY <1>0, <1>13, SameLedger, HandlersMove, HandlerKeepsSettled DEF Dies
<1>14. ASSUME NEW r \in Requests, SweepReads(r) PROVE SettledInv'
  <2>1. rows[r] # NoRow
    BY <1>14 DEF SweepReads, Due, NoRow
  <2>2. \A e \in sweeps' \ sweeps : e.request = r /\ e.at # "marking"
    BY <1>14 DEF SweepReads
  <2> QED
    BY <1>0, <1>14, <2>1, <2>2, SameLedger, SweepKeepsSettled DEF SweepReads
<1>15. ASSUME NEW e \in sweeps, SweepStep(e) \/ SweepStops(e) PROVE SettledInv'
  <2>0. e \in Sweep /\ e.request \in Requests /\ e.used \in Usage
    BY <1>0 DEF Sweep
  <2>1. \A at : /\ [e EXCEPT !.at = at].request = e.request
                /\ [e EXCEPT !.at = at].at = at
    BY <2>0 DEF Sweep
  <2>2. CASE SweepFinalizes(e)
    <3>1. /\ \A r \in Requests : rows'[r].settled = rows[r].settled
          /\ \A r \in Requests \ {e.request} : rows'[r] = rows[r]
      <4>1. /\ Finalized(rows[e.request], Unknown) \in Row
            /\ Finalized(rows[e.request], Unknown).settled = rows[e.request].settled
        BY <1>a, <2>0, FinalizedRow DEF Usage
      <4>2. /\ rows'[e.request] \in {rows[e.request], Finalized(rows[e.request], Unknown)}
            /\ \A r \in Requests \ {e.request} : rows'[r] = rows[r]
        BY <1>0, <2>0, <2>2, <4>1, WrittenRows DEF SweepFinalizes
      <4>3. rows'[e.request].settled = rows[e.request].settled
        BY <4>1, <4>2
      <4> QED
        BY <4>2, <4>3
    <3>2. \A d \in sweeps' : d \in sweeps \/ (d.request = e.request /\ d.at = "settling")
      BY <2>1, <2>2 DEF SweepFinalizes, Onward
    <3> QED
      BY <1>0, <2>2, <3>1, <3>2, SameLedger, SweepKeepsSettled DEF SweepFinalizes
  <2>3. CASE SweepSettles(e)
    <3>1. Shrinks /\ Free(e.request)'
      BY <1>0, <2>0, <2>3, FreedLedger DEF SweepSettles, Free
    <3>2. \A d \in sweeps' : d \in sweeps \/ d.request = e.request
      BY <2>1, <2>3 DEF SweepSettles, Onward
    <3> QED
      BY <1>0, <2>3, <3>1, <3>2, SweepKeepsSettled DEF SweepSettles
  <2>4. CASE SweepMarks(e)
    <3>1. Free(e.request)
      BY <2>4 DEF SweepMarks, SettledInv, MarkersAreFree
    <3>2. \A r \in Requests \ {e.request} : rows'[r] = rows[r]
      BY <1>0, <2>4 DEF SweepMarks
    <3>3. /\ \A r \in Requests : rows'[r] # rows[r] => r = e.request
          /\ \A r \in Requests : rows'[r].settled => rows[r].settled \/ Free(r)
      <4>1. ASSUME NEW r \in Requests, rows'[r] # rows[r] PROVE r = e.request
        BY <3>2, <4>1
      <4>2. ASSUME NEW r \in Requests, rows'[r].settled PROVE rows[r].settled \/ Free(r)
        <5>1. CASE r = e.request
          BY <3>1, <5>1
        <5>2. CASE r # e.request
          BY <3>2, <4>2, <5>2
        <5> QED
          BY <5>1, <5>2
      <4> QED
        BY <4>1, <4>2
    <3>4. \A d \in sweeps' : d \in sweeps
      BY <2>4 DEF SweepMarks
    <3>5. Shrinks /\ UNCHANGED handler
      BY <1>0, <2>4, SameLedger DEF SweepMarks
    <3> QED
      BY <1>0, <3>3, <3>4, <3>5, SweepKeepsSettled
  <2>5. CASE SweepStops(e)
    BY <1>0, <2>5, SameLedger, SweepKeepsSettled DEF SweepStops
  <2> QED
    BY <1>15, <2>2, <2>3, <2>4, <2>5 DEF SweepStep
<1> QED
  BY <1>1, <1>2, <1>3, <1>4, <1>5, <1>6, <1>7, <1>8, <1>9, <1>10, <1>11, <1>12, <1>13,
     <1>14, <1>15 DEF Next, HandlerStep

(* A row that says its admission is settled holds no slot, whichever of the *)
(* handler and the cron recorded it, and whoever died in between.           *)
THEOREM SettledRowsAreFree == Spec => []SettledHoldsNothing
<1>1. Init => TypeOK
  BY RequestTypesInit
<1>2. Init => NewIsUnknown /\ MarkersAreFree /\ SettledHoldsNothing
  BY DEF Init, LedgerInit, NewIsUnknown, MarkersAreFree, SettledHoldsNothing, At, New, NoRow
<1>3. SettledInv => SettledHoldsNothing
  BY DEF SettledInv
<1> QED
  BY <1>1, <1>2, <1>3, SettledStep, PTL DEF Spec, SettledInv

-----------------------------------------------------------------------------
(* Requests at work keep to the limits                                      *)

WithinLimits ==
  /\ Cardinality(InFlight) <= GlobalInFlight
  /\ \A r \in Requests : Cardinality(OfUid(r, InFlight)) <= UidInFlight

(* A request at work holds its slot, its row is open and not older than its *)
(* reservation, and the cron is not about to settle it.                     *)
Protected(r) ==
  r \in Working =>
    /\ reservations[r].inFlight
    /\ ~rows[r].finalized /\ rows[r].age <= reservations[r].age
    /\ \A e \in sweeps : e.request # r

(* Nor does either know a request that has not written its row.             *)
AdmittedIsUnknown ==
  \A r \in Requests :
    At(r, "admitted") => rows[r] = NoRow /\ \A e \in sweeps : e.request # r

WorkingInv ==
  /\ TypeOK /\ NewIsUnknown /\ AdmittedIsUnknown /\ WithinLimits
  /\ \A r \in Requests : Protected(r)

(* Who is in flight, from the ledger.                                       *)
LEMMA InFlightIs ==
  ASSUME LedgerTypeOK
  PROVE  /\ InFlight = {r \in DOMAIN reservations : /\ reservations[r].age < Window
                                                  /\ reservations[r].inFlight}
         /\ InFlight \subseteq Requests /\ IsFiniteSet(InFlight)
<1>1. InFlight = {r \in DOMAIN reservations : /\ reservations[r].age < Window
                                             /\ reservations[r].inFlight}
  BY RecentLedger DEF InFlight
<1>2. InFlight \subseteq Requests
  BY <1>1 DEF LedgerTypeOK
<1> QED
  BY <1>1, <1>2, AdmissionAssumption, FS_Subset

LEMMA ShrinkingKeepsLimits ==
  ASSUME LedgerTypeOK, LedgerTypeOK', Shrinks, WithinLimits
  PROVE  WithinLimits'
<1>1. /\ \A r \in DOMAIN reservations : reservations[r].age \in Nat
      /\ \A r \in DOMAIN reservations' : reservations'[r].age \in Nat
  BY DEF LedgerTypeOK, Reservation
<1>2. /\ InFlight' = {r \in DOMAIN reservations' : /\ reservations'[r].age < Window
                                                   /\ reservations'[r].inFlight}
  BY DEF InFlight, Recent, Restrict
<1>3. InFlight' \subseteq InFlight
  <2> SUFFICES ASSUME NEW r \in InFlight' PROVE r \in InFlight
    OBVIOUS
  <2>1. r \in DOMAIN reservations /\ reservations[r].inFlight
    BY <1>2 DEF Shrinks
  <2>2. reservations[r].age < Window
    BY <1>1, <1>2, <2>1, AdmissionAssumption DEF Shrinks
  <2> QED
    BY <2>1, <2>2, InFlightIs
<1>4. IsFiniteSet(InFlight)
  BY InFlightIs
<1>5. Cardinality(InFlight') <= GlobalInFlight
  <2>1. Cardinality(InFlight') <= Cardinality(InFlight)
    BY <1>3, <1>4, FS_Subset
  <2>2. IsFiniteSet(InFlight')
    BY <1>3, <1>4, FS_Subset
  <2> QED
    BY <2>2, <1>4, <2>1, AdmissionAssumption, FS_CardinalityType DEF WithinLimits
<1>6. ASSUME NEW r \in Requests PROVE Cardinality(OfUid(r, InFlight')) <= UidInFlight
  <2>1. /\ OfUid(r, InFlight') \subseteq OfUid(r, InFlight)
        /\ OfUid(r, InFlight) \subseteq InFlight
    BY <1>3 DEF OfUid
  <2>2. IsFiniteSet(OfUid(r, InFlight))
    BY <1>4, <2>1, FS_Subset
  <2>3. /\ IsFiniteSet(OfUid(r, InFlight'))
        /\ Cardinality(OfUid(r, InFlight')) <= Cardinality(OfUid(r, InFlight))
    BY <2>1, <2>2, FS_Subset
  <2> QED
    BY <2>2, <2>3, AdmissionAssumption, FS_CardinalityType DEF WithinLimits
<1> QED
  BY <1>5, <1>6 DEF WithinLimits, OfUid

LEMMA OneMore ==
  ASSUME NEW S, IsFiniteSet(S), NEW x
  PROVE  /\ IsFiniteSet(S \cup {x}) /\ Cardinality(S \cup {x}) \in Nat
         /\ Cardinality(S) \in Nat
         /\ Cardinality(S \cup {x}) <= Cardinality(S) + 1
<1>1. Cardinality(S) \in Nat
  BY FS_CardinalityType
<1>2. /\ IsFiniteSet(S \cup {x})
      /\ \/ Cardinality(S \cup {x}) = Cardinality(S)
         \/ Cardinality(S \cup {x}) = Cardinality(S) + 1
  BY FS_AddElement
<1> QED
  BY <1>1, <1>2

LEMMA AdmissionKeepsLimits ==
  ASSUME LedgerTypeOK, NEW r \in Requests, NEW estimate \in Estimates,
         Admit(r, estimate), WithinLimits
  PROVE  WithinLimits'
<1>1. InFlight' = InFlight \cup {r}
  <2>1. InFlight' = {q \in DOMAIN reservations' : /\ reservations'[q].age < Window
                                                 /\ reservations'[q].inFlight}
    BY DEF InFlight, Recent, Restrict
  <2>2. /\ DOMAIN reservations' = DOMAIN Recent \cup {r}
        /\ reservations'[r] = [age |-> 0, charge |-> estimate, inFlight |-> TRUE]
        /\ \A q \in DOMAIN Recent : q # r => reservations'[q] = Recent[q]
        /\ r \notin DOMAIN Recent
    BY DEF Admit
  <2>3. \A q \in DOMAIN Recent : Recent[q].age < Window
    BY RecentLedger
  <2> QED
    BY <2>1, <2>2, <2>3, AdmissionAssumption DEF InFlight
<1>2. /\ IsFiniteSet(InFlight) /\ IsFiniteSet(InFlight')
      /\ Cardinality(InFlight) \in Nat
      /\ Cardinality(InFlight') <= Cardinality(InFlight) + 1
  BY <1>1, InFlightIs, OneMore
<1>3. /\ ~(Cardinality(InFlight) >= GlobalInFlight)
      /\ ~(Cardinality(OfUid(r, InFlight)) >= UidInFlight)
  BY DEF Admit, Exceeds
<1>4. ASSUME NEW q \in Requests PROVE Cardinality(OfUid(q, InFlight')) <= UidInFlight
  <2>1. IsFiniteSet(OfUid(q, InFlight)) /\ Cardinality(OfUid(q, InFlight)) \in Nat
    BY <1>2, FS_Subset, FS_CardinalityType DEF OfUid
  <2>2. CASE Uid[q] = Uid[r]
    <3>1. /\ OfUid(q, InFlight') = OfUid(q, InFlight) \cup {r}
          /\ OfUid(q, InFlight) = OfUid(r, InFlight)
      BY <1>1, <2>2 DEF OfUid
    <3>2. /\ Cardinality(OfUid(q, InFlight')) \in Nat
          /\ Cardinality(OfUid(q, InFlight')) <= Cardinality(OfUid(q, InFlight)) + 1
      BY <2>1, <3>1, OneMore
    <3> QED
      BY <1>3, <2>1, <3>1, <3>2, AdmissionAssumption
  <2>3. CASE Uid[q] # Uid[r]
    <3>1. OfUid(q, InFlight') = OfUid(q, InFlight)
      BY <1>1, <2>3 DEF OfUid
    <3> QED
      BY <3>1 DEF WithinLimits
  <2> QED
    BY <2>2, <2>3
<1>5. Cardinality(InFlight') <= GlobalInFlight
  BY <1>2, <1>3, AdmissionAssumption, FS_CardinalityType
<1> QED
  BY <1>4, <1>5 DEF WithinLimits, OfUid

(* A step of request r's handler, by what the invariant asks of it.         *)
LEMMA HandlerKeepsWorking ==
  ASSUME WorkingInv, TypeOK', NEW r \in Requests, UNCHANGED sweeps, Others(r),
         WithinLimits',
         \A q \in Requests \ {r} : handler'[q] = handler[q] /\ rows'[q] = rows[q],
         handler'[r].at # "new",
         handler'[r].at = "admitted" => At(r, "new") /\ UNCHANGED rows,
         Protected(r)'
  PROVE  WorkingInv'
<1>1. NewIsUnknown' /\ AdmittedIsUnknown'
  BY DEF WorkingInv, NewIsUnknown, AdmittedIsUnknown, At
<1>2. ASSUME NEW q \in Requests PROVE Protected(q)'
  <2>1. CASE q # r /\ q \in Working'
    <3>1. /\ q \in Working /\ reservations'[q] = reservations[q]
      BY <2>1 DEF Working, Others
    <3> QED
      BY <2>1, <3>1 DEF WorkingInv, Protected
  <2> QED
    BY <2>1 DEF Protected
<1> QED
  BY <1>1, <1>2 DEF WorkingInv

(* A step of the cron about request r.                                      *)
LEMMA SweepKeepsWorking ==
  ASSUME WorkingInv, TypeOK', NEW r \in Requests, UNCHANGED handler,
         Shrinks, Others(r),
         ~At(r, "new") /\ ~At(r, "admitted") /\ r \notin Working,
         \A q \in Requests \ {r} : rows'[q] = rows[q],
         \A e \in sweeps' : e \in sweeps \/ e.request = r
  PROVE  WorkingInv'
<1>1. NewIsUnknown' /\ AdmittedIsUnknown'
  BY DEF WorkingInv, NewIsUnknown, AdmittedIsUnknown, At
<1>2. WithinLimits'
  BY ShrinkingKeepsLimits DEF WorkingInv, TypeOK
<1>3. ASSUME NEW q \in Requests, q \in Working' PROVE q \in Working
  <2>1. /\ reservations'[q].age < Stale /\ reservations'[q].age >= reservations[q].age
        /\ q \in DOMAIN reservations
        /\ handler[q].at \in {"admitted", "asking", "streaming"}
    BY <1>3 DEF Working, Shrinks
  <2>2. reservations[q].age \in Nat /\ reservations'[q].age \in Nat
    BY <1>3, <2>1 DEF WorkingInv, TypeOK, LedgerTypeOK, Reservation, Working
  <2> QED
    BY <2>1, <2>2, RequestsAssumption DEF Working
<1>4. ASSUME NEW q \in Requests PROVE Protected(q)'
  <2>1. CASE q \in Working'
    <3>1. q \in Working /\ q # r
      BY <1>3, <2>1
    <3>2. reservations'[q] = reservations[q]
      BY <2>1, <3>1 DEF Others, Working
    <3>3. rows'[q] = rows[q] /\ \A e \in sweeps' : e.request = q => e \in sweeps
      BY <3>1
    <3> QED
      BY <3>1, <3>2, <3>3 DEF WorkingInv, Protected
  <2> QED
    BY <2>1 DEF Protected
<1> QED
  BY <1>1, <1>2, <1>4 DEF WorkingInv

LEMMA WorkingStep ==
  ASSUME Stale <= Window
  PROVE  WorkingInv /\ [Next]_vars => WorkingInv'
<1> SUFFICES ASSUME WorkingInv, [Next]_vars PROVE WorkingInv'
  OBVIOUS
<1>0. /\ TypeOK /\ TypeOK' /\ LedgerTypeOK /\ LedgerTypeOK' /\ WithinLimits
      /\ rows \in [Requests -> Row] /\ handler \in [Requests -> Handler]
      /\ sweeps \subseteq Sweep
  BY TypesStep DEF WorkingInv, TypeOK
<1>a. \A r \in Requests : rows[r] \in Row
  BY <1>0
<1>b. (UNCHANGED reservations) => /\ WithinLimits' /\ Shrinks
                                  /\ \A r \in Requests : Others(r)
  BY <1>0, SameLedger, ShrinkingKeepsLimits
<1>1. CASE UNCHANGED vars
  BY <1>0, <1>1, <1>b DEF vars, WorkingInv, NewIsUnknown, AdmittedIsUnknown, At, Protected,
     Working
<1>2. CASE Tick
  <2>1. Shrinks /\ WithinLimits'
    BY <1>0, <1>2, AgedLedger, ShrinkingKeepsLimits DEF Tick
  <2>2. \A r \in Requests : rows[r] = NoRow => rows'[r] = rows[r]
    BY <1>2 DEF Tick, NoRow
  <2>3. NewIsUnknown' /\ AdmittedIsUnknown'
    BY <1>2, <2>2 DEF Tick, WorkingInv, NewIsUnknown, AdmittedIsUnknown, At
  <2>4. ASSUME NEW r \in Requests, r \in Working' PROVE Protected(r)'
    <3>1. /\ r \in DOMAIN reservations' /\ reservations'[r].age < Stale
          /\ handler[r].at \in {"admitted", "asking", "streaming"}
      BY <1>2, <2>4 DEF Working, Tick
    <3>2. /\ r \in DOMAIN reservations
          /\ reservations'[r].age \in Nat /\ reservations[r].age \in Nat
      BY <1>0, <2>1, <3>1 DEF Shrinks, LedgerTypeOK, Reservation
    <3>3. /\ reservations'[r].age = reservations[r].age + 1
      BY <1>0, <1>2, <3>1, <3>2, AgedLedger, AdmissionAssumption, RequestsAssumption DEF Tick
    <3>4. r \in Working
      BY <3>1, <3>2, <3>3, RequestsAssumption DEF Working
    <3>5. reservations'[r].inFlight = reservations[r].inFlight
      <4>1. reservations[r] \in Reservation
        BY <1>0, <3>2 DEF LedgerTypeOK
      <4> QED
        BY <1>2, <3>2, <4>1 DEF Tick, Aged, Reservation
    <3>6. /\ rows'[r].finalized = rows[r].finalized
          /\ rows'[r].age <= rows[r].age + 1
      <4>1. rows[r] \in Row
        BY <1>a
      <4>2. CASE rows'[r] = rows[r]
        BY <4>1, <4>2 DEF Row
      <4>3. CASE rows'[r] = [rows[r] EXCEPT !.age = Upto(rows[r].age, Stale)]
        <5>1. rows[r].age \in Nat /\ rows[r].age <= Stale
          BY <4>1, RequestsAssumption DEF Row
        <5>2. Upto(rows[r].age, Stale) <= rows[r].age + 1
          BY <5>1, RequestsAssumption DEF Upto
        <5>3. rows'[r].age = Upto(rows[r].age, Stale) /\ rows'[r].finalized = rows[r].finalized
          BY <4>1, <4>3 DEF Row
        <5> QED
          BY <5>2, <5>3
      <4> QED
        BY <1>2, <4>2, <4>3 DEF Tick
    <3>7. rows'[r].age \in Nat /\ rows[r].age \in Nat
      BY <1>0, RequestsAssumption DEF TypeOK, Row
    <3> QED
      BY <1>2, <2>4, <3>2, <3>3, <3>4, <3>5, <3>6, <3>7 DEF WorkingInv, Protected, Tick
  <2> QED
    BY <1>0, <2>1, <2>3, <2>4 DEF WorkingInv, Protected
<1>3. ASSUME NEW r \in Requests, Admitted(r) PROVE WorkingInv'
  <2>1. PICK estimate \in Estimates :
          Admit(r, estimate) /\ reserved' = [reserved EXCEPT ![r] = estimate]
    BY <1>3 DEF Admitted
  <2>2. /\ Others(r) /\ WithinLimits'
        /\ reservations'[r] = [age |-> 0, charge |-> estimate, inFlight |-> TRUE]
    BY <1>0, <2>1, AdmittedLedger, AdmissionKeepsLimits
  <2>3. /\ handler'[r].at \in {"admitted", "gone"}
        /\ \A q \in Requests \ {r} : handler'[q] = handler[q]
    BY <1>0, <1>3, HandlersMove DEF Admitted
  <2>4. At(r, "new") /\ UNCHANGED <<rows, sweeps>>
    BY <1>3 DEF Admitted
  <2>5. rows[r] = NoRow /\ \A e \in sweeps : e.request # r
    BY <2>4 DEF WorkingInv, NewIsUnknown
  <2>6. Protected(r)'
    BY <2>2, <2>4, <2>5 DEF Protected, NoRow
  <2> QED
    BY <1>0, <2>2, <2>3, <2>4, <2>6, HandlerKeepsWorking
<1>4. ASSUME NEW r \in Requests, Refused(r) PROVE WorkingInv'
  <2>1. Shrinks /\ Others(r)
    BY <1>0, <1>4, RefusedLedger DEF Refused
  <2>2. Protected(r)'
    BY <1>0, <1>4, HandlersMove DEF Refused, Protected, Working
  <2> QED
    BY <1>0, <1>4, <2>1, <2>2, HandlersMove, ShrinkingKeepsLimits, HandlerKeepsWorking
    DEF Refused
<1>5. ASSUME NEW r \in Requests, Inserts(r) PROVE WorkingInv'
  <2>1. /\ rows'[r].finalized = rows[r].finalized /\ rows'[r].age = rows[r].age
        /\ \A q \in Requests \ {r} : rows'[q] = rows[q]
    BY <1>0, <1>5, <1>a DEF Inserts, Row
  <2>2. r \in Working' => r \in Working
    BY <1>0, <1>5, HandlersMove DEF Inserts, Working, At
  <2>3. Protected(r)'
    BY <1>5, <2>1, <2>2 DEF Inserts, WorkingInv, Protected
  <2> QED
    BY <1>0, <1>5, <1>b, <2>1, <2>3, HandlersMove, HandlerKeepsWorking DEF Inserts
<1>6. ASSUME NEW r \in Requests, InsertFails(r) PROVE WorkingInv'
  <2>1. Shrinks /\ Others(r)
    BY <1>0, <1>6, MaybeReleasedLedger DEF InsertFails
  <2>2. Protected(r)'
    BY <1>0, <1>6, HandlersMove DEF InsertFails, Protected, Working
  <2> QED
    BY <1>0, <1>6, <2>1, <2>2, HandlersMove, ShrinkingKeepsLimits, HandlerKeepsWorking
    DEF InsertFails
<1>7. ASSUME NEW r \in Requests, Fails(r) PROVE WorkingInv'
  <2>1. \A q \in Requests \ {r} : rows'[q] = rows[q]
    BY <1>0, <1>7, <1>a, FinalizedRow, WrittenRows DEF Fails, Usage
  <2>2. /\ handler'[r].at = "settling"
        /\ \A q \in Requests \ {r} : handler'[q] = handler[q]
    BY <1>0, <1>7 DEF Fails, Handler
  <2>3. Protected(r)'
    BY <2>2 DEF Protected, Working
  <2> QED
    BY <1>0, <1>7, <1>b, <2>1, <2>2, <2>3, HandlerKeepsWorking DEF Fails
<1>8. ASSUME NEW r \in Requests, Streams(r) PROVE WorkingInv'
  <2>0. /\ [rows[r] EXCEPT !.status = "streaming", !.age = 0].finalized = rows[r].finalized
        /\ [rows[r] EXCEPT !.status = "streaming", !.age = 0].age = 0
    BY <1>a DEF Row
  <2>1. /\ rows'[r].finalized = rows[r].finalized /\ rows'[r].age \in {rows[r].age, 0}
        /\ \A q \in Requests \ {r} : rows'[q] = rows[q]
    BY <1>0, <1>8, <1>a, <2>0, UpdatedRow, WrittenRows DEF Streams
  <2>2. r \in Working' => r \in Working
    BY <1>0, <1>8, HandlersMove DEF Streams, Working, At
  <2>3. r \in Working => reservations[r].age \in Nat
    BY <1>0 DEF Working, LedgerTypeOK, Reservation
  <2>4. Protected(r)'
    BY <1>8, <2>1, <2>2, <2>3 DEF Streams, WorkingInv, Protected
  <2> QED
    BY <1>0, <1>8, <1>b, <2>1, <2>4, HandlersMove, HandlerKeepsWorking DEF Streams
<1>9. ASSUME NEW r \in Requests, Ends(r) PROVE WorkingInv'
  <2>1. PICK used \in Usages : \E read \in {used, Unknown} :
          /\ Written(r, Finalized(rows[r], read))
          /\ handler' = [handler EXCEPT ![r].at = "settling", ![r].used = read,
                                       ![r].marks = TRUE]
    BY <1>9 DEF Ends
  <2>2. used \in Usage /\ Unknown \in Usage
    BY RequestsAssumption DEF Usage
  <2>3. PICK read \in Usage :
          /\ Written(r, Finalized(rows[r], read))
          /\ handler' = [handler EXCEPT ![r].at = "settling", ![r].used = read,
                                       ![r].marks = TRUE]
    BY <2>1, <2>2
  <2>4. \A q \in Requests \ {r} : rows'[q] = rows[q]
    BY <1>0, <1>a, <2>3, FinalizedRow, WrittenRows
  <2>5. /\ handler'[r].at = "settling"
        /\ \A q \in Requests \ {r} : handler'[q] = handler[q]
    BY <1>0, <2>3 DEF Handler
  <2>6. Protected(r)'
    BY <2>5 DEF Protected, Working
  <2> QED
    BY <1>0, <1>9, <1>b, <2>4, <2>5, <2>6, HandlerKeepsWorking DEF Ends
<1>10. ASSUME NEW r \in Requests, Called(r) PROVE WorkingInv'
  <2>1. \A q \in Requests \ {r} : rows'[q] = rows[q]
    BY <1>0, <1>10 DEF Called
  <2>2. Protected(r)'
    BY <1>0, <1>10, HandlersMove DEF Called, Protected, Working
  <2> QED
    BY <1>0, <1>10, <1>b, <2>1, <2>2, HandlersMove, HandlerKeepsWorking DEF Called
<1>11. ASSUME NEW r \in Requests, Settles(r) PROVE WorkingInv'
  <2>1. handler[r].used \in Usage
    BY <1>0 DEF Handler
  <2>2. Shrinks /\ Others(r)
    BY <1>0, <1>11, <2>1, FreedLedger DEF Settles
  <2>3. Protected(r)'
    BY <1>0, <1>11, HandlersMove DEF Settles, Protected, Working
  <2> QED
    BY <1>0, <1>11, <2>2, <2>3, HandlersMove, ShrinkingKeepsLimits, HandlerKeepsWorking
    DEF Settles
<1>12. ASSUME NEW r \in Requests, Marks(r) PROVE WorkingInv'
  <2>1. \A q \in Requests \ {r} : rows'[q] = rows[q]
    BY <1>0, <1>12 DEF Marks
  <2>2. Protected(r)'
    BY <1>0, <1>12, HandlersMove DEF Marks, Protected, Working
  <2> QED
    BY <1>0, <1>12, <1>b, <2>1, <2>2, HandlersMove, HandlerKeepsWorking DEF Marks
<1>13. ASSUME NEW r \in Requests, Dies(r) PROVE WorkingInv'
  <2>1. Protected(r)'
    BY <1>0, <1>13, HandlersMove DEF Dies, Protected, Working
  <2> QED
    BY <1>0, <1>13, <1>b, <2>1, HandlersMove, HandlerKeepsWorking DEF Dies
<1>14. ASSUME NEW r \in Requests, SweepReads(r) PROVE WorkingInv'
  <2>1. rows[r] # NoRow
    BY <1>14 DEF SweepReads, Due, NoRow
  <2>2. \A e \in sweeps' : e \in sweeps \/ e.request = r
    BY <1>14 DEF SweepReads
  <2>3. r \notin Working
    <3>1. ASSUME r \in Working PROVE FALSE
      <4>1. ~rows[r].finalized /\ rows[r].age <= reservations[r].age
        BY <3>1 DEF WorkingInv, Protected
      <4>2. rows[r].age = Stale
        BY <1>14, <4>1 DEF SweepReads, Due
      <4>3. reservations[r].age < Stale /\ reservations[r].age \in Nat
        BY <1>0, <3>1 DEF Working, LedgerTypeOK, Reservation
      <4> QED
        BY <4>1, <4>2, <4>3, RequestsAssumption
    <3> QED
      BY <3>1
  <2>4. ~At(r, "new") /\ ~At(r, "admitted")
    BY <2>1 DEF WorkingInv, NewIsUnknown, AdmittedIsUnknown
  <2> QED
    BY <1>0, <1>14, <1>b, <2>2, <2>3, <2>4, SweepKeepsWorking DEF SweepReads
<1>15. ASSUME NEW e \in sweeps, SweepStep(e) \/ SweepStops(e) PROVE WorkingInv'
  <2>0. e \in Sweep /\ e.request \in Requests /\ e.used \in Usage
    BY <1>0 DEF Sweep
  <2>1. \A at : [e EXCEPT !.at = at].request = e.request
    BY <2>0 DEF Sweep
  <2>2. \A d \in sweeps' : d \in sweeps \/ d.request = e.request
    <3>1. \/ Onward(e, "settling") \/ Onward(e, "marking")
          \/ sweeps' = sweeps \ {e}
      BY <1>15 DEF SweepStep, SweepFinalizes, SweepSettles, SweepMarks, SweepStops
    <3>2. \A at : Onward(e, at) => \A d \in sweeps' : d \in sweeps \/ d = [e EXCEPT !.at = at]
      BY DEF Onward
    <3>3. ASSUME NEW at, Onward(e, at), NEW d \in sweeps'
          PROVE  d \in sweeps \/ d.request = e.request
      BY <2>1, <3>2, <3>3
    <3>4. CASE sweeps' = sweeps \ {e}
      BY <3>4
    <3> QED
      BY <3>1, <3>3, <3>4
  <2>3. ~At(e.request, "new") /\ ~At(e.request, "admitted") /\ e.request \notin Working
    BY <2>0 DEF WorkingInv, NewIsUnknown, AdmittedIsUnknown, Protected
  <2>4. Shrinks /\ Others(e.request)
    <3>1. UNCHANGED reservations \/ reservations' = Freed(e.request, e.used)
      BY <1>15 DEF SweepStep, SweepFinalizes, SweepSettles, SweepMarks, SweepStops
    <3> QED
      BY <1>0, <1>b, <2>0, <3>1, FreedLedger
  <2>5. ASSUME NEW r \in Requests \ {e.request} PROVE rows'[r] = rows[r]
    BY <1>15, <1>0 DEF SweepStep, SweepFinalizes, SweepSettles, SweepMarks, SweepStops, Written
  <2>6. UNCHANGED handler
    BY <1>15 DEF SweepStep, SweepFinalizes, SweepSettles, SweepMarks, SweepStops
  <2> QED
    BY <1>0, <2>0, <2>2, <2>3, <2>4, <2>5, <2>6, SweepKeepsWorking
<1> QED
  BY <1>1, <1>2, <1>3, <1>4, <1>5, <1>6, <1>7, <1>8, <1>9, <1>10, <1>11, <1>12, <1>13,
     <1>14, <1>15 DEF Next, HandlerStep

(* The limits hold at first, and the invariant gives the property.          *)
LEMMA WorkingInit == Init => WorkingInv
<1> SUFFICES ASSUME Init PROVE WorkingInv
  OBVIOUS
<1>1. TypeOK
  BY RequestTypesInit
<1>2. NewIsUnknown /\ AdmittedIsUnknown
  BY DEF Init, NewIsUnknown, AdmittedIsUnknown, At, New
<1>3. InFlight = {}
  BY <1>1, InFlightIs DEF Init, LedgerInit, TypeOK
<1>4. \A r \in Requests : OfUid(r, InFlight) = {}
  BY <1>3 DEF OfUid
<1>5. WithinLimits
  BY <1>3, <1>4, FS_EmptySet, AdmissionAssumption DEF WithinLimits
<1>6. \A r \in Requests : Protected(r)
  BY DEF Init, LedgerInit, Protected, Working
<1> QED
  BY <1>1, <1>2, <1>5, <1>6 DEF WorkingInv

LEMMA LimitsOfWorking ==
  ASSUME Stale <= Window PROVE WorkingInv => WorkingWithinLimits
<1> SUFFICES ASSUME WorkingInv PROVE WorkingWithinLimits
  OBVIOUS
<1>1. LedgerTypeOK /\ WithinLimits
  BY DEF WorkingInv, TypeOK
<1>2. ASSUME NEW r \in Working PROVE r \in InFlight
  <2>1. reservations[r].age \in Nat /\ r \in DOMAIN reservations /\ reservations[r].age < Stale
    BY <1>1 DEF Working, LedgerTypeOK, Reservation
  <2>2. reservations[r].inFlight
    BY DEF WorkingInv, Protected, Working
  <2> QED
    BY <1>1, <2>1, <2>2, InFlightIs, AdmissionAssumption, RequestsAssumption
<1>3. IsFiniteSet(InFlight)
  BY <1>1, InFlightIs
<1>4. Cardinality(Working) <= GlobalInFlight
  <2>1. IsFiniteSet(Working) /\ Cardinality(Working) <= Cardinality(InFlight)
    BY <1>2, <1>3, FS_Subset
  <2> QED
    BY <1>1, <1>3, <2>1, FS_CardinalityType, AdmissionAssumption DEF WithinLimits
<1>5. ASSUME NEW r \in Working PROVE Cardinality(OfUid(r, Working)) <= UidInFlight
  <2>1. /\ OfUid(r, Working) \subseteq OfUid(r, InFlight)
        /\ OfUid(r, InFlight) \subseteq InFlight
    BY <1>2 DEF OfUid
  <2>2. IsFiniteSet(OfUid(r, InFlight))
    BY <1>3, <2>1, FS_Subset
  <2>3. /\ IsFiniteSet(OfUid(r, Working))
        /\ Cardinality(OfUid(r, Working)) <= Cardinality(OfUid(r, InFlight))
    BY <2>1, <2>2, FS_Subset
  <2>4. Cardinality(OfUid(r, InFlight)) <= UidInFlight
    BY <1>1 DEF WithinLimits, Working
  <2> QED
    BY <2>2, <2>3, <2>4, FS_CardinalityType, AdmissionAssumption
<1> QED
  BY <1>4, <1>5 DEF WorkingWithinLimits

(* Requests at work keep to the limits in flight as long as the cron may    *)
(* not call them stale, provided that it waits no longer than the window    *)
(* after which the ledger forgets them.                                     *)
THEOREM WorkingKeepsToTheLimits ==
  ASSUME Stale <= Window
  PROVE  Spec => []WorkingWithinLimits
BY WorkingInit, WorkingStep, LimitsOfWorking, PTL DEF Spec

-----------------------------------------------------------------------------
(* What was used stays within the budgets, as far as it was reserved, and   *)
(* what the ledger was told of makes room for nobody                        *)

(* The most a request can come to, of what it reserved: all of it, until    *)
(* the ledger is told.                                                      *)
Bounded ==
  [r \in Requests |-> IF r \in told THEN Least(spent[r], reserved[r]) ELSE reserved[r]]

WithinBudgets ==
  /\ Sum(Bounded, DOMAIN Recent) <= GlobalBudget
  /\ \A r \in Requests : Sum(Bounded, OfUid(r, DOMAIN Recent)) <= UidBudget

(* The upstream does no more for request r.                                 *)
WorkDone(r) == handler[r].at \in {"settling", "marking", "gone"}

(* A usage somebody knows is what was used, all of it.                      *)
Truthful(r, used) == used # Unknown => used = spent[r] /\ WorkDone(r)

(* A request is charged what it reserved until the ledger is told what it   *)
(* used, and that from then on.                                             *)
Charged(r) ==
  r \in DOMAIN reservations =>
    reservations[r].charge = IF r \in told THEN spent[r] ELSE reserved[r]

Accounted(r) ==
  /\ r \in told => WorkDone(r)
  /\ ~WorkDone(r) => spent[r] = 0
  /\ Truthful(r, rows[r].used) /\ Truthful(r, handler[r].used)
  /\ Charged(r)

BudgetInv ==
  /\ TypeOK /\ WithinBudgets
  /\ \A r \in Requests : Accounted(r)
  /\ \A e \in sweeps : Truthful(e.request, e.used)

(* A sum of charges, of any ledger.                                         *)
ChargeOf(ledger, S) == MapThenSumSet(LAMBDA r : ledger[r].charge, S)

Charges(ledger) == [r \in DOMAIN ledger |-> ledger[r].charge]

LEMMA ChargeIs ==
  ASSUME NEW ledger, IsFiniteSet(DOMAIN ledger),
         \A r \in DOMAIN ledger : ledger[r].charge \in Nat,
         NEW S \in SUBSET DOMAIN ledger
  PROVE  ChargeOf(ledger, S) = Sum(Charges(ledger), S) /\ IsFiniteSet(S)
<1> DEFINE w == Charges(ledger)
           body(f) == [s \in SUBSET S |->
                         IF s = {} THEN 0
                         ELSE ledger[CHOOSE x \in s : TRUE].charge
                                + f[s \ {CHOOSE x \in s : TRUE}]]
           iter == CHOOSE f : f = body(f)
<1>0. IsFiniteSet(S)
  BY FS_Subset
<1>1. \A x \in S : w[x] = ledger[x].charge /\ w[x] \in Nat
  BY DEF Charges
<1> HIDE DEF w
<1>2. PICK g \in [SUBSET S -> Nat] : Sums(w, S, g)
  BY <1>0, <1>1, SumsExist
<1>3. ASSUME NEW f
      PROVE  body(f) = [s \in SUBSET S |->
                          IF s = {} THEN 0 ELSE w[Chosen(s)] + f[s \ {Chosen(s)}]]
  <2>1. \A s \in SUBSET S : s # {} => (CHOOSE x \in s : TRUE) \in S
    OBVIOUS
  <2>2. \A s \in SUBSET S :
          (IF s = {} THEN 0
           ELSE ledger[CHOOSE x \in s : TRUE].charge + f[s \ {CHOOSE x \in s : TRUE}])
            = IF s = {} THEN 0 ELSE w[Chosen(s)] + f[s \ {Chosen(s)}]
    BY <1>1, <2>1 DEF Chosen
  <2> QED
    BY <2>2
<1>4. g = body(g)
  <2> HIDE DEF body
  <2> QED
    BY <1>2, <1>3 DEF Sums
<1>5. iter = body(iter)
  <2> HIDE DEF body
  <2> QED
    BY <1>4
<1>6. Sums(w, S, iter)
  <2> HIDE DEF iter, body
  <2> QED
    BY <1>3, <1>5 DEF Sums
<1>7. ChargeOf(ledger, S) = iter[S]
  BY DEF ChargeOf, MapThenSumSet, MapThenFoldSet
<1> HIDE DEF iter
<1>8. Sum(w, S) = iter[S]
  <2>1. S \in SUBSET S /\ \A x \in S : w[x] \in Nat
    BY <1>1
  <2> QED
    BY <1>0, <1>6, <2>1, SumIs
<1> QED
  BY <1>0, <1>7, <1>8 DEF w

LEMMA LedgerSums ==
  ASSUME LedgerTypeOK
  PROVE  /\ IsFiniteSet(DOMAIN reservations)
         /\ \A r \in DOMAIN reservations : /\ reservations[r].charge \in Nat
                                           /\ reservations[r].age \in Nat
         /\ \A S \in SUBSET DOMAIN reservations :
              Charge(S) = Sum(Charges(reservations), S) /\ IsFiniteSet(S) /\ Charge(S) \in Nat
<1>1. IsFiniteSet(DOMAIN reservations)
  BY AdmissionAssumption, FS_Subset DEF LedgerTypeOK
<1>2. \A r \in DOMAIN reservations :
        reservations[r].charge \in Nat /\ reservations[r].age \in Nat
  BY DEF LedgerTypeOK, Reservation
<1>3. ASSUME NEW S \in SUBSET DOMAIN reservations
      PROVE  Charge(S) = Sum(Charges(reservations), S) /\ IsFiniteSet(S) /\ Charge(S) \in Nat
  <2>1. Charge(S) = ChargeOf(reservations, S)
    BY DEF Charge, ChargeOf
  <2>2. ChargeOf(reservations, S) = Sum(Charges(reservations), S) /\ IsFiniteSet(S)
    BY <1>1, <1>2, ChargeIs
  <2>3. \A r \in S : Charges(reservations)[r] \in Nat
    BY <1>2 DEF Charges
  <2> QED
    BY <2>1, <2>2, <2>3, SumTakesOut
<1> QED
  BY <1>1, <1>2, <1>3

(* What a request covers of what it reserved is bounded, and no more than   *)
(* what it is charged; so is what the ledger must count.                    *)
LEMMA ChargesCover ==
  ASSUME BudgetInv
  PROVE  /\ \A r \in Requests : /\ Covered[r] \in Nat /\ Bounded[r] \in Nat
                                /\ Counted[r] \in Nat /\ Covered[r] <= Bounded[r]
         /\ \A r \in DOMAIN reservations :
              /\ r \in Requests /\ reservations[r].charge \in Nat
              /\ Bounded[r] <= reservations[r].charge
              /\ Counted[r] <= reservations[r].charge
<1>0. /\ LedgerTypeOK /\ spent \in [Requests -> Nat] /\ reserved \in [Requests -> Nat]
      /\ \A r \in Requests : Charged(r)
  BY DEF BudgetInv, TypeOK, Accounted
<1>1. ASSUME NEW r \in Requests
      PROVE  /\ spent[r] \in Nat /\ reserved[r] \in Nat
             /\ Least(spent[r], reserved[r]) \in Nat
             /\ Least(spent[r], reserved[r]) <= reserved[r]
             /\ Least(spent[r], reserved[r]) <= spent[r]
  BY <1>0 DEF Least
<1>2. \A r \in Requests : /\ Covered[r] \in Nat /\ Bounded[r] \in Nat
                          /\ Counted[r] \in Nat /\ Covered[r] <= Bounded[r]
  BY <1>1 DEF Covered, Bounded, Counted
<1>3. ASSUME NEW r \in DOMAIN reservations
      PROVE  /\ r \in Requests /\ reservations[r].charge \in Nat
             /\ Bounded[r] <= reservations[r].charge
             /\ Counted[r] <= reservations[r].charge
  <2>1. r \in Requests /\ reservations[r].charge \in Nat
    BY <1>0 DEF LedgerTypeOK, Reservation
  <2>2. reservations[r].charge = IF r \in told THEN spent[r] ELSE reserved[r]
    BY <1>0, <2>1 DEF Charged
  <2> QED
    BY <1>1, <2>1, <2>2 DEF Covered, Bounded, Counted
<1> QED
  BY <1>2, <1>3

(* What is below the charges sums up to no more than they do.               *)
LEMMA BelowCharges ==
  ASSUME LedgerTypeOK, NEW w, NEW S \in SUBSET DOMAIN reservations,
         \A r \in S : w[r] \in Nat /\ w[r] <= reservations[r].charge
  PROVE  /\ Sum(w, S) <= Charge(S) /\ Sum(w, S) \in Nat /\ Charge(S) \in Nat
         /\ IsFiniteSet(S)
<1> DEFINE v == Charges(reservations)
<1>1. /\ Charge(S) = Sum(v, S) /\ IsFiniteSet(S) /\ Charge(S) \in Nat
      /\ \A r \in S : v[r] \in Nat /\ v[r] = reservations[r].charge
  BY LedgerSums DEF Charges
<1>2. /\ \A r \in S : w[r] \in Nat /\ w[r] <= v[r] /\ v[r] \in Nat
      /\ S \in SUBSET S
  BY <1>1
<1> HIDE DEF v
<1>3. Sum(w, S) <= Sum(v, S) /\ Sum(w, S) \in Nat
  BY <1>1, <1>2, SumGrows, SumTakesOut
<1> QED
  BY <1>1, <1>3

(* Bounds do not grow as the ledger shrinks.                                *)
LEMMA ShrinkingKeepsBudgets ==
  ASSUME BudgetInv, TypeOK', Shrinks, UNCHANGED reserved, told \subseteq told',
         \A r \in told : spent'[r] = spent[r]
  PROVE  WithinBudgets'
<1> DEFINE D == DOMAIN Recent
           w == Bounded
           v == Bounded'
<1>0. /\ LedgerTypeOK /\ LedgerTypeOK' /\ WithinBudgets
      /\ spent \in [Requests -> Nat] /\ spent' \in [Requests -> Nat]
      /\ reserved \in [Requests -> Nat] /\ told \subseteq Requests
  BY DEF BudgetInv, TypeOK
<1>1. D' \subseteq D /\ D \subseteq Requests /\ IsFiniteSet(D)
  <2>1. /\ D' = {r \in DOMAIN reservations' : reservations'[r].age < Window}
        /\ D = {r \in DOMAIN reservations : reservations[r].age < Window}
    BY DEF Recent, Restrict
  <2>2. /\ \A r \in DOMAIN reservations : reservations[r].age \in Nat
        /\ \A r \in DOMAIN reservations' : reservations'[r].age \in Nat
    BY <1>0 DEF LedgerTypeOK, Reservation
  <2>3. D' \subseteq D /\ D \subseteq Requests
    BY <1>0, <2>1, <2>2, AdmissionAssumption DEF Shrinks, LedgerTypeOK
  <2> QED
    BY <2>3, AdmissionAssumption, FS_Subset
<1>2. \A r \in Requests : w[r] \in Nat /\ v[r] \in Nat /\ v[r] <= w[r]
  BY <1>0 DEF Bounded, Least
<1>3. ASSUME NEW S \in SUBSET D, NEW T \in SUBSET S
      PROVE  Sum(v, T) <= Sum(w, S) /\ Sum(w, S) \in Nat /\ Sum(v, T) \in Nat
  <2>1. /\ IsFiniteSet(S) /\ IsFiniteSet(T)
        /\ \A r \in S : w[r] \in Nat
        /\ \A r \in T : v[r] \in Nat /\ v[r] <= w[r]
    BY <1>1, <1>2, FS_Subset
  <2> HIDE DEF w, v, D
  <2> QED
    BY <2>1, SumGrows, SumTakesOut
<1>4. Sum(Bounded, D)' <= GlobalBudget
  <2>1. Sum(v, D') <= Sum(w, D) /\ Sum(w, D) \in Nat /\ Sum(v, D') \in Nat
    BY <1>1, <1>3
  <2>2. Sum(Bounded, D)' = Sum(v, D')
    BY DEF Sum, MapThenSumSet, MapThenFoldSet
  <2>3. Sum(w, D) <= GlobalBudget
    BY <1>0 DEF WithinBudgets
  <2> HIDE DEF w, v, D
  <2> QED
    BY <2>1, <2>2, <2>3, AdmissionAssumption
<1>5. ASSUME NEW r \in Requests PROVE Sum(Bounded, OfUid(r, D))' <= UidBudget
  <2>1. OfUid(r, D') \subseteq OfUid(r, D) /\ OfUid(r, D) \subseteq D
    BY <1>1 DEF OfUid
  <2>2. /\ Sum(v, OfUid(r, D')) <= Sum(w, OfUid(r, D))
        /\ Sum(w, OfUid(r, D)) \in Nat /\ Sum(v, OfUid(r, D')) \in Nat
    BY <1>3, <2>1
  <2>3. Sum(Bounded, OfUid(r, D))' = Sum(v, OfUid(r, D'))
    BY DEF Sum, MapThenSumSet, MapThenFoldSet, OfUid
  <2>4. Sum(w, OfUid(r, D)) <= UidBudget
    BY <1>0 DEF WithinBudgets
  <2> HIDE DEF w, v, D
  <2> QED
    BY <2>2, <2>3, <2>4, AdmissionAssumption
<1> QED
  BY <1>4, <1>5 DEF WithinBudgets

(* Whoever is admitted fits in with what the ledger must count.             *)
LEMMA AdmissionFits ==
  ASSUME BudgetInv, NEW r \in Requests, NEW estimate \in Estimates, Admit(r, estimate)
  PROVE  Fits(r, estimate)
<1> DEFINE D == DOMAIN Recent
<1>0. LedgerTypeOK /\ estimate \in Nat
  BY AdmissionAssumption DEF BudgetInv, TypeOK
<1>1. /\ ~(Charge(D) + estimate > GlobalBudget)
      /\ ~(Charge(OfUid(r, D)) + estimate > UidBudget)
  BY DEF Admit, Exceeds
<1>2. ASSUME NEW S \in SUBSET D
      PROVE  Total(Counted, S) <= Charge(S) /\ Total(Counted, S) \in Nat /\ Charge(S) \in Nat
  <2>1. S \in SUBSET DOMAIN reservations
    BY RecentLedger
  <2>2. \A q \in S : Counted[q] \in Nat /\ Counted[q] <= reservations[q].charge
    BY <2>1, ChargesCover
  <2>3. Total(Counted, S) = Sum(Counted, S)
    BY DEF Total, Sum
  <2> QED
    BY <1>0, <2>1, <2>2, <2>3, BelowCharges
<1>3. D \in SUBSET D /\ OfUid(r, D) \in SUBSET D
  BY DEF OfUid
<1>4. /\ Total(Counted, D) + estimate <= GlobalBudget
      /\ Total(Counted, OfUid(r, D)) + estimate <= UidBudget
  <2> HIDE DEF D
  <2> QED
    BY <1>0, <1>1, <1>2, <1>3, AdmissionAssumption
<1> QED
  BY <1>4 DEF Fits

(* An admission adds its estimate to what is recent.                        *)
LEMMA AdmissionKeepsBudgets ==
  ASSUME BudgetInv, NEW r \in Requests, NEW estimate \in Estimates, Admit(r, estimate),
         reserved' = [reserved EXCEPT ![r] = estimate], UNCHANGED <<spent, told>>,
         r \notin told
  PROVE  WithinBudgets'
<1> DEFINE D == DOMAIN Recent
           w == Bounded
           v == Bounded'
<1>0. /\ LedgerTypeOK /\ WithinBudgets /\ estimate \in Nat
      /\ spent \in [Requests -> Nat] /\ reserved \in [Requests -> Nat]
  BY AdmissionAssumption DEF BudgetInv, TypeOK
<1>1. /\ D' = D \cup {r} /\ r \notin D
      /\ D \subseteq DOMAIN reservations /\ D \subseteq Requests
  <2>1. /\ DOMAIN reservations' = D \cup {r} /\ r \notin D
        /\ reservations'[r] = [age |-> 0, charge |-> estimate, inFlight |-> TRUE]
        /\ \A q \in D : q # r => reservations'[q] = Recent[q]
    BY DEF Admit
  <2>2. D' = {q \in DOMAIN reservations' : reservations'[q].age < Window}
    BY DEF Recent, Restrict
  <2>3. \A q \in D : Recent[q] = reservations[q] /\ reservations[q].age < Window
    BY RecentLedger
  <2> QED
    BY <1>0, <2>1, <2>2, <2>3, RecentLedger, AdmissionAssumption DEF LedgerTypeOK
<1>2. /\ \A q \in Requests : w[q] \in Nat /\ v[q] \in Nat
      /\ v[r] = estimate
      /\ \A q \in Requests \ {r} : v[q] = w[q]
  BY <1>0 DEF Bounded, Least
<1>3. ASSUME NEW S \in SUBSET D
      PROVE  /\ Sum(v, S) = Sum(w, S) /\ Sum(w, S) <= Charge(S) /\ IsFiniteSet(S)
             /\ Sum(w, S) \in Nat /\ Charge(S) \in Nat
             /\ Sum(v, S \cup {r}) = estimate + Sum(w, S)
  <2>1. \A q \in S : w[q] \in Nat /\ w[q] <= reservations[q].charge
    BY <1>1, ChargesCover
  <2>2. S \in SUBSET DOMAIN reservations
    BY <1>1
  <2>3. Sum(w, S) <= Charge(S) /\ Sum(w, S) \in Nat /\ Charge(S) \in Nat /\ IsFiniteSet(S)
    <3> HIDE DEF w
    <3> QED
      BY <1>0, <2>1, <2>2, BelowCharges
  <2>4. /\ \A q \in S : v[q] \in Nat /\ w[q] \in Nat /\ v[q] <= w[q] /\ w[q] <= v[q]
        /\ S \in SUBSET S
    BY <1>1, <1>2
  <2>5. Sum(v, S) = Sum(w, S)
    <3> HIDE DEF w, v, D
    <3>1. Sum(v, S) <= Sum(w, S) /\ Sum(w, S) <= Sum(v, S)
      BY <2>3, <2>4, SumGrows
    <3>2. Sum(v, S) \in Nat
      BY <2>3, <2>4, SumTakesOut
    <3> QED
      BY <2>3, <3>1, <3>2
  <2>6. Sum(v, S \cup {r}) = estimate + Sum(w, S)
    <3>1. /\ IsFiniteSet(S \cup {r}) /\ (S \cup {r}) \ {r} = S
          /\ \A q \in S \cup {r} : v[q] \in Nat
      BY <1>1, <1>2, <2>3, OneMore
    <3> HIDE DEF w, v, D
    <3>2. Sum(v, S \cup {r}) = v[r] + Sum(v, (S \cup {r}) \ {r})
      BY <3>1, SumTakesOut
    <3> QED
      BY <1>2, <2>5, <3>1, <3>2
  <2> QED
    BY <2>3, <2>5, <2>6
<1>4. /\ ~(Charge(D) + estimate > GlobalBudget)
      /\ ~(Charge(OfUid(r, D)) + estimate > UidBudget)
  BY DEF Admit, Exceeds
<1>5. Sum(Bounded, D)' <= GlobalBudget
  <2>1. Sum(Bounded, D)' = Sum(v, D \cup {r})
    BY <1>1 DEF Sum, MapThenSumSet, MapThenFoldSet
  <2> HIDE DEF w, v, D
  <2> QED
    BY <1>0, <1>3, <1>4, <2>1, AdmissionAssumption
<1>6. ASSUME NEW q \in Requests PROVE Sum(Bounded, OfUid(q, D))' <= UidBudget
  <2>0. Sum(Bounded, OfUid(q, D))' = Sum(v, OfUid(q, D'))
    BY DEF Sum, MapThenSumSet, MapThenFoldSet, OfUid
  <2>1. OfUid(q, D) \in SUBSET D
    BY DEF OfUid
  <2>2. CASE Uid[q] = Uid[r]
    <3>1. OfUid(q, D') = OfUid(q, D) \cup {r} /\ OfUid(q, D) = OfUid(r, D)
      BY <1>1, <2>2 DEF OfUid
    <3> HIDE DEF w, v, D
    <3> QED
      BY <1>0, <1>3, <1>4, <2>0, <2>1, <3>1, AdmissionAssumption
  <2>3. CASE Uid[q] # Uid[r]
    <3>1. OfUid(q, D') = OfUid(q, D)
      BY <1>1, <2>3 DEF OfUid
    <3>2. Sum(w, OfUid(q, D)) <= UidBudget
      BY <1>0 DEF WithinBudgets
    <3> HIDE DEF w, v, D
    <3> QED
      BY <1>3, <2>0, <2>1, <3>1, <3>2
  <2> QED
    BY <2>2, <2>3
<1> QED
  BY <1>5, <1>6 DEF WithinBudgets

(* A step of request r's handler, by what the invariant asks of it.         *)
LEMMA HandlerKeepsBudget ==
  ASSUME BudgetInv, TypeOK', NEW r \in Requests, UNCHANGED sweeps, Others(r),
         WithinBudgets' \/ (Shrinks /\ UNCHANGED reserved), Accounted(r)',
         \A q \in Requests \ {r} :
           handler'[q] = handler[q] /\ rows'[q] = rows[q] /\ spent'[q] = spent[q]
             /\ reserved'[q] = reserved[q],
         told \subseteq told', told' \subseteq told \cup {r},
         WorkDone(r) => WorkDone(r)' /\ spent'[r] = spent[r]
  PROVE  BudgetInv'
<1>1. ASSUME NEW q \in Requests, q # r PROVE Accounted(q)'
  <2>1. Accounted(q) /\ (q \in told' <=> q \in told)
    BY <1>1 DEF BudgetInv
  <2>2. q \in DOMAIN reservations' =>
          q \in DOMAIN reservations /\ reservations'[q] = reservations[q]
    BY <1>1 DEF Others
  <2> QED
    BY <1>1, <2>1, <2>2 DEF Accounted, Charged, Truthful, WorkDone
<1>2. ASSUME NEW e \in sweeps PROVE Truthful(e.request, e.used)'
  <2>1. e.request \in Requests /\ Truthful(e.request, e.used)
    BY DEF BudgetInv, TypeOK, Sweep
  <2> QED
    BY <2>1 DEF Truthful, WorkDone
<1>3. WithinBudgets'
  <2>1. ASSUME NEW q \in told PROVE spent'[q] = spent[q]
    <3>1. q \in Requests /\ WorkDone(q)
      BY DEF BudgetInv, TypeOK, Accounted
    <3> QED
      BY <3>1
  <2> QED
    BY <2>1, ShrinkingKeepsBudgets
<1> QED
  BY <1>1, <1>2, <1>3 DEF BudgetInv

(* A handler that changes nobody's charge, and no usage the table knows.    *)
LEMMA QuietHandlerKeepsBudget ==
  ASSUME BudgetInv, TypeOK', NEW r \in Requests, Others(r), Shrinks,
         UNCHANGED <<sweeps, reserved, spent, told>>,
         r \in DOMAIN reservations' =>
           r \in DOMAIN reservations /\ reservations'[r].charge = reservations[r].charge,
         \A q \in Requests \ {r} : handler'[q] = handler[q] /\ rows'[q] = rows[q],
         rows'[r].used = rows[r].used,
         handler'[r].used \in {handler[r].used, Unknown},
         WorkDone(r) => WorkDone(r)'
  PROVE  BudgetInv'
<1>1. Accounted(r)
  BY DEF BudgetInv
<1>2. Charged(r)'
  BY <1>1 DEF Accounted, Charged
<1>3. Accounted(r)'
  BY <1>1, <1>2 DEF Accounted, Truthful
<1> QED
  BY <1>3, HandlerKeepsBudget

(* A step of the cron or of time.                                           *)
LEMMA SweepKeepsBudget ==
  ASSUME BudgetInv, TypeOK', UNCHANGED <<handler, reserved, spent>>, Shrinks,
         \A r \in Requests : rows'[r].used = rows[r].used,
         told \subseteq told', \A r \in told' : WorkDone(r),
         \A r \in Requests : Charged(r)',
         \A e \in sweeps' : Truthful(e.request, e.used)
  PROVE  BudgetInv'
<1>1. ASSUME NEW r \in Requests PROVE Accounted(r)'
  <2>1. Accounted(r)
    BY DEF BudgetInv
  <2> QED
    BY <2>1 DEF Accounted, Truthful, WorkDone
<1>2. \A e \in sweeps' : Truthful(e.request, e.used)'
  BY DEF Truthful, WorkDone
<1>3. WithinBudgets'
  BY ShrinkingKeepsBudgets
<1> QED
  BY <1>1, <1>2, <1>3 DEF BudgetInv

(* What a handler knows as it goes on or leaves.                            *)
LEMMA HandlersKnow ==
  ASSUME TypeOK, NEW r \in Requests
  PROVE  /\ \A at : Goes(r, at) => handler'[r].used = handler[r].used
         /\ Leaves(r) => handler'[r].used = Unknown
BY DEF TypeOK, Goes, Leaves, Gone, New, Handler

LEMMA FinalizedUse ==
  ASSUME NEW row \in Row, NEW used
  PROVE  /\ Finalized(row, used).used \in {row.used, used}
         /\ used = Unknown => Finalized(row, used).used = row.used
BY DEF Finalized, Row

(* A ledger that is as it was, or without what is too old.                  *)
LEMMA SameCharges ==
  ASSUME LedgerTypeOK,
         \/ UNCHANGED reservations
         \/ \E r \in Requests : reservations' \in {reservations, Released(r)}
         \/ \E r \in Requests, estimate \in Estimates : Refuse(r, estimate)
         \/ reservations' = Aged
  PROVE  /\ LedgerTypeOK' /\ Shrinks
         /\ \A r \in DOMAIN reservations' : /\ r \in DOMAIN reservations
                                            /\ reservations'[r].charge = reservations[r].charge
<1> DEFINE Kept == \A r \in DOMAIN reservations' :
                        /\ r \in DOMAIN reservations
                        /\ reservations'[r].charge = reservations[r].charge
<1>1. CASE UNCHANGED reservations
  BY <1>1, SameLedger
<1>2. ASSUME NEW r \in Requests, reservations' \in {reservations, Released(r)}
      PROVE  LedgerTypeOK' /\ Shrinks /\ Kept
  <2>1. LedgerTypeOK' /\ Shrinks
    BY <1>2, MaybeReleasedLedger
  <2>2. \A q \in DOMAIN reservations : reservations[q] \in Reservation
    BY DEF LedgerTypeOK
  <2>3. \A q \in DOMAIN reservations :
          [reservations[q] EXCEPT !.inFlight = FALSE].charge = reservations[q].charge
    BY <2>2 DEF Reservation
  <2>4. CASE reservations' = Released(r)
    BY <2>1, <2>3, <2>4 DEF Released
  <2> QED
    BY <1>2, <2>1, <2>4
<1>3. ASSUME NEW r \in Requests, NEW estimate \in Estimates, Refuse(r, estimate)
      PROVE  LedgerTypeOK' /\ Shrinks /\ Kept
  <2>1. LedgerTypeOK' /\ Shrinks
    BY <1>3, RefusedLedger
  <2>2. reservations' = Recent
    BY <1>3 DEF Refuse
  <2> QED
    BY <2>1, <2>2, RecentLedger
<1>4. CASE reservations' = Aged
  <2>1. LedgerTypeOK' /\ Shrinks
    BY <1>4, AgedLedger
  <2>2. \A q \in DOMAIN reservations : reservations[q] \in Reservation
    BY DEF LedgerTypeOK
  <2> QED
    BY <1>4, <2>1, <2>2 DEF Aged, Reservation
<1> QED
  BY <1>1, <1>2, <1>3, <1>4

(* /settle tells the ledger what was used, /release leaves the charge.      *)
LEMMA FreedCharges ==
  ASSUME BudgetInv, NEW r \in Requests, NEW used \in Usage, Truthful(r, used),
         reservations' = Freed(r, used), told' = Told(r, used),
         UNCHANGED <<reserved, spent>>
  PROVE  /\ Shrinks /\ Others(r)
         /\ told \subseteq told' /\ told' \subseteq told \cup {r}
         /\ r \in told' => r \in told \/ WorkDone(r)
         /\ \A q \in Requests : Charged(q)'
<1>0. LedgerTypeOK /\ \A q \in Requests : Charged(q)
  BY DEF BudgetInv, TypeOK, Accounted
<1>1. Shrinks /\ Others(r)
  BY <1>0, FreedLedger
<1>2. \A q \in DOMAIN reservations : reservations[q] \in Reservation
  BY <1>0 DEF LedgerTypeOK
<1>3. /\ DOMAIN reservations' = DOMAIN reservations
      /\ \A q \in DOMAIN reservations : q # r => reservations'[q] = reservations[q]
      /\ r \in DOMAIN reservations =>
           reservations'[r].charge = IF used = Unknown THEN reservations[r].charge ELSE used
  BY <1>2 DEF Freed, Released, Settled, Reservation
<1>4. /\ told \subseteq told' /\ told' \subseteq told \cup {r}
      /\ used = Unknown => told' = told
      /\ used # Unknown => r \in told'
  BY DEF Told
<1>5. used # Unknown => used = spent[r] /\ WorkDone(r)
  BY DEF Truthful
<1>6. ASSUME NEW q \in Requests PROVE Charged(q)'
  <2>1. CASE q = r
    BY <1>0, <1>3, <1>4, <1>5, <2>1 DEF Charged
  <2>2. CASE q # r
    BY <1>0, <1>3, <1>4, <2>2 DEF Charged
  <2> QED
    BY <2>1, <2>2
<1> QED
  BY <1>1, <1>4, <1>5, <1>6

LEMMA BudgetStep == BudgetInv /\ [Next]_vars => BudgetInv'
<1> SUFFICES ASSUME BudgetInv, [Next]_vars PROVE BudgetInv'
  OBVIOUS
<1>0. /\ TypeOK /\ TypeOK' /\ LedgerTypeOK /\ WithinBudgets
      /\ rows \in [Requests -> Row] /\ handler \in [Requests -> Handler]
      /\ sweeps \subseteq Sweep /\ told \subseteq Requests
      /\ reserved \in [Requests -> Nat] /\ spent \in [Requests -> Nat]
      /\ \A r \in Requests : Accounted(r)
      /\ \A e \in sweeps : Truthful(e.request, e.used)
  BY TypesStep DEF BudgetInv, TypeOK
<1>a. \A r \in Requests : rows[r] \in Row /\ handler[r] \in Handler
  BY <1>0
<1>b. /\ DOMAIN reservations \subseteq Requests
      /\ \A r \in Requests : UNCHANGED reservations => Others(r)
  BY <1>0, SameLedger DEF LedgerTypeOK
<1>c. (UNCHANGED reservations) =>
        /\ Shrinks
        /\ \A r \in DOMAIN reservations' : /\ r \in DOMAIN reservations
                                           /\ reservations'[r].charge = reservations[r].charge
  BY <1>0, SameCharges
<1>d. \A r \in told : WorkDone(r)
  BY <1>0 DEF Accounted
<1>e. ASSUME UNCHANGED <<reserved, spent, told>>,
             \A r \in DOMAIN reservations' : /\ r \in DOMAIN reservations
                                            /\ reservations'[r].charge = reservations[r].charge
      PROVE  \A r \in Requests : Charged(r)'
  BY <1>0, <1>e DEF Accounted, Charged
<1>1. CASE UNCHANGED vars
  BY <1>0, <1>1, <1>c, <1>d, <1>e, SweepKeepsBudget DEF vars
<1>2. CASE Tick
  <2>1. \A r \in Requests : rows'[r].used = rows[r].used
    BY <1>2, <1>a DEF Tick, Row
  <2>2. /\ Shrinks
        /\ \A r \in DOMAIN reservations' : /\ r \in DOMAIN reservations
                                           /\ reservations'[r].charge = reservations[r].charge
    BY <1>0, <1>2, SameCharges DEF Tick
  <2>3. UNCHANGED <<handler, sweeps, reserved, spent, told>>
    BY <1>2 DEF Tick
  <2>4. \A r \in Requests : Charged(r)'
    BY <1>e, <2>2, <2>3
  <2> QED
    BY <1>0, <1>d, <2>1, <2>2, <2>3, <2>4, SweepKeepsBudget
<1>3. ASSUME NEW r \in Requests, Admitted(r) PROVE BudgetInv'
  <2>1. PICK estimate \in Estimates :
          Admit(r, estimate) /\ reserved' = [reserved EXCEPT ![r] = estimate]
    BY <1>3 DEF Admitted
  <2>2. /\ Others(r) /\ r \in DOMAIN reservations'
        /\ reservations'[r].charge = estimate
    <3>1. /\ Others(r) /\ r \in DOMAIN reservations'
          /\ reservations'[r] = [age |-> 0, charge |-> estimate, inFlight |-> TRUE]
      BY <1>0, <2>1, AdmittedLedger
    <3> QED
      BY <3>1
  <2>3. /\ handler'[r].at \in {"admitted", "gone"}
        /\ handler'[r].used \in {handler[r].used, Unknown}
        /\ \A q \in Requests \ {r} : handler'[q] = handler[q]
    BY <1>0, <1>3, HandlersMove, HandlersKnow DEF Admitted
  <2>4. /\ UNCHANGED <<rows, sweeps, spent, told>> /\ ~WorkDone(r) /\ spent[r] = 0
        /\ rows[r].used = Unknown /\ handler[r].used = Unknown /\ r \notin told
    BY <1>0, <1>3 DEF Admitted, At, WorkDone, Accounted, Truthful
  <2>5. WithinBudgets'
    BY <2>1, <2>4, AdmissionKeepsBudgets
  <2>6. reserved'[r] = estimate /\ \A q \in Requests \ {r} : reserved'[q] = reserved[q]
    BY <1>0, <2>1
  <2>7. Accounted(r)'
    BY <2>2, <2>3, <2>4, <2>6 DEF Accounted, Charged, Truthful
  <2> QED
    BY <1>0, <2>2, <2>3, <2>4, <2>5, <2>6, <2>7, HandlerKeepsBudget
<1>4. ASSUME NEW r \in Requests, Refused(r) PROVE BudgetInv'
  <2>1. PICK estimate \in Estimates : Refuse(r, estimate)
    BY <1>4 DEF Refused
  <2>2. /\ Shrinks /\ Others(r)
        /\ r \in DOMAIN reservations' =>
             r \in DOMAIN reservations /\ reservations'[r].charge = reservations[r].charge
    BY <1>0, <2>1, SameCharges, RefusedLedger
  <2>3. /\ Leaves(r) /\ At(r, "new") /\ UNCHANGED <<rows, sweeps, reserved, spent, told>>
    BY <1>4 DEF Refused
  <2>4. /\ handler'[r].at = "gone" /\ handler'[r].used = Unknown
        /\ \A q \in Requests \ {r} : handler'[q] = handler[q]
    BY <1>0, <2>3, HandlersMove, HandlersKnow
  <2> QED
    BY <1>0, <2>2, <2>3, <2>4, QuietHandlerKeepsBudget DEF At, WorkDone
<1>5. ASSUME NEW r \in Requests, Inserts(r) PROVE BudgetInv'
  <2>1. /\ rows'[r].used = rows[r].used
        /\ \A q \in Requests \ {r} : rows'[q] = rows[q]
    BY <1>0, <1>5, <1>a DEF Inserts, Row
  <2>2. /\ UNCHANGED <<reservations, sweeps, reserved, spent, told>>
        /\ \/ handler[r].at = "admitted" /\ handler'[r].at = "asking"
           \/ handler[r].at = "new" /\ handler'[r].at = "calling"
        /\ handler'[r].used = handler[r].used
        /\ \A q \in Requests \ {r} : handler'[q] = handler[q]
    BY <1>0, <1>5, HandlersMove, HandlersKnow DEF Inserts, At
  <2> QED
    BY <1>0, <1>b, <2>1, <2>2, <1>c, QuietHandlerKeepsBudget DEF WorkDone
<1>6. ASSUME NEW r \in Requests, InsertFails(r) PROVE BudgetInv'
  <2>1. /\ Shrinks /\ Others(r)
        /\ r \in DOMAIN reservations' =>
             r \in DOMAIN reservations /\ reservations'[r].charge = reservations[r].charge
    BY <1>0, <1>6, SameCharges, MaybeReleasedLedger DEF InsertFails
  <2>2. /\ handler'[r].at = "gone" /\ handler'[r].used = Unknown
        /\ \A q \in Requests \ {r} : handler'[q] = handler[q]
    BY <1>0, <1>6, HandlersMove, HandlersKnow DEF InsertFails
  <2> QED
    BY <1>0, <1>6, <2>1, <2>2, QuietHandlerKeepsBudget DEF InsertFails, At, WorkDone
<1>7. ASSUME NEW r \in Requests, Fails(r) PROVE BudgetInv'
  <2>1. /\ rows'[r].used = rows[r].used
        /\ \A q \in Requests \ {r} : rows'[q] = rows[q]
    <3>1. /\ Finalized(rows[r], Unknown) \in Row
          /\ Finalized(rows[r], Unknown).used = rows[r].used
      BY <1>a, FinalizedRow, FinalizedUse DEF Usage
    <3>2. Written(r, Finalized(rows[r], Unknown))
      BY <1>7 DEF Fails
    <3> QED
      BY <1>0, <3>1, <3>2, WrittenRows
  <2>2. /\ UNCHANGED <<reservations, sweeps, reserved, spent, told>> /\ handler[r].at = "asking"
        /\ handler'[r].at = "settling" /\ handler'[r].used = handler[r].used
        /\ \A q \in Requests \ {r} : handler'[q] = handler[q]
    BY <1>0, <1>7, <1>a DEF Fails, Handler, At
  <2> QED
    BY <1>0, <1>b, <2>1, <2>2, <1>c, QuietHandlerKeepsBudget DEF WorkDone
<1>8. ASSUME NEW r \in Requests, Streams(r) PROVE BudgetInv'
  <2>0. [rows[r] EXCEPT !.status = "streaming", !.age = 0].used = rows[r].used
    BY <1>a DEF Row
  <2>1. /\ rows'[r].used = rows[r].used
        /\ \A q \in Requests \ {r} : rows'[q] = rows[q]
    BY <1>0, <1>8, <1>a, <2>0, UpdatedRow, WrittenRows DEF Streams
  <2>2. /\ UNCHANGED <<reservations, sweeps, reserved, spent, told>> /\ handler[r].at = "asking"
        /\ handler'[r].at = "streaming" /\ handler'[r].used = handler[r].used
        /\ \A q \in Requests \ {r} : handler'[q] = handler[q]
    BY <1>0, <1>8, HandlersMove, HandlersKnow DEF Streams, At
  <2> QED
    BY <1>0, <1>b, <2>1, <2>2, <1>c, QuietHandlerKeepsBudget DEF WorkDone
<1>9. ASSUME NEW r \in Requests, Ends(r) PROVE BudgetInv'
  <2>1. PICK used \in Usages : \E read \in {used, Unknown} :
          /\ Written(r, Finalized(rows[r], read))
          /\ handler' = [handler EXCEPT ![r].at = "settling", ![r].used = read,
                                       ![r].marks = TRUE]
          /\ spent' = [spent EXCEPT ![r] = used]
    BY <1>9 DEF Ends
  <2>2. used \in Usage /\ Unknown \in Usage
    BY RequestsAssumption DEF Usage
  <2>3. PICK read \in {used, Unknown} :
          /\ Written(r, Finalized(rows[r], read))
          /\ handler' = [handler EXCEPT ![r].at = "settling", ![r].used = read,
                                       ![r].marks = TRUE]
          /\ spent' = [spent EXCEPT ![r] = used]
    BY <2>1
  <2>4. read \in Usage
    BY <2>2
  <2>5. /\ rows'[r].used \in {rows[r].used, read}
        /\ \A q \in Requests \ {r} : rows'[q] = rows[q]
    <3>1. /\ Finalized(rows[r], read) \in Row
          /\ Finalized(rows[r], read).used \in {rows[r].used, read}
      BY <1>a, <2>4, FinalizedRow, FinalizedUse
    <3> QED
      BY <1>0, <2>3, <3>1, WrittenRows
  <2>6. /\ handler'[r].at = "settling" /\ handler'[r].used = read
        /\ \A q \in Requests \ {r} : handler'[q] = handler[q]
    BY <1>0, <1>a, <2>3 DEF Handler
  <2>7. spent'[r] = used /\ \A q \in Requests \ {r} : spent'[q] = spent[q]
    BY <1>0, <2>3
  <2>8. /\ UNCHANGED <<reservations, sweeps, reserved, told>> /\ ~WorkDone(r)
        /\ rows[r].used = Unknown /\ r \notin told /\ Charged(r)
    BY <1>0, <1>9 DEF Ends, At, WorkDone, Accounted, Truthful
  <2>9. Accounted(r)'
    BY <2>3, <2>5, <2>6, <2>7, <2>8 DEF Accounted, Charged, Truthful, WorkDone
  <2> QED
    BY <1>0, <1>b, <1>c, <2>5, <2>6, <2>7, <2>8, <2>9, HandlerKeepsBudget
<1>10. ASSUME NEW r \in Requests, Called(r) PROVE BudgetInv'
  <2>1. /\ rows'[r].used = rows[r].used
        /\ \A q \in Requests \ {r} : rows'[q] = rows[q]
    BY <1>0, <1>10, <1>a, FinalizedRow, FinalizedUse DEF Called, Usage
  <2>2. /\ UNCHANGED <<reservations, sweeps, reserved, spent, told>>
        /\ handler'[r].at = "gone" /\ handler'[r].used = Unknown
        /\ \A q \in Requests \ {r} : handler'[q] = handler[q]
    BY <1>0, <1>10, HandlersMove, HandlersKnow DEF Called
  <2> QED
    BY <1>0, <1>b, <2>1, <2>2, <1>c, QuietHandlerKeepsBudget DEF WorkDone
<1>11. ASSUME NEW r \in Requests, Settles(r) PROVE BudgetInv'
  <2>1. /\ handler[r].at = "settling" /\ handler[r].used \in Usage
        /\ Truthful(r, handler[r].used) /\ UNCHANGED <<rows, sweeps, reserved, spent>>
    BY <1>0, <1>11, <1>a DEF Settles, At, Handler, Accounted
  <2>2. /\ Shrinks /\ Others(r) /\ Charged(r)'
        /\ told \subseteq told' /\ told' \subseteq told \cup {r}
    BY <1>11, <2>1, FreedCharges DEF Settles
  <2>3. /\ handler'[r].at \in {"marking", "gone"}
        /\ handler'[r].used \in {handler[r].used, Unknown}
        /\ \A q \in Requests \ {r} : handler'[q] = handler[q]
    BY <1>0, <1>11, HandlersMove, HandlersKnow DEF Settles
  <2>4. Accounted(r)'
    BY <1>0, <2>1, <2>2, <2>3 DEF Accounted, Truthful, WorkDone
  <2> QED
    BY <1>0, <2>1, <2>2, <2>3, <2>4, HandlerKeepsBudget DEF WorkDone
<1>12. ASSUME NEW r \in Requests, Marks(r) PROVE BudgetInv'
  <2>1. /\ rows'[r].used = rows[r].used
        /\ \A q \in Requests \ {r} : rows'[q] = rows[q]
    <3>1. rows' = [rows EXCEPT ![r] = [rows[r] EXCEPT !.settled = TRUE, !.age = 0]]
      BY <1>12 DEF Marks
    <3>2. [rows[r] EXCEPT !.settled = TRUE, !.age = 0].used = rows[r].used
      BY <1>a DEF Row
    <3> QED
      BY <1>0, <3>1, <3>2
  <2>2. /\ UNCHANGED <<reservations, sweeps, reserved, spent, told>>
        /\ handler'[r].at = "gone" /\ handler'[r].used = Unknown
        /\ \A q \in Requests \ {r} : handler'[q] = handler[q]
    BY <1>0, <1>12, HandlersMove, HandlersKnow DEF Marks
  <2> QED
    BY <1>0, <1>b, <2>1, <2>2, <1>c, QuietHandlerKeepsBudget DEF WorkDone
<1>13. ASSUME NEW r \in Requests, Dies(r) PROVE BudgetInv'
  <2>1. /\ UNCHANGED <<reservations, rows, sweeps, reserved, told>>
        /\ handler'[r].at = "gone" /\ handler'[r].used = Unknown
        /\ \A q \in Requests \ {r} : handler'[q] = handler[q]
    BY <1>0, <1>13, HandlersMove, HandlersKnow DEF Dies
  <2>2. CASE handler[r].at \in {"asking", "streaming"}
    <3>1. PICK used \in Usages \cup {0} : spent' = [spent EXCEPT ![r] = used]
      BY <1>13, <2>2 DEF Dies, At
    <3>2. ~WorkDone(r) /\ rows[r].used = Unknown /\ r \notin told /\ Charged(r)
      BY <1>0, <2>2 DEF WorkDone, Accounted, Truthful
    <3>3. Accounted(r)'
      BY <2>1, <3>2 DEF Accounted, Charged, Truthful, WorkDone
    <3>4. \A q \in Requests \ {r} : spent'[q] = spent[q]
      BY <1>0, <3>1
    <3> QED
      BY <1>0, <1>b, <1>c, <2>1, <3>2, <3>3, <3>4, HandlerKeepsBudget
  <2>3. CASE handler[r].at \notin {"asking", "streaming"}
    <3>1. UNCHANGED spent
      BY <1>13, <2>3 DEF Dies, At
    <3> QED
      BY <1>0, <1>b, <1>c, <2>1, <3>1, QuietHandlerKeepsBudget DEF WorkDone
  <2> QED
    BY <2>2, <2>3
<1>14. ASSUME NEW r \in Requests, SweepReads(r) PROVE BudgetInv'
  <2>1. \A e \in sweeps' \ sweeps : e.request = r /\ e.used = rows[r].used
    BY <1>14 DEF SweepReads
  <2>2. \A e \in sweeps' : Truthful(e.request, e.used)
    BY <1>0, <2>1 DEF Accounted
  <2>3. UNCHANGED <<reservations, rows, handler, reserved, spent, told>>
    BY <1>14 DEF SweepReads
  <2>4. \A q \in Requests : Charged(q)'
    BY <1>c, <1>e, <2>3
  <2> QED
    BY <1>0, <1>c, <1>d, <2>2, <2>3, <2>4, SweepKeepsBudget
<1>15. ASSUME NEW e \in sweeps, SweepStep(e) \/ SweepStops(e) PROVE BudgetInv'
  <2>0. /\ e \in Sweep /\ e.request \in Requests /\ e.used \in Usage
        /\ Truthful(e.request, e.used)
    BY <1>0 DEF Sweep
  <2>1. \A at : /\ [e EXCEPT !.at = at].request = e.request
                /\ [e EXCEPT !.at = at].used = e.used
    BY <2>0 DEF Sweep
  <2>2. \A at : Onward(e, at) => \A d \in sweeps' : Truthful(d.request, d.used)
    BY <1>0, <2>0, <2>1 DEF Onward
  <2>3. CASE SweepFinalizes(e)
    <3>1. \A r \in Requests : rows'[r].used = rows[r].used
      <4>1. /\ Finalized(rows[e.request], Unknown) \in Row
            /\ Finalized(rows[e.request], Unknown).used = rows[e.request].used
        BY <1>a, <2>0, FinalizedRow, FinalizedUse DEF Usage
      <4>2. Written(e.request, Finalized(rows[e.request], Unknown))
        BY <2>3 DEF SweepFinalizes
      <4> QED
        BY <1>0, <2>0, <4>1, <4>2, WrittenRows
    <3>2. UNCHANGED <<reservations, handler, reserved, spent, told>> /\ Onward(e, "settling")
      BY <2>3 DEF SweepFinalizes
    <3>3. \A q \in Requests : Charged(q)'
      BY <1>c, <1>e, <3>2
    <3> QED
      BY <1>0, <1>c, <1>d, <2>2, <3>1, <3>2, <3>3, SweepKeepsBudget
  <2>4. CASE SweepSettles(e)
    <3>1. /\ UNCHANGED <<rows, handler, reserved, spent>> /\ Onward(e, "marking")
          /\ reservations' = Freed(e.request, e.used) /\ told' = Told(e.request, e.used)
      BY <2>4 DEF SweepSettles
    <3>2. /\ Shrinks /\ \A q \in Requests : Charged(q)'
          /\ told \subseteq told' /\ told' \subseteq told \cup {e.request}
          /\ e.request \in told' => e.request \in told \/ WorkDone(e.request)
      BY <2>0, <3>1, FreedCharges
    <3>3. \A q \in told' : WorkDone(q)
      BY <1>d, <3>2
    <3> QED
      BY <1>0, <2>2, <3>1, <3>2, <3>3, SweepKeepsBudget
  <2>5. CASE SweepMarks(e)
    <3>1. rows' = [rows EXCEPT ![e.request] =
                     [rows[e.request] EXCEPT !.settled = TRUE, !.age = 0]]
      BY <1>0, <2>5 DEF SweepMarks
    <3>2. [rows[e.request] EXCEPT !.settled = TRUE, !.age = 0].used = rows[e.request].used
      BY <1>a, <2>0 DEF Row
    <3>3. \A r \in Requests : rows'[r].used = rows[r].used
      BY <1>0, <2>0, <3>1, <3>2
    <3>4. /\ UNCHANGED <<reservations, handler, reserved, spent, told>>
          /\ sweeps' \subseteq sweeps
      BY <2>5 DEF SweepMarks
    <3>5. \A q \in Requests : Charged(q)'
      BY <1>c, <1>e, <3>4
    <3> QED
      BY <1>0, <1>c, <1>d, <3>3, <3>4, <3>5, SweepKeepsBudget
  <2>6. CASE SweepStops(e)
    <3>1. /\ UNCHANGED <<reservations, rows, handler, reserved, spent, told>>
          /\ sweeps' \subseteq sweeps
      BY <2>6 DEF SweepStops
    <3>2. \A q \in Requests : Charged(q)'
      BY <1>c, <1>e, <3>1
    <3> QED
      BY <1>0, <1>c, <1>d, <3>1, <3>2, SweepKeepsBudget
  <2> QED
    BY <1>15, <2>3, <2>4, <2>5, <2>6 DEF SweepStep
<1> QED
  BY <1>1, <1>2, <1>3, <1>4, <1>5, <1>6, <1>7, <1>8, <1>9, <1>10, <1>11, <1>12, <1>13,
     <1>14, <1>15 DEF Next, HandlerStep

LEMMA BudgetInit == Init => BudgetInv
<1> SUFFICES ASSUME Init PROVE BudgetInv
  OBVIOUS
<1>1. TypeOK
  BY RequestTypesInit
<1>2. DOMAIN reservations = {}
  BY DEF Init, LedgerInit
<1>3. WithinBudgets
  <2>1. DOMAIN Recent = {} /\ \A r : OfUid(r, DOMAIN Recent) = {}
    BY <1>2, RecentLedger DEF OfUid
  <2>2. Sum(Bounded, {}) = 0
    BY FS_EmptySet, SumTakesOut
  <2>3. /\ Sum(Bounded, DOMAIN Recent) = 0
        /\ \A r : Sum(Bounded, OfUid(r, DOMAIN Recent)) = 0
    BY <2>1, <2>2
  <2> QED
    BY <2>3, AdmissionAssumption DEF WithinBudgets
<1> QED
  BY <1>1, <1>2, <1>3 DEF Init, BudgetInv, Accounted, Charged, Truthful, NoRow, New

(* What is covered sums up to no more than what is bounded.                 *)
LEMMA BudgetsOfCovered == BudgetInv => CoveredWithinBudget
<1> SUFFICES ASSUME BudgetInv PROVE CoveredWithinBudget
  OBVIOUS
<1> DEFINE D == DOMAIN Recent
<1>0. LedgerTypeOK /\ WithinBudgets
  BY DEF BudgetInv, TypeOK
<1>1. D \subseteq Requests /\ IsFiniteSet(D)
  <2>1. D \subseteq Requests
    BY <1>0, RecentLedger DEF LedgerTypeOK
  <2> QED
    BY <2>1, AdmissionAssumption, FS_Subset
<1>2. ASSUME NEW S \in SUBSET D
      PROVE  /\ Total(Covered, S) <= Sum(Bounded, S)
             /\ Total(Covered, S) \in Nat /\ Sum(Bounded, S) \in Nat
  <2>1. /\ IsFiniteSet(S) /\ S \in SUBSET S
        /\ \A r \in S : Covered[r] \in Nat /\ Bounded[r] \in Nat /\ Covered[r] <= Bounded[r]
    BY <1>1, ChargesCover, FS_Subset
  <2>2. Total(Covered, S) = Sum(Covered, S)
    BY DEF Total, Sum
  <2> QED
    BY <2>1, <2>2, SumGrows, SumTakesOut
<1>3. Total(Covered, D) <= GlobalBudget
  <2>1. D \in SUBSET D /\ Sum(Bounded, D) <= GlobalBudget
    BY <1>0 DEF WithinBudgets
  <2> HIDE DEF D
  <2> QED
    BY <1>2, <2>1, AdmissionAssumption
<1>4. ASSUME NEW r \in D PROVE Total(Covered, OfUid(r, D)) <= UidBudget
  <2>1. OfUid(r, D) \in SUBSET D /\ Sum(Bounded, OfUid(r, D)) <= UidBudget
    BY <1>0, <1>1 DEF OfUid, WithinBudgets
  <2> HIDE DEF D
  <2> QED
    BY <1>2, <2>1, AdmissionAssumption
<1> QED
  BY <1>3, <1>4 DEF CoveredWithinBudget

(* Nobody reserves but by an admission, which fits.                         *)
LEMMA ReservationsFit ==
  BudgetInv /\ [Next]_vars =>
    \A r \in Requests : reserved'[r] # reserved[r] => Fits(r, reserved'[r])
<1> SUFFICES ASSUME BudgetInv, [Next]_vars, NEW r \in Requests, reserved'[r] # reserved[r]
             PROVE  Fits(r, reserved'[r])
  OBVIOUS
<1>1. PICK q \in Requests : Admitted(q)
  BY DEF vars, Next, HandlerStep, Tick, Refused, Inserts, InsertFails, Fails, Streams, Ends,
     Called, Settles, Marks, Dies, SweepReads, SweepStep, SweepFinalizes, SweepSettles,
     SweepMarks, SweepStops
<1>2. PICK estimate \in Estimates :
        Admit(q, estimate) /\ reserved' = [reserved EXCEPT ![q] = estimate]
  BY <1>1 DEF Admitted
<1>3. r = q /\ reserved'[r] = estimate
  BY <1>2 DEF BudgetInv, TypeOK
<1> QED
  BY <1>2, <1>3, AdmissionFits

(* As far as they had reserved it, what the upstream used for the requests  *)
(* of a window stays within the budgets of a person and of everybody,       *)
(* whether a request was settled with its usage, released without one,      *)
(* swept by the cron or lost; and whatever it overran, once the ledger was  *)
(* told, no admission of the window is made as if it had not.               *)
THEOREM SpendingKeepsToTheBudgets == Spec => SpentWithinBudget
<1>1. Spec => []BudgetInv
  BY BudgetInit, BudgetStep, PTL DEF Spec
<1>2. BudgetInv => CoveredWithinBudget
  BY BudgetsOfCovered
<1>3. BudgetInv /\ [Next]_vars =>
        [\A r \in Requests : reserved'[r] # reserved[r] => Fits(r, reserved'[r])]_vars
  BY ReservationsFit
<1> QED
  BY <1>1, <1>2, <1>3, PTL DEF Spec, SpentWithinBudget

=============================================================================
