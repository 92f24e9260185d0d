--------------------------- MODULE ManagedRequests ---------------------------
(***************************************************************************)
(* Managed AI requests (worker-rs/src/routes_ai.rs) over the assistant's   *)
(* admission ledger: the handlers of streamed completions and of inbox     *)
(* completions, which take a reservation, those of recordings and voice    *)
(* tokens, which take none, and the cron that sweeps the table             *)
(* managed_ai_requests (reconcile_managed_assistant_requests) for what they*)
(* left behind.  A handler may die at any point, a post to the ledger may  *)
(* be lost, and the sweep works from rows it read before.                  *)
(*                                                                         *)
(* Abstractions: request ids are fresh, complete and failed are one status,*)
(* what the upstream reports is what it used (it may be more or less than  *)
(* was reserved), and one cron entry stands for one row of a pass: passes  *)
(* that overlap are entries for the same row.                              *)
(***************************************************************************)
EXTENDS AssistantAdmission, Integers

CONSTANTS
  Usages,        \* what the upstream may use for a request
  Stale,         \* STALE_REQUEST_MS, in ticks
  MaxSweeps,     \* bound: the cron's entries at a time
  MaxStops       \* bound: entries and updates that come to nothing

ASSUME RequestsAssumption ==
  /\ Usages \subseteq Nat
  /\ Stale \in Nat \ {0} /\ MaxSweeps \in Nat \ {0} /\ MaxStops \in Nat

VARIABLES
  rows,       \* managed_ai_requests
  handler,    \* what the handler of each request is at
  sweeps,     \* the cron's entries: what it read, and what is left to do
  stops,      \* the entries and updates that came to nothing
  reserved,   \* history: what each request reserved
  spent,      \* history: what the upstream used for it
  told        \* history: the requests whose usage the ledger was told

vars == <<reservations, rows, handler, sweeps, stops, reserved, spent, told>>

Unknown == -1

Usage == Nat \cup {Unknown}

(* age: ticks since updated_at, until it is finalized.                      *)
Row == [status : {"absent", "started", "streaming", "ended"},
        finalized : BOOLEAN, settled : BOOLEAN, used : Usage, age : 0..Stale]

NoRow == [status |-> "absent", finalized |-> FALSE, settled |-> FALSE,
          used |-> Unknown, age |-> 0]

(* used: the usage it knows.  marks: whether it records the settlement.     *)
Handler == [at : {"new", "admitted", "asking", "streaming", "settling", "marking",
                  "calling", "gone"},
            used : Usage, marks : BOOLEAN]

Sweep == [request : Requests, at : {"finalizing", "settling", "marking"}, used : Usage]

New == [at |-> "new", used |-> Unknown, marks |-> FALSE]
Gone == [New EXCEPT !.at = "gone"]

Init ==
  /\ LedgerInit
  /\ rows = [r \in Requests |-> NoRow]
  /\ handler = [r \in Requests |-> New]
  /\ sweeps = {} /\ stops = 0
  /\ reserved = [r \in Requests |-> 0]
  /\ spent = [r \in Requests |-> 0]
  /\ told = {}

At(r, at) == handler[r].at = at
Goes(r, at) == handler' = [handler EXCEPT ![r].at = at]
Leaves(r) == handler' = [handler EXCEPT ![r] = Gone]

-----------------------------------------------------------------------------
(* A handler                                                                *)

(* An update nobody checks: it may fail.                                    *)
Written(r, row) ==
  \/ rows' = [rows EXCEPT ![r] = row] /\ UNCHANGED stops
  \/ rows' = rows /\ stops < MaxStops /\ stops' = stops + 1

(* The answer may be lost: 503, and nobody releases.                        *)
Admitted(r) ==
  /\ At(r, "new")
  /\ \E estimate \in Estimates :
       /\ Admit(r, estimate)
       /\ reserved' = [reserved EXCEPT ![r] = estimate]
  /\ Goes(r, "admitted") \/ Leaves(r)
  /\ UNCHANGED <<rows, sweeps, stops, spent, told>>

Refused(r) ==
  /\ At(r, "new")
  /\ \E estimate \in Estimates : Refuse(r, estimate)
  /\ Leaves(r)
  /\ UNCHANGED <<rows, sweeps, stops, reserved, spent, told>>

(* insert_managed_request, with which a recording or a voice token starts.  *)
Inserts(r) ==
  /\ rows' = [rows EXCEPT ![r].status = "started"]
  /\ \/ At(r, "admitted") /\ Goes(r, "asking")
     \/ At(r, "new") /\ Goes(r, "calling")
  /\ UNCHANGED <<reservations, sweeps, stops, reserved, spent, told>>

(* Its failure gives the slot back, if that post gets through.              *)
InsertFails(r) ==
  /\ At(r, "admitted")
  /\ reservations' \in {reservations, Released(r)}
  /\ Leaves(r)
  /\ UNCHANGED <<rows, sweeps, stops, reserved, spent, told>>

(* WHERE finalized_at IS NULL.                                              *)
Finalized(row, used) ==
  IF row.finalized THEN row
  ELSE [row EXCEPT !.status = "ended", !.finalized = TRUE, !.age = 0,
                   !.used = IF used = Unknown THEN @ ELSE used]

(* The upstream cannot be reached or refuses.  The streaming route releases *)
(* and leaves the rest to the cron; the inbox records the settlement too.   *)
Fails(r) ==
  /\ At(r, "asking")
  /\ Written(r, Finalized(rows[r], Unknown))
  /\ \E marks \in BOOLEAN :
       handler' = [handler EXCEPT ![r].at = "settling", ![r].marks = marks]
  /\ UNCHANGED <<reservations, sweeps, reserved, spent, told>>

(* mark_streaming, whatever became of the row meanwhile.                    *)
Streams(r) ==
  /\ At(r, "asking")
  /\ Written(r, [rows[r] EXCEPT !.status = "streaming", !.age = 0])
  /\ Goes(r, "streaming")
  /\ UNCHANGED <<reservations, sweeps, reserved, spent, told>>

(* The stream is at its end, or the inbox has its completion: the usage may *)
(* be missing or unreadable.                                                *)
Ends(r) ==
  /\ At(r, "streaming") \/ At(r, "asking")
  /\ \E used \in Usages :
       \E read \in {used, Unknown} :
         /\ Written(r, Finalized(rows[r], read))
         /\ handler' = [handler EXCEPT ![r].at = "settling", ![r].used = read,
                                       ![r].marks = TRUE]
         /\ spent' = [spent EXCEPT ![r] = used]
  /\ UNCHANGED <<reservations, sweeps, reserved, told>>

(* A recording or a voice token, either way.                                *)
Called(r) ==
  /\ At(r, "calling")
  /\ rows' = [rows EXCEPT ![r] = Finalized(@, Unknown)]
  /\ Leaves(r)
  /\ UNCHANGED <<reservations, sweeps, stops, reserved, spent, told>>

Slip_Freed(r, used) == Settled(r, IF used = Unknown THEN 0 ELSE used)

(* /settle with what was used, be it more than was reserved, or /release.   *)
Freed(r, used) == IF used = Unknown THEN Released(r) ELSE Settled(r, used)

(* What the ledger has been told of after a post.                           *)
Told(r, used) == told \cup {q \in {r} : used # Unknown}

Settles(r) ==
  /\ At(r, "settling")
  /\ reservations' = Freed(r, handler[r].used)
  /\ told' = Told(r, handler[r].used)
  /\ IF handler[r].marks THEN Goes(r, "marking") ELSE Leaves(r)
  /\ UNCHANGED <<rows, sweeps, stops, reserved, spent>>

Marks(r) ==
  /\ At(r, "marking")
  /\ rows' = [rows EXCEPT ![r].settled = TRUE, ![r].age = 0]
  /\ Leaves(r)
  /\ UNCHANGED <<reservations, sweeps, stops, reserved, spent, told>>

(* The isolate dies, the client hangs up, or a post is lost.  The upstream  *)
(* may have worked for it.                                                  *)
Dies(r) ==
  /\ handler[r].at \notin {"new", "gone"}
  /\ Leaves(r)
  /\ IF At(r, "asking") \/ At(r, "streaming")
     THEN \E used \in Usages \cup {0} : spent' = [spent EXCEPT ![r] = used]
     ELSE UNCHANGED spent
  /\ UNCHANGED <<reservations, rows, sweeps, stops, reserved, told>>

-----------------------------------------------------------------------------
(* The cron                                                                 *)

Slip_Due(row) == ~row.settled /\ row.status # "absent"

Slip_Overlooked(row) ==
  /\ ~row.settled
  /\ row.finalized \/ (row.status = "started" /\ row.age = Stale)

(* What a pass selects.                                                     *)
Due(row) ==
  /\ ~row.settled
  /\ row.finalized \/ (row.status \in {"started", "streaming"} /\ row.age = Stale)

SweepReads(r) ==
  /\ Due(rows[r]) /\ Cardinality(sweeps) < MaxSweeps
  /\ sweeps' = sweeps \cup
       {[request |-> r, at |-> IF rows[r].finalized THEN "settling" ELSE "finalizing",
         used |-> rows[r].used]}
  /\ UNCHANGED <<reservations, rows, handler, stops, reserved, spent, told>>

Onward(e, at) == sweeps' = (sweeps \ {e}) \cup {[e EXCEPT !.at = at]}

SweepFinalizes(e) ==
  /\ e.at = "finalizing"
  /\ Written(e.request, Finalized(rows[e.request], Unknown))
  /\ Onward(e, "settling")
  /\ UNCHANGED <<reservations, handler, reserved, spent, told>>

Slip_SweepSettles(e) ==
  /\ e.at = "settling"
  /\ reservations' \in {reservations, Freed(e.request, e.used)}
  /\ told' = Told(e.request, e.used)
  /\ Onward(e, "marking")
  /\ UNCHANGED <<rows, handler, stops, reserved, spent>>

(* With what the row said when it was read.                                 *)
SweepSettles(e) ==
  /\ e.at = "settling"
  /\ reservations' = Freed(e.request, e.used)
  /\ told' = Told(e.request, e.used)
  /\ Onward(e, "marking")
  /\ UNCHANGED <<rows, handler, stops, reserved, spent>>

SweepMarks(e) ==
  /\ e.at = "marking"
  /\ rows' = [rows EXCEPT ![e.request].settled = TRUE, ![e.request].age = 0]
  /\ sweeps' = sweeps \ {e}
  /\ UNCHANGED <<reservations, handler, stops, reserved, spent, told>>

(* The pass dies, or the post is lost.                                      *)
SweepStops(e) ==
  /\ stops < MaxStops /\ stops' = stops + 1
  /\ sweeps' = sweeps \ {e}
  /\ UNCHANGED <<reservations, rows, handler, reserved, spent, told>>

-----------------------------------------------------------------------------

Upto(n, most) == IF n < most THEN n + 1 ELSE most

Tick ==
  /\ reservations' = Aged
  /\ rows' = [r \in Requests |->
                IF rows[r].status = "absent" \/ rows[r].finalized THEN rows[r]
                ELSE [rows[r] EXCEPT !.age = Upto(@, Stale)]]
  /\ UNCHANGED <<handler, sweeps, stops, reserved, spent, told>>

HandlerStep(r) ==
  \/ Admitted(r) \/ Refused(r) \/ Inserts(r) \/ InsertFails(r) \/ Fails(r)
  \/ Streams(r) \/ Ends(r) \/ Called(r) \/ Settles(r) \/ Marks(r) \/ Dies(r)

SweepStep(e) == SweepFinalizes(e) \/ SweepSettles(e) \/ SweepMarks(e)

Next ==
  \/ Tick
  \/ \E r \in Requests : HandlerStep(r) \/ SweepReads(r)
  \/ \E e \in sweeps : SweepStep(e) \/ SweepStops(e)

(* Time passes, the cron comes round, and goes on with what it read.        *)
Spec ==
  /\ Init /\ [][Next]_vars
  /\ WF_vars(Tick)
  /\ WF_vars(\E r \in Requests : SweepReads(r))
  /\ WF_vars(\E e \in sweeps : SweepStep(e))

-----------------------------------------------------------------------------

TypeOK ==
  /\ LedgerTypeOK
  /\ rows \in [Requests -> Row]
  /\ handler \in [Requests -> Handler]
  /\ sweeps \subseteq Sweep /\ stops \in 0..MaxStops
  /\ reserved \in [Requests -> Nat] /\ spent \in [Requests -> Nat]
  /\ told \subseteq Requests

(* Requests at work keep to the limits in flight, for as long as the cron   *)
(* may not call them stale: none of its late posts frees the slot of one    *)
(* that still runs.                                                         *)
Working ==
  {r \in Requests : /\ handler[r].at \in {"admitted", "asking", "streaming"}
                    /\ r \in DOMAIN reservations /\ reservations[r].age < Stale}

WorkingWithinLimits ==
  /\ Cardinality(Working) <= GlobalInFlight
  /\ \A r \in Working : Cardinality(OfUid(r, Working)) <= UidInFlight

(* What the upstream used for a request, as far as it had reserved it, and  *)
(* what of that the ledger must count: all of it, once it was told.         *)
Least(m, n) == IF m < n THEN m ELSE n

Covered == [r \in Requests |-> Least(spent[r], reserved[r])]

Counted == [r \in Requests |-> IF r \in told THEN spent[r] ELSE Covered[r]]

Total(uses, S) == MapThenSumSet(LAMBDA r : uses[r], S)

CoveredWithinBudget ==
  LET S == DOMAIN Recent
  IN /\ Total(Covered, S) <= GlobalBudget
     /\ \A r \in S : Total(Covered, OfUid(r, S)) <= UidBudget

Fits(r, estimate) ==
  LET S == DOMAIN Recent
  IN /\ Total(Counted, S) + estimate <= GlobalBudget
     /\ Total(Counted, OfUid(r, S)) + estimate <= UidBudget

(* The upstream may use more for a request than it reserved.  Only by that  *)
(* can a window's requests exceed the budgets, whether they were settled,   *)
(* released, swept or lost; and what they overran counts against every      *)
(* admission of the window from the moment the ledger is told, whatever late*)
(* release or second settlement follows.                                    *)
SpentWithinBudget ==
  /\ []CoveredWithinBudget
  /\ [][\A r \in Requests : reserved'[r] # reserved[r] => Fits(r, reserved'[r])]_vars

(* A row that says its admission is settled holds no slot: the mark follows *)
(* the post, of whichever of the two made it.                               *)
SettledHoldsNothing ==
  \A r \in Requests : rows[r].settled /\ r \in DOMAIN reservations => ~reservations[r].inFlight

(* Every row is settled in the end, whoever died over it.                   *)
AllSettled == []<>(\A r \in Requests : rows[r].status # "absent" => rows[r].settled)

=============================================================================
