------------------------------ MODULE SttClients ------------------------------
(***************************************************************************)
(* Any clients of the admission ledger.  A client is known by the session  *)
(* and token it was told, so duplicates of a session share a token; it may *)
(* claim and release at any time and more than once, while another of them *)
(* is still at work under the token, its answers may be lost, and it may   *)
(* vanish.  The callers in routes_ai.rs, routes_public.rs and              *)
(* routes_facetime.rs are such clients.                                    *)
(***************************************************************************)
EXTENDS SttAdmission

VARIABLES
  held,      \* <<session, token>> pairs clients hold
  working,   \* <<session, token, age>>: a granted claim whose work goes on, and
             \* the age of its reservation
  outlived,  \* history: pairs of work that goes on although its token was
             \* released
  charged    \* history: ticks since each session was last admitted afresh

clientsVars == <<slots, alarm, held, working, outlived, charged>>

ClientsInit ==
  /\ LedgerInit
  /\ held = {} /\ working = {} /\ outlived = {}
  /\ charged = [s \in Sessions |-> Window]

(* A fresh uuid is one that nobody holds.                                   *)
Unheld == Tokens \ ({p[2] : p \in held} \cup {slots[s].token : s \in DOMAIN slots})

Told(s, t) == held' \in {held, held \cup {<<s, t>>}}

Admitted(s) ==
  \E t \in Unheld :
    /\ AdmitFresh(s, t) /\ Told(s, t)
    /\ charged' = [charged EXCEPT ![s] = 0]
    /\ UNCHANGED <<working, outlived>>

Reacquired(s) ==
  \E t \in Unheld :
    /\ Reacquire(s, t) /\ Told(s, t)
    /\ UNCHANGED <<working, outlived, charged>>

Duplicated(s) ==
  /\ AdmitDuplicate(s) /\ Told(s, slots[s].token)
  /\ UNCHANGED <<working, outlived, charged>>

Refused(s) ==
  /\ Refuse(s)
  /\ UNCHANGED <<held, working, outlived, charged>>

Granted(p) ==
  /\ Claim(p[1], p[2])
  /\ working' \in {working, working \cup {<<p[1], p[2], slots[p[1]].age>>}}
  /\ UNCHANGED <<held, outlived, charged>>

Denied(p) ==
  /\ ClaimLate(p[1], p[2])
  /\ UNCHANGED <<held, working, outlived, charged>>

Without(p) == {w \in working : <<w[1], w[2]>> # p}

(* The worker releases its token when its work is over; another client of   *)
(* the session, or the reclaim of a stale attempt, releases the same token  *)
(* while the work may go on.  Either may come again.                        *)
Released(p) ==
  /\ Release(p[1], p[2])
  /\ working' \in {working, Without(p)}
  /\ outlived' = (outlived \cup {p}) \cap {<<w[1], w[2]>> : w \in working'}
  /\ UNCHANGED <<held, charged>>

(* The work under a token dies without a release; others may still know the *)
(* token.                                                                   *)
Vanish(p) ==
  /\ held' \in {held, held \ {p}} /\ working' = Without(p)
  /\ outlived' = outlived \ {p}
  /\ UNCHANGED <<slots, alarm, charged>>

ClientsAlarm ==
  /\ Alarm
  /\ UNCHANGED <<held, working, outlived, charged>>

ClientsTick ==
  /\ Pass
  /\ charged' = [s \in Sessions |-> Min({charged[s] + 1, Window})]
  /\ working' = {<<w[1], w[2], Min({w[3] + 1, Window})>> : w \in working}
  /\ UNCHANGED <<held, outlived>>

ClientsNext ==
  \/ \E s \in Sessions : Admitted(s) \/ Reacquired(s) \/ Duplicated(s) \/ Refused(s)
  \/ \E p \in held : Granted(p) \/ Denied(p) \/ Released(p) \/ Vanish(p)
  \/ ClientsAlarm \/ ClientsTick

(* Time passes, and the platform runs an alarm that is due.                 *)
ClientsSpec ==
  /\ ClientsInit /\ [][ClientsNext]_clientsVars
  /\ WF_clientsVars(ClientsAlarm) /\ WF_clientsVars(ClientsTick)

-----------------------------------------------------------------------------

ClientsTypeOK ==
  /\ LedgerTypeOK
  /\ held \subseteq Sessions \X Tokens
  /\ working \subseteq Sessions \X Tokens \X (0..Window)
  /\ outlived \subseteq Sessions \X Tokens
  /\ charged \in [Sessions -> 0..Window]

(* The ledger loses count of nobody whose token was not released: of the    *)
(* clients at work on a reservation of the last window under such a token,  *)
(* no account has more than its limit and all of them together no more than *)
(* theirs, whatever was claimed late, released twice, released under a      *)
(* token that was replaced, or admitted again in between.  It does not      *)
(* count work that goes on after a second client of the session, or the     *)
(* reclaim of a stale attempt, released its token, nor a client still at    *)
(* work on a reservation older than the window.                             *)
Covered == {w \in working : w[3] < Window /\ <<w[1], w[2]>> \notin outlived}

CoveredWithinLimits ==
  /\ Cardinality(Covered) <= GlobalInFlight
  /\ \A w \in Covered : Cardinality({v \in Covered : Uid[v[1]] = Uid[w[1]]}) <= UidInFlight

(* Releasing, expiring or losing a slot gives no budget back: what was      *)
(* admitted in the last window stays within the budgets.                    *)
Charged == {s \in Sessions : charged[s] < Window}

BudgetRemembered ==
  /\ Reserved(Charged) <= GlobalBudget
  /\ \A s \in Charged : Reserved(SameUid(s, Charged)) <= UidBudget

(* Of the clients that share a token only one is ever granted the claim,    *)
(* even if its work outlives a release of the token.                        *)
GrantedOnce == [][\A p \in held : Claim(p[1], p[2]) => Without(p) = working]_clientsVars

(* A slot nobody claims is not held for ever.                               *)
UnclaimedIsFreed ==
  \A s \in Sessions, t \in Tokens :
    (Holds(s, t) /\ slots[s].inFlight /\ slots[s].pending)
      ~> ~(Holds(s, t) /\ slots[s].inFlight /\ slots[s].pending)
=============================================================================
