------------------------------- MODULE MemorySync -------------------------------
(***************************************************************************)
(* Memory sync of one account: its devices, the Worker's requests, the log *)
(* between them.                                                           *)
(***************************************************************************)
EXTENDS MemoryReplicas

CONSTANTS
  MaxFaults    \* bound: requests given up or dead, restarts, failed calls

ASSUME SyncAssumption == MaxFaults \in Nat

VARIABLE faults

vars == <<logVars, uploadVars, mirrorVars, faults>>

Init == LogInit /\ ReplicaInit /\ faults = 0

Fault == faults < MaxFaults /\ faults' = faults + 1

Works(h) ==
  /\ \/ HandlerStep(h) /\ UNCHANGED uploadVars
     \/ \E d \in Devices : Acknowledged(d, h)
     \/ Unheard(h)
  /\ UNCHANGED <<mirrorVars, faults>>

Sends(d) == \E h \in Handlers : Uploads(d, h) /\ UNCHANGED <<mirrorVars, faults>>

RequestLost ==
  /\ Fault /\ UNCHANGED mirrorVars
  /\ (\E d \in Devices : GivesUp(d)) \/ \E h \in Handlers : RequestDies(h)

Pulls == PullStep /\ UNCHANGED <<logVars, uploadVars, faults>>

PullBroken ==
  /\ Fault /\ UNCHANGED <<logVars, uploadVars>>
  /\ FetchFails \/ HubFails \/ Restarts \/ AnswersLate

Next ==
  \/ \E h \in Handlers : Works(h)
  \/ \E d \in Devices : Sends(d)
  \/ RequestLost \/ Pulls \/ PullBroken

Spec == Init /\ [][Next]_vars /\ WF_vars(Pulls)

-----------------------------------------------------------------------------

TypeOK == LogTypeOK /\ ReplicaTypeOK /\ faults \in 0..MaxFaults

Replayed(n) == Ascending(Folded, [k \in Keys |-> NoRow], 1..n)

(* However projections overlap and whichever of them stop half way,         *)
(* memory_records is what replaying a prefix of the log from zero gives,    *)
(* and the prefix covers what memory_projection_state says was projected.   *)
RecordsReplayTheLog == \E n \in projected..Len(log) : rows = Replayed(n)

(* A source the projected log deletes is not shown again, whatever slower   *)
(* projection or repeated commit comes after.                               *)
DeletedIsGone ==
  \A m, n \in 1..projected :
    m < n /\ log[n].key[1] = "deletion" /\ log[m].key = <<"source", log[n].key[2]>>
      => views[log[n].key[2]] # "live"

(* The device's cursor passes no event that could be lost: the Worker has   *)
(* it staged, and a commit that is wholly past the cursor is in the log.    *)
AcknowledgedIsKept ==
  \A d \in Devices :
    /\ 1..cursor[d] \subseteq staged[d]
    /\ \A e \in 1..cursor[d] :
         EventsOf(d, Local[d][e].commit) \subseteq 1..cursor[d]
           => \E n \in DOMAIN log : log[n] = Entry(d, e)

(* What the mirror counts as mirrored is in the hub's database: the cursor  *)
(* skips no record of another device.                                       *)
MirrorSkipsNothing ==
  \A n \in 1..Max({mirrorCursor, mirrored}) :
    log[n].origin # Mirror => n \in held

InTime == pull.at = "idle" => highWater <= mirrored

(* The mirror comes to hold every record other devices have in the log,     *)
(* whatever failed on the way, unless the hub applied a page the store no   *)
(* longer waited for.                                                       *)
MirrorCatchesUp ==
  []InTime => []<>(\A n \in DOMAIN log : log[n].origin # Mirror => n \in held)

(* "Replays are idempotent and do not reorder": a device's later revision   *)
(* of a record is not followed by an earlier one.                           *)
ReplaysKeepTheirPlace ==
  \A m, n \in DOMAIN log :
    m < n /\ log[m].origin = log[n].origin /\ log[m].key = log[n].key
      => log[m].value < log[n].value
=============================================================================
