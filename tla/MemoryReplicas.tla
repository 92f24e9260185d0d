----------------------------- MODULE MemoryReplicas -----------------------------
(***************************************************************************)
(* A device's side of memory sync: the pump that uploads its local log     *)
(* (memory_sync.dart) and the pump that mirrors the account's log into the *)
(* hub's database (memory_mirror.dart, apply_memory in the hub's           *)
(* runtime.rs).  One device mirrors; any may upload.                       *)
(*                                                                         *)
(* Abstractions: an uploaded page ends where the device's log ended or its *)
(* limit was; the retry timer is the freedom to start again.  The hub's    *)
(* database is the set of log sequences it was given.                      *)
(***************************************************************************)
EXTENDS MemoryLog

CONSTANTS
  Mirror,      \* the device that mirrors
  PageSize,    \* events of an uploaded page
  PullSize     \* pageSize of a pull

ASSUME ReplicaAssumption ==
  /\ Mirror \in Devices /\ PageSize \in Nat \ {0} /\ PullSize \in Nat \ {0}
  /\ "none" \notin Handlers

VARIABLES
  cursor,      \* preferences: local events each device saw acknowledged
  waits,       \* the request each device waits for
  mirrorCursor,\* preferences: memory-mirror-cursor-v1
  mirrored,    \* _mirroredSequence of the store, in memory
  highWater,   \* memory_mirror_high_water of the hub, in memory
  held,        \* the hub's database: log sequences applied to it
  pull         \* the pull that runs

uploadVars == <<cursor, waits>>
mirrorVars == <<mirrorCursor, mirrored, highWater, held, pull>>

Resting == [at |-> "idle", after |-> 0, upto |-> 0, complete |-> FALSE]

ReplicaInit ==
  /\ cursor = [d \in Devices |-> 0]
  /\ waits = [d \in Devices |-> "none"]
  /\ mirrorCursor = 0 /\ mirrored = 0 /\ highWater = 0
  /\ held = {} /\ pull = Resting

-----------------------------------------------------------------------------
(* MemorySyncPump                                                           *)

Uploads(d, h) ==
  /\ waits[d] = "none"
  /\ \E last \in (cursor[d] + 1)..Min({cursor[d] + PageSize, Len(Local[d])}) :
       Receives(h, d, cursor[d] + 1, last)
  /\ waits' = [waits EXCEPT ![d] = h]
  /\ UNCHANGED <<cursor, log, staged, applied, rows, projected, views>>

(* Slip: the cursor is that of the event after the page.                    *)
Slip_Acknowledged(d, h) ==
  /\ waits[d] = h /\ At(h, "done")
  /\ cursor' = [cursor EXCEPT ![d] = handler[h].last + 1]
  /\ waits' = [waits EXCEPT ![d] = "none"]
  /\ Ends(h)

(* Every status of an answer, "staged" too, moves the cursor past the page. *)
Acknowledged(d, h) ==
  /\ waits[d] = h /\ At(h, "done")
  /\ cursor' = [cursor EXCEPT ![d] = handler[h].last]
  /\ waits' = [waits EXCEPT ![d] = "none"]
  /\ Ends(h)

(* The device hears no answer in time, or its process dies.                 *)
GivesUp(d) ==
  /\ waits[d] # "none"
  /\ waits' = [waits EXCEPT ![d] = "none"]
  /\ UNCHANGED <<cursor, logVars>>

(* An answer nobody waits for.                                              *)
Unheard(h) ==
  /\ At(h, "done") /\ \A d \in Devices : waits[d] # h
  /\ Ends(h)
  /\ UNCHANGED uploadVars

RequestDies(h) ==
  /\ ~At(h, "idle")
  /\ Ends(h)
  /\ waits' = [d \in Devices |-> IF waits[d] = h THEN "none" ELSE waits[d]]
  /\ UNCHANGED cursor

-----------------------------------------------------------------------------
(* MemoryMirrorPump                                                         *)

PullStarts ==
  /\ pull.at = "idle"
  /\ pull' = [Resting EXCEPT !.at = "fetch", !.after = Min({mirrorCursor, mirrored})]
  /\ UNCHANGED <<mirrorCursor, mirrored, highWater, held>>

(* The page and the head are read one after the other; the page says        *)
(* complete if it reached the head.                                         *)
Fetches ==
  /\ pull.at = "fetch"
  /\ LET upto == Min({pull.after + PullSize, Len(log)}) IN
     pull' = IF upto <= pull.after THEN Resting
             ELSE [pull EXCEPT !.at = "apply", !.upto = upto, !.complete = upto = Len(log)]
  /\ UNCHANGED <<mirrorCursor, mirrored, highWater, held>>

FetchFails ==
  /\ pull.at = "fetch"
  /\ pull' = Resting
  /\ UNCHANGED <<mirrorCursor, mirrored, highWater, held>>

Page == (pull.after + 1)..pull.upto
Foreign == {n \in Page : log[n].origin # Mirror}

(* Slip: the hub wants the next sequence, own records left out or not.      *)
Slip_Accepts == Min(Foreign) = highWater + 1

(* The hub takes only sequences above the last it was given.                *)
Accepts == \A n \in Foreign : n > highWater

HubApplies ==
  /\ Foreign # {} /\ Accepts
  /\ held' = held \cup Foreign
  /\ highWater' = Max(Foreign)

(* A page with nothing foreign never reaches the hub.                       *)
Applies ==
  /\ pull.at = "apply"
  /\ HubApplies \/ (Foreign = {} /\ UNCHANGED <<held, highWater>>)
  /\ mirrored' = Max({mirrored, pull.upto})
  /\ pull' = [pull EXCEPT !.at = "save"]
  /\ UNCHANGED mirrorCursor

Refused ==
  /\ pull.at = "apply" /\ Foreign # {} /\ ~Accepts
  /\ pull' = Resting
  /\ UNCHANGED <<mirrorCursor, mirrored, highWater, held>>

(* Slip: the hub's error is taken for an answer.                            *)
Slip_HubFails ==
  /\ pull.at = "apply" /\ Foreign # {}
  /\ mirrored' = Max({mirrored, pull.upto})
  /\ pull' = [pull EXCEPT !.at = "save"]
  /\ UNCHANGED <<mirrorCursor, highWater, held>>

(* The hub's database fails; nothing is applied.                            *)
HubFails ==
  /\ pull.at = "apply" /\ Foreign # {}
  /\ pull' = Resting
  /\ UNCHANGED <<mirrorCursor, mirrored, highWater, held>>

(* The hub answers after the 30 seconds the store waits.                    *)
AnswersLate ==
  /\ pull.at = "apply"
  /\ HubApplies
  /\ pull' = Resting
  /\ UNCHANGED <<mirrorCursor, mirrored>>

SavesCursor ==
  /\ pull.at = "save"
  /\ mirrorCursor' = pull.upto
  /\ pull' = IF pull.complete THEN Resting
             ELSE [Resting EXCEPT !.at = "fetch", !.after = pull.upto]
  /\ UNCHANGED <<mirrored, highWater, held>>

(* The app's process restarts, the hub with it.                             *)
Restarts ==
  /\ mirrored' = 0 /\ highWater' = 0 /\ pull' = Resting
  /\ UNCHANGED <<mirrorCursor, held>>

PullStep == PullStarts \/ Fetches \/ Applies \/ Refused \/ SavesCursor

ReplicaTypeOK ==
  /\ cursor \in [Devices -> Nat] /\ \A d \in Devices : cursor[d] <= Len(Local[d])
  /\ waits \in [Devices -> Handlers \cup {"none"}]
  /\ mirrorCursor \in 0..Len(log) /\ mirrored \in 0..Len(log) /\ highWater \in 0..Len(log)
  /\ held \subseteq 1..Len(log)
  /\ pull \in [at : {"idle", "fetch", "apply", "save"}, after : 0..Len(log),
               upto : 0..Len(log), complete : BOOLEAN]
=============================================================================
