------------------------------- MODULE MemoryLog -------------------------------
(***************************************************************************)
(* The authoritative memory log of one account (memory_log.rs and the sync *)
(* handler in routes_memory/wasm_glue.rs).  Devices upload pages of their  *)
(* local commits; a handler stages the events, appends a complete commit's *)
(* records to the log, folds the log into memory_records and derives the   *)
(* read tables from it.  Requests run side by side: a device that gave up  *)
(* on one sends the page again while the first still runs.                 *)
(*                                                                         *)
(* Abstractions: a source or the deletion of one stands for the eight      *)
(* record kinds, its payload is a number, the only read table is           *)
(* memory_sources.  A device's local log never changes, so the 409 answers *)
(* to a diverged replay do not occur.  Every database call is one step; a  *)
(* batch is a transaction.                                                 *)
(***************************************************************************)
EXTENDS Integers, Sequences, FiniteSetsExt

CONSTANTS
  Devices,     \* the replicas
  Sources,     \* ids of sources
  Local,       \* each device's log: a sequence of events
  Handlers,    \* sync requests the Worker runs at a time
  LogPage      \* rows of the log a projection reads at a time

Keys == {"source", "deletion"} \X Sources

(* A commit's events follow one another: a page has a window of them.       *)
ASSUME MemoryLogAssumption ==
  /\ \A d \in Devices :
       /\ Local[d] \in Seq([commit : Nat, key : Keys, value : Nat])
       /\ \A i, k \in DOMAIN Local[d] :
            Local[d][i].commit = Local[d][k].commit
              => \A j \in i..k : Local[d][j].commit = Local[d][i].commit
  /\ LogPage \in Nat \ {0}

VARIABLES
  log,        \* memory_log, by sequence
  staged,     \* zkr_sync_events: the events the Worker has of each device
  applied,    \* zkr_sync_commits: the commits with an applied_at
  rows,       \* memory_records; sequence 0 where there is none
  projected,  \* memory_projection_state
  views,      \* memory_sources
  handler     \* what each request is at

logVars == <<log, staged, applied, rows, projected, views, handler>>

Free == [at |-> "idle", dev |-> "none", first |-> 0, last |-> 0,
         cursor |-> 0, upto |-> 0, then |-> "none"]

NoRow == [sequence |-> 0, value |-> 0, deleted |-> FALSE]

LogInit ==
  /\ log = <<>>
  /\ staged = [d \in Devices |-> {}]
  /\ applied = [d \in Devices |-> {}]
  /\ rows = [k \in Keys |-> NoRow]
  /\ projected = 0
  /\ views = [x \in Sources |-> "none"]
  /\ handler = [h \in Handlers |-> Free]

At(h, here) == handler[h].at = here
Goes(h, there) == handler' = [handler EXCEPT ![h].at = there]

Entry(d, e) == [origin |-> d, key |-> Local[d][e].key, value |-> Local[d][e].value]

EventsOf(d, c) == {e \in DOMAIN Local[d] : Local[d][e].commit = c}

(* Op over the numbers of S, from the lowest up.                            *)
Ascending(Op(_, _), base, S) ==
  MapThenFoldSet(Op, base, LAMBDA n : n, LAMBDA T : Max(T), S)

-----------------------------------------------------------------------------
(* A page of events.  Reading may project first (ensure_projected).         *)

Receives(h, d, first, last) ==
  /\ At(h, "idle")
  /\ handler' = [handler EXCEPT ![h] =
       [at |-> "ensure", dev |-> d, first |-> first, last |-> last,
        cursor |-> 0, upto |-> 0, then |-> "none"]]

Ensures(h) ==
  /\ At(h, "ensure")
  /\ handler' = [handler EXCEPT
       ![h].at = IF Len(log) > projected THEN "cursor" ELSE "stage",
       ![h].then = IF Len(log) > projected THEN "stage" ELSE "none"]
  /\ UNCHANGED <<log, staged, applied, rows, projected, views>>

Commit(h) == Local[handler[h].dev][handler[h].first].commit
Slice(h) == EventsOf(handler[h].dev, Commit(h)) \cap (handler[h].first..handler[h].last)

(* INSERT OR IGNORE of the commit and of the events the page has of it.     *)
Stages(h) ==
  /\ At(h, "stage")
  /\ staged' = [staged EXCEPT ![handler[h].dev] = @ \cup Slice(h)]
  /\ Goes(h, "check")
  /\ UNCHANGED <<log, applied, rows, projected, views>>

(* The request f goes on with the next commit of its page, or is answered.  *)
Onward(f, size) ==
  LET next == f.first + size
  IN [f EXCEPT !.at = IF next > f.last THEN "done" ELSE "stage", !.first = next]

(* Slip: one of a commit's events makes it complete.                        *)
Slip_Complete(d, c) == EventsOf(d, c) \cap staged[d] # {}

(* An incomplete commit stays staged; one applied is only projected again.  *)
Complete(d, c) == EventsOf(d, c) \subseteq staged[d]

Checks(h) ==
  /\ At(h, "check")
  /\ LET d == handler[h].dev IN
     handler' = [handler EXCEPT ![h] =
       IF ~Complete(d, Commit(h)) THEN Onward(@, Cardinality(Slice(h)))
       ELSE IF Commit(h) \in applied[d] THEN [@ EXCEPT !.at = "cursor", !.then = "next"]
       ELSE [@ EXCEPT !.at = "append"]]
  /\ UNCHANGED <<log, staged, applied, rows, projected, views>>

(* APPEND_SQL: nothing, if the newest entry of the identity says the same.  *)
Appended(entries, r) ==
  LET same == {n \in DOMAIN entries : entries[n].origin = r.origin /\ entries[n].key = r.key}
  IN IF same # {} /\ entries[Max(same)].value = r.value
     THEN entries ELSE Append(entries, r)

Appends(h) ==
  /\ At(h, "append")
  /\ LET d == handler[h].dev IN
     log' = Ascending(LAMBDA e, l : Appended(l, Entry(d, e)), log,
                      EventsOf(d, Commit(h)) \cap staged[d])
  /\ handler' = [handler EXCEPT ![h].at = "cursor", ![h].then = "mark"]
  /\ UNCHANGED <<staged, applied, rows, projected, views>>

-----------------------------------------------------------------------------
(* project_zkr_memory                                                       *)

ReadsCursor(h) ==
  /\ At(h, "cursor")
  /\ handler' = [handler EXCEPT ![h].at = "rows", ![h].cursor = projected]
  /\ UNCHANGED <<log, staged, applied, rows, projected, views>>

ReadsRows(h) ==
  /\ At(h, "rows")
  /\ LET upto == Min({handler[h].cursor + LogPage, Len(log)}) IN
     handler' = [handler EXCEPT
       ![h].at = IF upto = handler[h].cursor THEN "views" ELSE "fold",
       ![h].upto = IF upto = handler[h].cursor THEN 0 ELSE upto]
  /\ UNCHANGED <<log, staged, applied, rows, projected, views>>

(* Slip: the upsert overwrites a later revision.                            *)
Slip_Newer(row, n) == TRUE

(* The upsert of entry n.                                                   *)
Newer(row, n) == n >= row.sequence

Deletes(n) == log[n].key[1] = "deletion"

Upserted(row, n) ==
  IF Newer(row, n)
    THEN [sequence |-> n, value |-> log[n].value, deleted |-> row.deleted \/ Deletes(n)]
    ELSE row

(* What the deletion n makes of its target's row, if there is one.          *)
Tombstoned(row, n) ==
  IF row.sequence \in 1..n
    THEN [sequence |-> n, value |-> row.value, deleted |-> TRUE]
    ELSE row

Folded(n, table) ==
  [k \in Keys |->
     IF k = log[n].key THEN Upserted(table[k], n)
     ELSE IF Deletes(n) /\ k = <<"source", log[n].key[2]>> THEN Tombstoned(table[k], n)
     ELSE table[k]]

Folds(h) ==
  /\ At(h, "fold")
  /\ rows' = Ascending(Folded, rows, (handler[h].cursor + 1)..handler[h].upto)
  /\ handler' = [handler EXCEPT ![h].at = "rows", ![h].cursor = handler[h].upto,
                                ![h].upto = 0]
  /\ UNCHANGED <<log, staged, applied, projected, views>>

(* Slip: a source's tombstone is not carried over.                          *)
Slip_Shown(row, before) == IF row.sequence = 0 THEN before ELSE "live"

Shown(row, before) ==
  IF row.sequence = 0 THEN before ELSE IF row.deleted THEN "deleted" ELSE "live"

Views(h) ==
  /\ At(h, "views")
  /\ views' = [x \in Sources |-> Shown(rows[<<"source", x>>], views[x])]
  /\ Goes(h, "save")
  /\ UNCHANGED <<log, staged, applied, rows, projected>>

Saves(h) ==
  /\ At(h, "save")
  /\ projected' = Max({projected, handler[h].cursor})
  /\ LET over == [handler[h] EXCEPT !.cursor = 0, !.then = "none"] IN
     handler' = [handler EXCEPT ![h] =
       IF handler[h].then = "next" THEN Onward(over, Cardinality(Slice(h)))
       ELSE [over EXCEPT !.at = handler[h].then]]
  /\ UNCHANGED <<log, staged, applied, rows, views>>

(* Back in apply_commit: the commit is applied.                             *)
Marks(h) ==
  /\ At(h, "mark")
  /\ applied' = [applied EXCEPT ![handler[h].dev] = @ \cup {Commit(h)}]
  /\ handler' = [handler EXCEPT ![h] = Onward(@, Cardinality(Slice(h)))]
  /\ UNCHANGED <<log, staged, rows, projected, views>>

HandlerStep(h) ==
  \/ Ensures(h) \/ Stages(h) \/ Checks(h) \/ Appends(h) \/ ReadsCursor(h)
  \/ ReadsRows(h) \/ Folds(h) \/ Views(h) \/ Saves(h) \/ Marks(h)

(* The request is over: answered, or its isolate evicted, a call failed.    *)
Ends(h) ==
  /\ handler' = [handler EXCEPT ![h] = Free]
  /\ UNCHANGED <<log, staged, applied, rows, projected, views>>

Request ==
  [at : {"idle", "ensure", "stage", "check", "append", "cursor", "rows", "fold",
         "views", "save", "mark", "done"},
   dev : Devices \cup {"none"}, first : Nat, last : Nat,
   cursor : 0..Len(log), upto : 0..Len(log), then : {"none", "stage", "mark", "next"}]

LogTypeOK ==
  /\ log \in Seq([origin : Devices, key : Keys, value : Nat])
  /\ staged \in [Devices -> SUBSET Nat] /\ applied \in [Devices -> SUBSET Nat]
  /\ rows \in [Keys -> [sequence : 0..Len(log), value : Nat, deleted : BOOLEAN]]
  /\ projected \in 0..Len(log)
  /\ views \in [Sources -> {"none", "live", "deleted"}]
  /\ handler \in [Handlers -> Request]
=============================================================================
