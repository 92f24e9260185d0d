--------------------------- MODULE ProposalRegistry ---------------------------
(***************************************************************************)
(* The hub's ProposalRegistry (app/native/hub/src/approval.rs) as          *)
(* operators on its value: the proposals that await a decision, and the    *)
(* last TerminalCapacity that had one, forgotten in the order they ended.  *)
(*                                                                         *)
(* Abstraction: the uid of a fingerprint is its authority generation's.    *)
(* An id that comes again is bound to another observation of the screen,   *)
(* so its fingerprint differs and no registration is an exact replay.      *)
(***************************************************************************)
EXTENDS Naturals, Sequences, FiniteSets, FiniteSetsExt

CONSTANTS
  Proposals,
  PendingCapacity,    \* PENDING_PROPOSAL_CAPACITY
  TerminalCapacity    \* TERMINAL_PROPOSAL_CAPACITY

(* An overdue proposal is pending past its expires_at_ms, and not purged.   *)
Absent == [status |-> "absent", generation |-> 0, parent |-> "none"]

EmptyRegistry == [entry |-> [p \in Proposals |-> Absent], order |-> <<>>]

Overdue(R) == {p \in Proposals : R.entry[p].status = "overdue"}

Pending(R) == {p \in Proposals : R.entry[p].status \in {"pending", "overdue"}}

Known(R, p) == R.entry[p].status # "absent"

(* finish: from pending to terminal, and the oldest terminal one is dropped.*)
Finish(R, p, status) ==
  LET entry == [R.entry EXCEPT ![p].status = status]
      order == Append(R.order, p)
  IN  IF Len(order) > TerminalCapacity
      THEN [entry |-> [entry EXCEPT ![Head(order)] = Absent], order |-> Tail(order)]
      ELSE [entry |-> entry, order |-> order]

(* In whatever order the map hands them out.                                *)
FinishAll(R, S, status) ==
  FoldSet(LAMBDA p, T : Finish(T, p, status), R, S)

PurgeExpired(R) == FinishAll(R, Overdue(R), "expired")

(* register_bound of an id it does not know, with room.                     *)
Registered(R, p, generation, parent) ==
  [R EXCEPT !.entry[p] = [status |-> "pending", generation |-> generation, parent |-> parent]]

Registrable(R, p) == ~Known(R, p) /\ Cardinality(Pending(R)) < PendingCapacity

(* decide finds it pending, and under the caller's generation.              *)
Decidable(R, p, generation) ==
  R.entry[p].status = "pending" /\ R.entry[p].generation = generation

(* The refusal that is told apart: the proposal is too old.                 *)
DecidedTooLate(R, p, generation) ==
  R.entry[p].status = "expired" /\ R.entry[p].generation = generation

FinishExecution(R, p, status) ==
  IF R.entry[p].status = "approved" THEN [R EXCEPT !.entry[p].status = status] ELSE R

Of(R, generation) == {p \in Pending(R) : R.entry[p].generation = generation}

InvalidateParent(R, generation, parent) ==
  LET T == PurgeExpired(R)
  IN  FinishAll(T, {p \in Of(T, generation) : T.entry[p].parent = parent}, "invalidated")

(* Parent by parent, so it purges only if there is one.                     *)
InvalidateGeneration(R, generation) ==
  IF Of(R, generation) = {} THEN R
  ELSE LET T == PurgeExpired(R)
       IN  FinishAll(T, Of(T, generation), "invalidated")
=============================================================================
