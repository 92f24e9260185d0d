-------------------------- MODULE CurrentExecutions --------------------------
(***************************************************************************)
(* The Worker's side of Currents: the cards (table currents) and the       *)
(* execution each accepted card gets (table current_executions).  An       *)
(* execution is approved once, for one proposal; its receipt is claimed    *)
(* once; and its outcome is reported once                                  *)
(* (worker-rs/src/routes_memory/wasm_glue.rs).  Every request is one batch *)
(* of D1, hence one step.                                                  *)
(*                                                                         *)
(* Abstractions: one account.  Nonce and receipt token are only known to   *)
(* who was given them, so they name the execution.  A proposal stands for  *)
(* its id, operation, action hash and risk.  Deadlines are not timed: one  *)
(* may pass at any moment at which something depends on it.                *)
(***************************************************************************)
CONSTANTS
  Cards,        \* cards of the account
  Proposals,    \* actions the assistant proposes
  NoProposal    \* no proposal

VARIABLES
  card,        \* currents.status
  given,       \* surfaced or snoozed cards with a row of current_feedback
  execution    \* the row of current_executions; state "none" before accept

rows == <<card, given, execution>>

CardStatus == {"surfaced", "snoozed", "dismissed", "accepted", "completed", "expired"}

Unreported == {"none", "awaiting_approval", "approved", "rejected"}

Outcomes == {"succeeded", "failed", "outcome_unknown", "cancelled_before_effect",
             "expired_before_effect"}

(* stands: its policy_generation is still user_settings.revision and, before*)
(* the approval, APPROVAL_LIFETIME_MS is not over.  expired: its receipt is.*)
Execution == [state : Unreported \cup Outcomes, proposal : Proposals \cup {NoProposal},
              stands : BOOLEAN, expired : BOOLEAN, claimed : BOOLEAN, reported : BOOLEAN]

NoExecution == [state |-> "none", proposal |-> NoProposal, stands |-> FALSE,
                expired |-> FALSE, claimed |-> FALSE, reported |-> FALSE]

RowTypes ==
  /\ card \in [Cards -> CardStatus] /\ given \subseteq Cards
  /\ execution \in [Cards -> Execution]

RowsInit ==
  /\ card = [c \in Cards |-> "surfaced"]
  /\ given = {}
  /\ execution = [c \in Cards |-> NoExecution]

-----------------------------------------------------------------------------
(* The card before it is accepted                                           *)

(* One feedback per card: a second one is refused for ever.                 *)
Feedback(c, kind) ==
  /\ card[c] = "surfaced" /\ c \notin given
  /\ card' = [card EXCEPT ![c] = kind]
  /\ given' = given \cup {c}
  /\ UNCHANGED execution

(* list_currents, and a refresh of the cards, at any moment.                *)
Roll(c) ==
  /\ \/ card[c] \in {"surfaced", "snoozed"} /\ card' = [card EXCEPT ![c] = "expired"]
     \/ card[c] = "snoozed" /\ card' = [card EXCEPT ![c] = "surfaced"]
  /\ UNCHANGED <<given, execution>>

(* From here on nothing asks for its feedback.                              *)
AcceptCard(c) ==
  /\ card[c] = "surfaced" /\ execution[c].state = "none"
  /\ card' = [card EXCEPT ![c] = "accepted"]
  /\ execution' = [execution EXCEPT ![c] = [@ EXCEPT !.state = "awaiting_approval", !.stands = TRUE]]
  /\ given' = given \ {c}

-----------------------------------------------------------------------------
(* The execution                                                            *)

Approvable(c, p) ==
  /\ execution[c].state = "awaiting_approval" /\ execution[c].stands
  /\ \A other \in Cards : execution[other].proposal # p

(* Slip: an execution that has begun is approved for another proposal.      *)
Slip_ApproveExecution(c, p) ==
  /\ execution[c].stands /\ execution[c].proposal # p
  /\ execution' = [execution EXCEPT ![c] = [NoExecution EXCEPT !.state = "approved",
                                               !.proposal = p, !.stands = TRUE]]
  /\ UNCHANGED <<card, given>>

(* The receipt starts to run.                                               *)
ApproveExecution(c, p) ==
  /\ Approvable(c, p)
  /\ execution' = [execution EXCEPT ![c] = [@ EXCEPT !.state = "approved", !.proposal = p]]
  /\ UNCHANGED <<card, given>>

(* Slip: a receipt is as good after the report as before.                   *)
Slip_Claimable(c, p) ==
  /\ execution[c].proposal = p
  /\ execution[c].stands /\ ~execution[c].expired /\ ~execution[c].claimed

Claimable(c, p) ==
  /\ execution[c].state = "approved" /\ execution[c].proposal = p
  /\ execution[c].stands /\ ~execution[c].expired /\ ~execution[c].claimed

(* Whoever claims may be performing it from now on.                         *)
ClaimReceipt(c, p) ==
  /\ Claimable(c, p)
  /\ execution' = [execution EXCEPT ![c] = [@ EXCEPT !.state = "outcome_unknown", !.claimed = TRUE]]
  /\ card' = [card EXCEPT ![c] = IF @ = "accepted" THEN "expired" ELSE @]
  /\ UNCHANGED given

Rejectable(c) == execution[c].state = "awaiting_approval"

RejectExecution(c) ==
  /\ Rejectable(c)
  /\ execution' = [execution EXCEPT ![c].state = "rejected"]
  /\ card' = [card EXCEPT ![c] = IF @ = "accepted" THEN "dismissed" ELSE @]
  /\ UNCHANGED given

Reportable(c, outcome) ==
  /\ ~execution[c].reported
  /\ \/ /\ execution[c].state = "approved" /\ ~execution[c].claimed
        /\ outcome # "succeeded"
     \/ execution[c].state = "outcome_unknown" /\ execution[c].claimed

(* What a report makes of the card, which the claim has expired by then.    *)
CardAfter(status, outcome) ==
  IF status \in {"accepted", "expired"}
  THEN IF outcome = "succeeded" THEN "completed" ELSE "expired"
  ELSE status

ReportOutcome(c, outcome) ==
  /\ Reportable(c, outcome)
  /\ execution' = [execution EXCEPT ![c] = [@ EXCEPT !.state = outcome, !.reported = TRUE]]
  /\ card' = [card EXCEPT ![c] = CardAfter(@, outcome)]
  /\ UNCHANGED given

-----------------------------------------------------------------------------
(* Time and settings                                                        *)

(* PUT /settings counts the revision on; or the time to approve is over.    *)
Revoke(c) ==
  /\ execution[c].stands /\ execution[c].state \in {"awaiting_approval", "approved"}
  /\ execution' = [execution EXCEPT ![c].stands = FALSE]
  /\ UNCHANGED <<card, given>>

ExpireReceipt(c) ==
  /\ ~execution[c].expired /\ ~execution[c].reported
  /\ execution[c].state \in {"approved", "outcome_unknown"}
  /\ execution' = [execution EXCEPT ![c].expired = TRUE]
  /\ UNCHANGED <<card, given>>
=============================================================================
