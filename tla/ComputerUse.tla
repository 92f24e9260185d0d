------------------------------ MODULE ComputerUse ------------------------------
(***************************************************************************)
(* From a card to an effect on the user's computer.  The app accepts a card*)
(* and hands its action to the assistant as a chat turn; the hub registers *)
(* what the assistant proposes; the user decides; the Worker approves the  *)
(* card's execution and issues a receipt; the hub decides the proposal,    *)
(* claims the receipt and performs the action; the app reports the outcome.*)
(* App: conversation_controller.dart and currents_client.dart.  Hub:       *)
(* runtime.rs, approval.rs and computer_use.rs.  Worker: CurrentExecutions.*)
(*                                                                         *)
(* App and hub are one process joined by two queues; their requests to the *)
(* Worker may be lost or lose their answer, and a claim the hub gave up    *)
(* may land later.                                                         *)
(*                                                                         *)
(* Abstractions: the chat request of a card is the card.  The hub's other  *)
(* commands may fill its table at any moment, so it may refuse any command.*)
(* Answers to a cancel and to a configuration are left out: the app drops  *)
(* the ones, and the others carry nothing that is modelled.                *)
(***************************************************************************)
EXTENDS CurrentExecutions, Sequences, FiniteSets, Functions

CONSTANTS
  PendingCapacity,    \* of the registry
  TerminalCapacity,
  Chats,          \* requests of kind message; of a card, or the user's own
  Decisions,      \* requests of kind approval: naturals, in order of use
  Nobody,         \* no chat, decision or card
  Backlog,        \* bound: events on their way when the hub proposes or ends
  MaxExtras       \* bound: departures from the straight course, which are a chat of the
                  \* user's own, a proposal beyond the first, a feedback, a change of
                  \* settings or a deadline, a cancel, a fence, a new assistant, a full
                  \* table, a failure, a lost request, answer or report, a death

ASSUME ComputerUseAssumption ==
  /\ Cards \subseteq Chats /\ Decisions \subseteq Nat /\ Proposals \subseteq Nat
  /\ NoProposal \notin Proposals /\ Nobody \notin Chats \cup Decisions
  /\ Chats \cap Decisions = {}
  /\ PendingCapacity \in Nat \ {0} /\ TerminalCapacity \in Nat \ {0}

INSTANCE ProposalRegistry

VARIABLES
  up,           \* the process lives
  extras,       \* of MaxExtras, so far
  generation,   \* the app's _generation
  configured,   \* configurations the app has sent
  live,         \* _requests
  handed,       \* _handoffsByChatRequest
  shown,        \* _proposals, with the parent of each
  deciding,     \* _approvalRequestByProposal
  approval,     \* _pendingApprovals
  call,         \* where a call of decide() is, and the Worker's answer to it
  posts,        \* requests nobody awaits: <<decision, card, what>>
  commands,     \* app to hub
  events,       \* hub to app
  generations,  \* the loop's authority_generation and the state's configuration_generation
  proposals,    \* the hub's registry
  task,         \* the hub's active commands
  claim,        \* the claim each decision has sent
  performed,    \* history: decisions whose effect took place
  dropped       \* history: decisions the app forgot before the hub's answer, or whose
                \* report was lost

app == <<generation, configured, live, handed, shown, deciding, approval, call>>
hub == <<generations, proposals, task, claim>>
history == <<performed, dropped>>
vars == <<rows, up, extras, app, posts, commands, events, hub, history>>

Requests == Chats \cup Decisions

NoApproval == [proposal |-> NoProposal, handoff |-> FALSE]

NoCall == [at |-> "none", answer |-> "none", proposal |-> NoProposal, card |-> Nobody,
           generation |-> 0]

NoTask == [at |-> "none", cancelled |-> FALSE, generation |-> 0, proposal |-> NoProposal,
           verdict |-> "none", receipt |-> FALSE]

Over == [NoTask EXCEPT !.at = "over"]

(* What the user says of a proposal.                                        *)
Verdicts == {"approve", "reject"}

Init ==
  /\ RowsInit
  /\ up = TRUE /\ extras = 0 /\ generation = 0 /\ configured = 0
  /\ live = {} /\ handed = {}
  /\ shown = [p \in Proposals |-> Nobody] /\ deciding = [p \in Proposals |-> Nobody]
  /\ approval = [d \in Decisions |-> NoApproval] /\ call = [d \in Decisions |-> NoCall]
  /\ posts = {} /\ commands = <<>> /\ events = <<>>
  /\ generations = [loop |-> 0, state |-> 0]
  /\ proposals = EmptyRegistry
  /\ task = [r \in Requests |-> NoTask]
  /\ claim = [d \in Decisions |-> "none"]
  /\ performed = {} /\ dropped = {}

-----------------------------------------------------------------------------
(* Messages                                                                 *)

Message(c) == [kind |-> "message", request |-> c]
Decision(d, p, verdict, receipt) ==
  [kind |-> "decision", request |-> d, proposal |-> p, verdict |-> verdict,
   receipt |-> receipt]
Cancel(r) == [kind |-> "cancel", request |-> r]
Configure == [kind |-> "configure", request |-> Nobody]

Tell(command) == commands' = Append(commands, command)

Proposal(p, c) == [kind |-> "proposal", request |-> c, proposal |-> p]
Ack(d, p, accepted, executes) ==
  [kind |-> "ack", request |-> d, proposal |-> p, accepted |-> accepted, executes |-> executes]
End(r, result) == [kind |-> "end", request |-> r, result |-> result]

Emit(es) == Len(events) < Backlog /\ events' = events \o es

Heads(queue, kind) == queue # <<>> /\ Head(queue).kind = kind

(* A departure from the straight course, of which there are MaxExtras.      *)
Extra == extras < MaxExtras /\ extras' = extras + 1

-----------------------------------------------------------------------------
(* The app: cards and chats                                                 *)

Fresh(c) ==
  /\ c \notin live /\ task[c].at = "none"
  /\ \A i \in DOMAIN commands : commands[i].request # c

Say(c) ==
  /\ live' = live \cup {c}
  /\ Tell(Message(c))

(* accept and handoff.  If the answer is lost, or the message is not        *)
(* stored, nobody knows the nonce any more.                                 *)
Accept(c) ==
  /\ up /\ Fresh(c) /\ AcceptCard(c)
  /\ \/ Say(c) /\ handed' = handed \cup {c}
     \/ UNCHANGED <<live, handed, commands>>
  /\ UNCHANGED <<up, extras, generation, configured, shown, deciding, approval, call, posts, events,
                 hub, history>>

Chat(c) ==
  /\ up /\ Extra /\ Fresh(c) /\ c \notin Cards
  /\ Say(c)
  /\ UNCHANGED <<rows, up, generation, configured, handed, shown, deciding, approval, call,
                 posts, events, hub, history>>

(* _invalidateProposals *)
Without(c) == [p \in Proposals |-> IF shown[p] = c THEN Nobody ELSE shown[p]]

TakeProposal ==
  /\ up /\ Heads(events, "proposal")
  /\ LET p == Head(events).proposal
         c == Head(events).request
     IN  IF c \in live /\ shown[p] = Nobody /\ p \notin Overdue(proposals)
         THEN shown' = [shown EXCEPT ![p] = c]
         ELSE UNCHANGED shown
  /\ events' = Tail(events)
  /\ UNCHANGED <<rows, up, extras, generation, configured, live, handed, deciding, approval, call,
                 posts, commands, hub, history>>

(* The end of a turn.  A card whose turn proposed nothing is rejected.      *)
TakeTurnEnd ==
  /\ up /\ Heads(events, "end") /\ Head(events).request \in Chats
  /\ LET c == Head(events).request
         left == IF Head(events).result = "complete" THEN shown ELSE Without(c)
     IN  IF c \in live
         THEN /\ live' = live \ {c} /\ handed' = handed \ {c} /\ shown' = left
              /\ posts' = IF c \in handed /\ \A p \in Proposals : left[p] # c
                          THEN posts \cup {<<Nobody, c, "rejected">>} ELSE posts
         ELSE UNCHANGED <<live, handed, shown, posts>>
  /\ events' = Tail(events)
  /\ UNCHANGED <<rows, up, extras, generation, configured, deciding, approval, call, commands, hub,
                 history>>

-----------------------------------------------------------------------------
(* The app: decide()                                                        *)

Unused(d) == call[d].at = "none" /\ \A e \in Decisions : e < d => call[e].at # "none"

(* The user decides a proposal that is shown and not being decided.  Of a   *)
(* card's proposal the Worker is asked first.                               *)
Decide(d, p, verdict) ==
  /\ up /\ Unused(d)
  /\ shown[p] # Nobody /\ deciding[p] = Nobody
  /\ live' = live \cup {d}
  /\ deciding' = [deciding EXCEPT ![p] = d]
  /\ approval' = [approval EXCEPT ![d] = [proposal |-> p, handoff |-> FALSE]]
  /\ call' = [call EXCEPT ![d] =
                [at |-> IF shown[p] \in Cards THEN verdict ELSE "over", answer |-> "none",
                 proposal |-> p, card |-> shown[p], generation |-> generation]]
  /\ IF shown[p] \in Cards THEN UNCHANGED commands ELSE Tell(Decision(d, p, verdict, FALSE))
  /\ UNCHANGED <<rows, up, extras, generation, configured, handed, shown, posts, events, hub,
                 history>>

Answer(d, answer) == call' = [call EXCEPT ![d].answer = answer]

(* The Worker's part of it; an answer that is lost is an exception in the   *)
(* app.                                                                     *)
ServeCall(d) ==
  /\ call[d].answer = "none"
  /\ \/ call[d].at = "approve" /\ ApproveExecution(call[d].card, call[d].proposal)
     \/ call[d].at = "reject" /\ RejectExecution(call[d].card)
     \/ call[d].at = "report" /\ ReportOutcome(call[d].card, "failed")
  /\ \/ Answer(d, "ok") /\ UNCHANGED extras
     \/ Answer(d, "failed") /\ Extra
  /\ UNCHANGED <<up, generation, configured, live, handed, shown, deciding, approval, posts,
                 commands, events, hub, history>>

(* Refused by the Worker, or lost on the way.                               *)
FailCall(d) ==
  /\ call[d].at \in {"approve", "reject", "report"} /\ call[d].answer = "none"
  /\ Answer(d, "failed")
  /\ IF CASE call[d].at = "approve" -> Approvable(call[d].card, call[d].proposal)
          [] call[d].at = "reject" -> Rejectable(call[d].card)
          [] OTHER -> Reportable(call[d].card, "failed")
     THEN Extra ELSE UNCHANGED extras
  /\ UNCHANGED <<rows, up, generation, configured, live, handed, shown, deciding, approval,
                 posts, commands, events, hub, history>>

(* The catch of decide(): by the id of the proposal, whoever decides it now.*)
Forget(d) ==
  /\ live' = live \ {d}
  /\ approval' = [approval EXCEPT ![d] = NoApproval]
  /\ deciding' = [deciding EXCEPT ![call[d].proposal] = Nobody]

Ended(d) == call' = [call EXCEPT ![d] = [@ EXCEPT !.at = "over", !.answer = "none"]]

ReceiptExpired(d) == execution[call[d].card].expired

MayDispatch(d) ==
  /\ approval[d] # NoApproval
  /\ generation = call[d].generation
  /\ ~ReceiptExpired(d)

Dispatch(d) ==
  /\ up /\ call[d].at = "approve" /\ call[d].answer = "ok"
  /\ MayDispatch(d)
  /\ approval' = [approval EXCEPT ![d].handoff = TRUE]
  /\ Tell(Decision(d, call[d].proposal, "approve", TRUE))
  /\ Ended(d)
  /\ UNCHANGED <<rows, up, extras, generation, configured, live, handed, shown, deciding, posts,
                 events, hub, history>>

(* The decision, the account or the receipt is gone, or there is no token:  *)
(* the execution is reported as failed, and decide() awaits that.           *)
Withdraw(d) ==
  /\ up /\ call[d].at = "approve" /\ call[d].answer = "ok"
  /\ call' = [call EXCEPT ![d] = [@ EXCEPT !.at = "report", !.answer = "none"]]
  /\ IF MayDispatch(d) THEN Extra ELSE UNCHANGED extras
  /\ UNCHANGED <<rows, up, generation, configured, live, handed, shown, deciding, approval,
                 posts, commands, events, hub, history>>

(* An exception after the receipt: the outcome is unknown.                  *)
GiveUp(d) ==
  /\ up
  /\ \/ call[d].at = "approve" /\ call[d].answer = "ok" /\ Extra
     \/ call[d].at = "report" /\ call[d].answer = "failed" /\ UNCHANGED extras
  /\ posts' = posts \cup {<<d, call[d].card, "outcome_unknown">>}
  /\ Forget(d) /\ Ended(d)
  /\ UNCHANGED <<rows, up, generation, configured, handed, shown, commands, events, hub,
                 history>>

(* An exception without one, which a receipt that came too late is as well. *)
FailDecide(d) ==
  /\ up
  /\ \/ call[d].at \in {"approve", "reject"} /\ call[d].answer = "failed"
     \/ call[d].at = "approve" /\ call[d].answer = "ok" /\ ReceiptExpired(d)
     \/ call[d].at = "report" /\ call[d].answer = "ok"
  /\ Forget(d) /\ Ended(d)
  /\ UNCHANGED <<rows, up, extras, generation, configured, handed, shown, posts, commands, events,
                 hub, history>>

(* Nothing is checked again after a rejection.                              *)
DispatchReject(d) ==
  /\ up /\ call[d].at = "reject" /\ call[d].answer = "ok"
  /\ Tell(Decision(d, call[d].proposal, "reject", FALSE))
  /\ Ended(d)
  /\ UNCHANGED <<rows, up, extras, generation, configured, live, handed, shown, deciding, approval,
                 posts, events, hub, history>>

(* _finishApprovalCorrelation *)
Finished(d) ==
  /\ live' = live \ {d}
  /\ approval' = [approval EXCEPT ![d] = NoApproval]
  /\ deciding' = [p \in Proposals |-> IF deciding[p] = d THEN Nobody ELSE deciding[p]]

(* Slip: an approval that goes on to execute is taken for finished.         *)
Slip_TakeAck ==
  /\ up /\ Heads(events, "ack")
  /\ LET d == Head(events).request
         p == Head(events).proposal
     IN  IF approval[d].proposal = p /\ Head(events).accepted
         THEN /\ shown' = [shown EXCEPT ![p] = Nobody]
              /\ posts' = posts
              /\ Finished(d)
         ELSE UNCHANGED <<shown, posts, live, approval, deciding>>
  /\ events' = Tail(events)
  /\ UNCHANGED <<rows, up, extras, generation, configured, handed, call, commands, hub, history>>

(* A refusal is left to the error that follows it.                          *)
TakeAck ==
  /\ up /\ Heads(events, "ack")
  /\ LET d == Head(events).request
         p == Head(events).proposal
     IN  IF approval[d].proposal = p /\ Head(events).accepted
         THEN /\ shown' = [shown EXCEPT ![p] = Nobody]
              /\ IF Head(events).executes
                 THEN UNCHANGED <<posts, live, approval, deciding>>
                 ELSE /\ posts' = IF approval[d].handoff
                                  THEN posts \cup {<<d, call[d].card, "failed">>} ELSE posts
                      /\ Finished(d)
         ELSE UNCHANGED <<shown, posts, live, approval, deciding>>
  /\ events' = Tail(events)
  /\ UNCHANGED <<rows, up, extras, generation, configured, handed, call, commands, hub, history>>

(* Slip: an unknown outcome is reported as cancelled.                       *)
Slip_OutcomeOf(result) ==
  CASE result = "complete" -> "succeeded"
    [] result = "expired" -> "expired_before_effect"
    [] result \in {"cancelled", "unknown"} -> "cancelled_before_effect"
    [] OTHER -> "failed"

OutcomeOf(result) ==
  CASE result = "complete" -> "succeeded"
    [] result = "unknown" -> "outcome_unknown"
    [] result = "expired" -> "expired_before_effect"
    [] result = "cancelled" -> "cancelled_before_effect"
    [] OTHER -> "failed"

TakeDecisionEnd ==
  /\ up /\ Heads(events, "end") /\ Head(events).request \in Decisions
  /\ LET d == Head(events).request
     IN  IF d \in live
         THEN /\ posts' = IF approval[d].handoff
                          THEN posts \cup {<<d, call[d].card, OutcomeOf(Head(events).result)>>}
                          ELSE posts
              /\ Finished(d)
         ELSE UNCHANGED <<posts, live, approval, deciding>>
  /\ events' = Tail(events)
  /\ UNCHANGED <<rows, up, extras, generation, configured, handed, shown, call, commands, hub,
                 history>>

-----------------------------------------------------------------------------
(* The app: cancellation, fences and reports                                *)

Drop(S) == dropped' = dropped \cup {d \in S : approval[d].handoff}

CancelDecision(d) ==
  /\ up /\ Extra /\ d \in live
  /\ Finished(d) /\ Drop({d})
  /\ Tell(Cancel(d))
  /\ UNCHANGED <<rows, up, generation, configured, handed, shown, call, posts, events, hub,
                 performed>>

(* The card's execution is left to await an approval.                       *)
CancelChat(c) ==
  /\ up /\ Extra /\ c \in live
  /\ live' = live \ {c} /\ shown' = Without(c)
  /\ Tell(Cancel(c))
  /\ UNCHANGED <<rows, up, generation, configured, handed, deciding, approval, call, posts,
                 events, hub, history>>

(* Requests are cancelled one after the other, in whatever order.           *)
Cancels ==
  {[i \in DOMAIN order |-> Cancel(order[i])] : order \in Bijection(1..Cardinality(live), live)}

(* fence(): sign-out, or another account.                                   *)
Fence ==
  /\ up /\ Extra
  /\ generation' = generation + 1
  /\ \E cancels \in Cancels : commands' = commands \o cancels
  /\ live' = {} /\ handed' = {}
  /\ shown' = [p \in Proposals |-> Nobody] /\ deciding' = [p \in Proposals |-> Nobody]
  /\ approval' = [d \in Decisions |-> NoApproval]
  /\ Drop(Decisions)
  /\ UNCHANGED <<rows, up, configured, call, posts, events, hub, performed>>

(* configureMemory of the next session.                                     *)
SendConfiguration ==
  /\ up /\ configured < generation
  /\ configured' = configured + 1
  /\ Tell(Configure)
  /\ UNCHANGED <<rows, up, extras, generation, live, handed, shown, deciding, approval, call, posts,
                 events, hub, history>>

(* A report or a rejection nobody waits for reaches the Worker, or is lost. *)
ServePost(post) ==
  /\ posts' = posts \ {post}
  /\ IF post[3] = "rejected"
     THEN IF Rejectable(post[2]) THEN RejectExecution(post[2]) ELSE UNCHANGED rows
     ELSE IF Reportable(post[2], post[3]) THEN ReportOutcome(post[2], post[3])
          ELSE UNCHANGED rows
  /\ UNCHANGED <<up, extras, app, commands, events, hub, history>>

LosePost(post) ==
  /\ Extra /\ posts' = posts \ {post}
  /\ dropped' = dropped \cup ({post[1]} \cap Decisions)
  /\ UNCHANGED <<rows, up, app, commands, events, hub, performed>>

-----------------------------------------------------------------------------
(* The hub's loop                                                           *)

Active == {r \in Requests : task[r].at \notin {"none", "over"}}

(* cancel_all *)
AllCancelled == [r \in Requests |->
                   IF r \in Active THEN [task[r] EXCEPT !.cancelled = TRUE] ELSE task[r]]

TakeMessage ==
  /\ up /\ Heads(commands, "message")
  /\ LET c == Head(commands).request
     IN  \/ /\ task' = [task EXCEPT ![c] = [NoTask EXCEPT !.at = "turn",
                                              !.generation = generations.state]]
            /\ UNCHANGED <<events, extras>>
         \/ /\ task' = [task EXCEPT ![c] = Over]
            /\ Emit(<<End(c, "failed")>>) /\ Extra
  /\ commands' = Tail(commands)
  /\ UNCHANGED <<rows, up, app, posts, generations, proposals, claim, history>>

TakeDecision ==
  /\ up /\ Heads(commands, "decision")
  /\ LET m == Head(commands)
         d == m.request
     IN  \/ /\ task' = [task EXCEPT ![d] =
                          [at |-> "asked", cancelled |-> FALSE, generation |-> generations.loop,
                           proposal |-> m.proposal, verdict |-> m.verdict,
                           receipt |-> m.receipt]]
            /\ UNCHANGED <<events, extras>>
         \/ /\ task' = [task EXCEPT ![d] = Over]
            /\ Emit(<<Ack(d, m.proposal, FALSE, FALSE), End(d, "failed")>>) /\ Extra
  /\ commands' = Tail(commands)
  /\ UNCHANGED <<rows, up, app, posts, generations, proposals, claim, history>>

TakeCancel ==
  /\ up /\ Heads(commands, "cancel")
  /\ LET r == Head(commands).request
     IN  /\ proposals' = InvalidateParent(proposals, generations.state, r)
         /\ task' = IF r \in Active THEN [task EXCEPT ![r].cancelled = TRUE] ELSE task
  /\ commands' = Tail(commands)
  /\ UNCHANGED <<rows, up, extras, app, posts, events, generations, claim, history>>

(* ConfigureMemory.  The loop has counted it before it may be refused; the  *)
(* state has not.                                                           *)
TakeConfigure ==
  /\ up /\ Heads(commands, "configure")
  /\ proposals' = InvalidateGeneration(proposals, generations.state)
  /\ task' = AllCancelled
  /\ \E room \in BOOLEAN :
       generations' = [loop |-> generations.loop + 1,
                       state |-> IF room THEN generations.state + 1 ELSE generations.state]
  /\ commands' = Tail(commands)
  /\ UNCHANGED <<rows, up, extras, app, posts, events, claim, history>>

(* ConfigureAssistant and ClearAssistant cancel what is active as well.     *)
ConfigureAssistant ==
  /\ up /\ Extra /\ AllCancelled # task
  /\ task' = AllCancelled
  /\ UNCHANGED <<rows, up, app, posts, commands, events, generations, proposals, claim,
                 history>>

-----------------------------------------------------------------------------
(* A turn                                                                   *)

TurnStands(c) == task[c].generation = generations.state

(* The provider's tool call, bound to the screen as it is now.  What cannot *)
(* be registered is an error of the request, and the turn goes on.          *)
Propose(c, p) ==
  /\ up /\ task[c].at = "turn" /\ TurnStands(c)
  /\ LET R == PurgeExpired(proposals)
         T == Registered(R, p, task[c].generation, c)
     IN  IF Registrable(R, p)
         THEN /\ \A q \in Proposals : q < p => Known(R, q)    \* in order of use
              /\ \/ proposals' = T /\ Emit(<<Proposal(p, c)>>)
                 \/ proposals' = Finish(T, p, "expired") /\ Emit(<<End(c, "failed")>>)
         ELSE proposals' = R /\ Emit(<<End(c, "failed")>>)
  /\ IF proposals = EmptyRegistry THEN UNCHANGED extras ELSE Extra
  /\ UNCHANGED <<rows, up, app, posts, commands, generations, task, claim, history>>

TurnStops(c) ==
  /\ up /\ task[c].at = "turn"
  /\ \/ (task[c].cancelled \/ ~TurnStands(c)) /\ Emit(<<End(c, "cancelled")>>)
        /\ UNCHANGED extras
     \/ TurnStands(c) /\ Emit(<<End(c, "complete")>>) /\ UNCHANGED extras
     \/ TurnStands(c) /\ Emit(<<End(c, "failed")>>) /\ Extra
  /\ task' = [task EXCEPT ![c] = Over]
  /\ UNCHANGED <<rows, up, app, posts, commands, generations, proposals, claim, history>>

-----------------------------------------------------------------------------
(* decide_approval                                                          *)

Target(d) == task[d].proposal

(* The task ends with these events, and leaves its proposal with a status.  *)
EndTask(d, status, es) ==
  /\ proposals' = FinishExecution(proposals, Target(d), status)
  /\ task' = [task EXCEPT ![d] = Over]
  /\ Emit(es)

Refused(d) == Ack(d, Target(d), FALSE, FALSE)

DecisionCancelled(d) ==
  /\ up /\ task[d].at = "asked"
  /\ task[d].cancelled \/ task[d].generation # generations.state
  /\ task' = [task EXCEPT ![d] = Over]
  /\ Emit(<<Refused(d), End(d, "cancelled")>>)
  /\ UNCHANGED <<rows, up, extras, app, posts, commands, generations, proposals, claim, history>>

Heard(d) == up /\ task[d].at = "asked" /\ ~task[d].cancelled
            /\ task[d].generation = generations.state

Purged == PurgeExpired(proposals)

(* Unknown, another account's, too old or decided; or computer use is not   *)
(* available, and the proposal stays.                                       *)
DecisionRefused(d) ==
  /\ Heard(d)
  /\ LET g == task[d].generation
     IN  \/ /\ ~Decidable(Purged, Target(d), g)
            /\ Emit(<<Refused(d), End(d, IF DecidedTooLate(Purged, Target(d), g)
                                         THEN "expired" ELSE "failed")>>)
            /\ UNCHANGED extras
         \/ /\ Decidable(Purged, Target(d), g) /\ task[d].verdict = "approve"
            /\ Emit(<<Refused(d), End(d, "failed")>>) /\ Extra
  /\ proposals' = Purged
  /\ task' = [task EXCEPT ![d] = Over]
  /\ UNCHANGED <<rows, up, app, posts, commands, generations, claim, history>>

DecisionRejected(d) ==
  /\ Heard(d) /\ task[d].verdict = "reject"
  /\ Decidable(Purged, Target(d), task[d].generation)
  /\ proposals' = Finish(Purged, Target(d), "rejected")
  /\ task' = [task EXCEPT ![d] = Over]
  /\ Emit(<<Ack(d, Target(d), TRUE, FALSE), End(d, "complete")>>)
  /\ UNCHANGED <<rows, up, extras, app, posts, commands, generations, claim, history>>

Executing(d) == Ack(d, Target(d), TRUE, TRUE)

(* Approved.  With a receipt that fits and has not run out, the claim goes  *)
(* to the Worker.                                                           *)
DecisionApproved(d) ==
  /\ Heard(d) /\ task[d].verdict = "approve"
  /\ Decidable(Purged, Target(d), task[d].generation)
  /\ LET R == Finish(Purged, Target(d), "approved")
     IN  IF task[d].receipt /\ ~ReceiptExpired(d)
         THEN /\ proposals' = R
              /\ task' = [task EXCEPT ![d].at = "claiming"]
              /\ claim' = [claim EXCEPT ![d] = "sent"]
              /\ Emit(<<Executing(d)>>)
         ELSE /\ proposals' = FinishExecution(R, Target(d), "failed")
              /\ task' = [task EXCEPT ![d] = Over]
              /\ UNCHANGED claim
              /\ Emit(<<Executing(d), End(d, "failed")>>)
  /\ UNCHANGED <<rows, up, extras, app, posts, commands, generations, history>>

(* The Worker's part, whether or not the hub still waits.                   *)
ServeClaim(d) ==
  /\ claim[d] = "sent"
  /\ IF Claimable(call[d].card, call[d].proposal)
     THEN ClaimReceipt(call[d].card, call[d].proposal) /\ claim' = [claim EXCEPT ![d] = "granted"]
     ELSE UNCHANGED rows /\ claim' = [claim EXCEPT ![d] = "refused"]
  /\ UNCHANGED <<up, extras, app, posts, commands, events, generations, proposals, task, history>>

ClaimGranted(d) ==
  /\ up /\ task[d].at = "claiming" /\ claim[d] = "granted"
  /\ task' = [task EXCEPT ![d].at = "executing"]
  /\ UNCHANGED <<rows, up, extras, app, posts, commands, events, generations, proposals, claim,
                 history>>

(* Refused, cancelled, without an answer for ten seconds, or with one that  *)
(* was lost.                                                                *)
ClaimFailed(d) ==
  /\ up /\ task[d].at = "claiming"
  /\ IF task[d].cancelled
     THEN EndTask(d, "cancelled_before_effect", <<End(d, "cancelled")>>)
     ELSE IF ReceiptExpired(d)
     THEN EndTask(d, "expired_before_effect", <<End(d, "expired")>>)
     ELSE EndTask(d, "failed", <<End(d, "failed")>>)
  /\ UNCHANGED <<rows, up, extras, app, posts, commands, generations, claim, history>>

-----------------------------------------------------------------------------
(* execute_bound_computer_use: the praefectus engine                        *)

(* Within the authority's time the engine may take effect.                  *)
Perform(d) ==
  /\ up /\ task[d].at = "executing" /\ ~ReceiptExpired(d)
  /\ performed' = performed \cup {d}
  /\ task' = [task EXCEPT ![d].at = "performed"]
  /\ UNCHANGED <<rows, up, extras, app, posts, commands, events, generations, proposals, claim,
                 dropped>>

(* Its terminal: what it can tell when there was no effect, and when there  *)
(* was one.  A refusal or an error of the engine is a failure.              *)
EngineStops(d) ==
  /\ up
  /\ \/ /\ task[d].at \in {"executing", "performed"}
        /\ \/ EndTask(d, "failed", <<End(d, "failed")>>)
           \/ EndTask(d, "outcome_unknown", <<End(d, "unknown")>>)
     \/ /\ task[d].at = "executing" /\ task[d].cancelled
        /\ EndTask(d, "cancelled_before_effect", <<End(d, "cancelled")>>)
     \/ /\ task[d].at = "executing" /\ ReceiptExpired(d)
        /\ EndTask(d, "expired_before_effect", <<End(d, "expired")>>)
     \/ /\ task[d].at = "performed"
        /\ EndTask(d, "succeeded", <<End(d, "complete")>>)
  /\ UNCHANGED <<rows, up, extras, app, posts, commands, generations, claim, history>>

-----------------------------------------------------------------------------
(* The surroundings                                                         *)

(* The rows change without the app.                                         *)
RowStep ==
  /\ \E c \in Cards :
       \/ Roll(c) /\ UNCHANGED extras
       \/ /\ \/ Feedback(c, "snoozed") \/ Feedback(c, "dismissed")
             \/ Revoke(c) \/ ExpireReceipt(c)
          /\ Extra
  /\ UNCHANGED <<up, app, posts, commands, events, hub, history>>

(* A proposal's time to be decided is over.                                 *)
ProposalOverdue ==
  /\ up /\ Extra
  /\ \E p \in Proposals :
       /\ proposals.entry[p].status = "pending"
       /\ proposals' = [proposals EXCEPT !.entry[p].status = "overdue"]
  /\ UNCHANGED <<rows, up, app, posts, commands, events, generations, task, claim, history>>

(* The process dies; what it has sent is still on its way.                  *)
Crash ==
  /\ up /\ Extra /\ up' = FALSE
  /\ live' = {} /\ handed' = {}
  /\ shown' = [p \in Proposals |-> Nobody] /\ deciding' = [p \in Proposals |-> Nobody]
  /\ approval' = [d \in Decisions |-> NoApproval]
  /\ commands' = <<>> /\ events' = <<>>
  /\ proposals' = EmptyRegistry
  /\ task' = [r \in Requests |-> Over]
  /\ UNCHANGED <<rows, generation, configured, call, posts, generations, claim, history>>

App ==
  \/ \E c \in Chats : Chat(c) \/ CancelChat(c)
  \/ \E c \in Cards : Accept(c)
  \/ TakeProposal \/ TakeTurnEnd \/ TakeAck \/ TakeDecisionEnd
  \/ \E d \in Decisions :
       \/ \E p \in Proposals, verdict \in Verdicts : Decide(d, p, verdict)
       \/ Dispatch(d) \/ Withdraw(d) \/ GiveUp(d) \/ FailDecide(d) \/ DispatchReject(d)
       \/ CancelDecision(d)
  \/ Fence \/ SendConfiguration

Hub ==
  \/ TakeMessage \/ TakeDecision \/ TakeCancel \/ TakeConfigure \/ ConfigureAssistant
  \/ \E c \in Chats : TurnStops(c) \/ \E p \in Proposals : Propose(c, p)
  \/ \E d \in Decisions :
       \/ DecisionCancelled(d) \/ DecisionRefused(d) \/ DecisionRejected(d)
       \/ DecisionApproved(d) \/ ClaimGranted(d) \/ ClaimFailed(d)
       \/ Perform(d) \/ EngineStops(d)

Worker ==
  \/ \E d \in Decisions : ServeCall(d) \/ FailCall(d) \/ ServeClaim(d)
  \/ \E post \in posts : ServePost(post) \/ LosePost(post)
  \/ RowStep \/ ProposalOverdue

Next == App \/ Hub \/ Worker \/ Crash

(* While the process lives its queues are read and its tasks go on; what is *)
(* posted ends, one way or the other.                                       *)
AppReads == TakeProposal \/ TakeTurnEnd \/ TakeAck \/ TakeDecisionEnd

LoopReads == TakeMessage \/ TakeDecision \/ TakeCancel \/ TakeConfigure

TaskStep(d) ==
  \/ DecisionCancelled(d) \/ DecisionRefused(d) \/ DecisionRejected(d) \/ DecisionApproved(d)
  \/ ClaimGranted(d) \/ ClaimFailed(d) \/ Perform(d) \/ EngineStops(d)

Fairness ==
  /\ WF_vars(AppReads) /\ WF_vars(LoopReads)
  /\ \A d \in Decisions : WF_vars(TaskStep(d))
  /\ WF_vars(\E post \in posts : ServePost(post))

Spec == Init /\ [][Next]_vars /\ Fairness

-----------------------------------------------------------------------------
(* Properties                                                               *)

Maybe == Proposals \cup {NoProposal}

Command ==
  [kind : {"message"}, request : Chats]
    \cup [kind : {"decision"}, request : Decisions, proposal : Maybe, verdict : Verdicts,
          receipt : BOOLEAN]
    \cup [kind : {"cancel"}, request : Requests]
    \cup [kind : {"configure"}, request : {Nobody}]

Results == {"complete", "failed", "cancelled", "expired", "unknown"}

Event ==
  [kind : {"proposal"}, request : Chats, proposal : Proposals]
    \cup [kind : {"ack"}, request : Decisions, proposal : Maybe, accepted : BOOLEAN,
          executes : BOOLEAN]
    \cup [kind : {"end"}, request : Requests, result : Results]

Call == [at : {"none", "approve", "reject", "report", "over"}, answer : {"none", "ok", "failed"},
         proposal : Maybe, card : Chats \cup {Nobody}, generation : Nat]

Task == [at : {"none", "turn", "asked", "claiming", "executing", "performed", "over"},
         cancelled : BOOLEAN, generation : Nat, proposal : Maybe,
         verdict : Verdicts \cup {"none"}, receipt : BOOLEAN]

Post == (Decisions \cup {Nobody}) \X (Chats \cup {Nobody}) \X (Outcomes \cup {"rejected"})

AppTypes ==
  /\ up \in BOOLEAN /\ extras \in Nat /\ generation \in Nat /\ configured \in Nat
  /\ live \subseteq Requests /\ IsFiniteSet(live) /\ handed \subseteq Cards
  /\ shown \in [Proposals -> Chats \cup {Nobody}]
  /\ deciding \in [Proposals -> Decisions \cup {Nobody}]

CallTypes ==
  /\ approval \in [Decisions -> [proposal : Maybe, handoff : BOOLEAN]]
  /\ call \in [Decisions -> Call]
  /\ posts \subseteq Post

QueueTypes == commands \in Seq(Command) /\ events \in Seq(Event)

HubTypes ==
  /\ generations \in [loop : Nat, state : Nat]
  /\ task \in [Requests -> Task]
  /\ claim \in [Decisions -> {"none", "sent", "granted", "refused"}]
  /\ performed \subseteq Decisions /\ dropped \subseteq Decisions

(* The types, but for the registry's.                                       *)
TypeOK == RowTypes /\ AppTypes /\ CallTypes /\ QueueTypes /\ HubTypes

EffectsOf(c) == {d \in performed : call[d].card = c}

(* However many actions the turn of a card proposes, whatever the user      *)
(* decides, cancels and decides again, and whichever answers are lost: one  *)
(* acceptance of a card has at most one effect.                             *)
OneEffectPerCard == \A c \in Cards : Cardinality(EffectsOf(c)) <= 1

Standing(state) ==
  CASE state = "none" -> {"surfaced", "snoozed", "dismissed", "expired"}
    [] state \in {"awaiting_approval", "approved"} -> {"accepted"}
    [] state = "rejected" -> {"dismissed"}
    [] state = "succeeded" -> {"completed"}
    [] OTHER -> {"expired"}

(* What the Worker records is never more certain than what happened: a      *)
(* success had its effect; a card that is rejected, that failed before a    *)
(* claim, or whose action was cancelled or expired before an effect, has    *)
(* none, then or later; and a card stands where its execution does, though  *)
(* the two tables are written by statements of their own.                   *)
RecordTellsTheTruth ==
  \A c \in Cards :
    /\ execution[c].state = "succeeded" => EffectsOf(c) # {}
    /\ EffectsOf(c) # {} =>
         /\ execution[c].claimed
         /\ execution[c].state \in {"succeeded", "failed", "outcome_unknown"}
    /\ card[c] \in Standing(execution[c].state)

Settled(c) == execution[c].reported \/ execution[c].state = "rejected"

(* What is reported or rejected stays so, and so does its card: a claim the *)
(* hub gave up, a second report or a late rejection changes nothing.        *)
SettledIsFinal ==
  [][\A c \in Cards : Settled(c) => execution'[c] = execution[c] /\ card'[c] = card[c]]_vars

(* The outcome of a dispatched approval comes to the Worker, unless the     *)
(* user or a fence drops it, the report is lost, or the process dies.       *)
DispatchedSettles ==
  \A d \in Decisions :
    approval[d].handoff ~>
      ((\E c \in Cards : call[d].card = c /\ Settled(c)) \/ d \in dropped \/ ~up)
=============================================================================
