------------------------- MODULE ComputerUse_proofs -------------------------
(***************************************************************************)
(* One acceptance of a card has at most one effect, and what the Worker    *)
(* records of it is the truth, for every number of cards, proposals and    *)
(* decisions and every bound.  The argument is one of ownership: whoever   *)
(* has the Worker's approval of a card holds it from the answer until the  *)
(* last trace of its decision is gone, and no two decisions hold one card. *)
(***************************************************************************)
EXTENDS ComputerUse, FiniteSetTheorems, SequenceTheorems, TLAPS

Types == AppTypes /\ CallTypes /\ QueueTypes /\ HubTypes

-----------------------------------------------------------------------------
(* The inductive invariant                                                  *)

(* Message i of the hub's queue is of decision d; the app will be told its  *)
(* result.                                                                  *)
Asks(d, i) == commands[i].kind = "decision" /\ commands[i].request = d

Told(d, result) ==
  \E i \in DOMAIN events :
    events[i].kind = "end" /\ events[i].request = d /\ events[i].result = result

Quiet(d) == \A i \in DOMAIN commands : ~Asks(d, i)

Untold(d) == \A result \in Results : ~Told(d, result)

(* A decision is at the Worker before it is at the hub, and until its call  *)
(* is over nothing of it is there.                                          *)
CallFirst(d) ==
  /\ call[d].at \in {"approve", "reject", "report"} => call[d].card \in Cards
  /\ call[d].at # "over" =>
       /\ claim[d] = "none" /\ ~approval[d].handoff
       /\ task[d].at \in {"none", "over"} /\ (up => task[d].at = "none")
       /\ Quiet(d) /\ Untold(d)

(* Its message, of which there is one, comes before its task.               *)
MessageFirst(d) ==
  \A i \in DOMAIN commands : Asks(d, i) =>
    /\ task[d].at = "none"
    /\ approval[d].handoff => commands[i].verdict = "approve"
    /\ \A j \in DOMAIN commands : Asks(d, j) => i = j
    /\ Untold(d)

(* The task comes before the claim, and the claim before the effect.        *)
TaskFirst(d) ==
  /\ task[d].at \in {"none", "asked"} => claim[d] = "none"
  /\ task[d].at = "asked" /\ approval[d].handoff => task[d].verdict = "approve"
  /\ task[d].at = "claiming" => claim[d] # "none"
  /\ task[d].at \in {"executing", "performed"} => claim[d] = "granted"
  /\ task[d].at \in {"none", "over"} => ~task[d].receipt
  /\ d \in performed => task[d].at \in {"performed", "over"} /\ claim[d] = "granted"
  /\ task[d].at = "performed" => d \in performed

(* What the app is told of the decision, and reports of it, is what happened.*)
ToldTheTruth(d) ==
  \A result \in Results : Told(d, result) =>
    /\ task[d].at = "over"
    /\ result = "complete" /\ approval[d].handoff => d \in performed
    /\ result \in {"cancelled", "expired"} => d \notin performed

NoEffect == {"cancelled_before_effect", "expired_before_effect"}

ReportsTheTruth(d) ==
  \A post \in posts : post[1] = d =>
    /\ call[d].at = "over" /\ call[d].card = post[2] /\ post[3] \in Outcomes
    /\ post[3] = "succeeded" => d \in performed
    /\ post[3] \in NoEffect => task[d].at = "over" /\ d \notin performed

InOrder(d) ==
  CallFirst(d) /\ MessageFirst(d) /\ TaskFirst(d) /\ ToldTheTruth(d) /\ ReportsTheTruth(d)

(* Decision d has, or has had, the Worker's approval.                       *)
Holds(d) ==
  \/ call[d].at = "approve" /\ call[d].answer = "ok"
  \/ call[d].at = "report"
  \/ approval[d].handoff
  \/ \E i \in DOMAIN commands : Asks(d, i) /\ commands[i].receipt
  \/ task[d].receipt
  \/ claim[d] # "none"
  \/ \E post \in posts : post[1] = d

Undecided == {"none", "awaiting_approval", "rejected"}

(* The card stands where the execution does, and a row that is claimed or   *)
(* reported has an outcome.                                                 *)
RowAgrees(c) ==
  /\ card[c] \in Standing(execution[c].state)
  /\ execution[c].claimed \/ execution[c].reported => execution[c].state \in Outcomes

(* Who holds a card is alone in that, and its row says so.                  *)
HoldersAgree ==
  /\ \A d \in Decisions : Holds(d) =>
       call[d].card \in Cards /\ execution[call[d].card].state \notin Undecided
  /\ \A d, e \in Decisions : Holds(d) /\ Holds(e) /\ call[d].card = call[e].card => d = e
  /\ \A d \in Decisions : claim[d] = "granted" => execution[call[d].card].claimed

(* What the row of a card says of an effect is what its holder did.         *)
EffectsAgree ==
  \A c \in Cards :
    /\ execution[c].state = "succeeded" => \E d \in performed : call[d].card = c
    /\ execution[c].state \in NoEffect =>
         \A d \in Decisions : call[d].card = c /\ claim[d] = "granted" =>
           task[d].at = "over" /\ d \notin performed

(* What is posted in nobody's name is the rejection of a card.              *)
PostsAgree ==
  \A post \in posts : post[1] = Nobody => post[2] \in Cards /\ post[3] = "rejected"

IInv ==
  /\ TypeOK /\ PostsAgree /\ HoldersAgree /\ EffectsAgree
  /\ \A c \in Cards : RowAgrees(c)
  /\ \A d \in Decisions : InOrder(d)

-----------------------------------------------------------------------------
(* Types                                                                    *)

(* The messages and events are what their makers say.                       *)
LEMMA Constructors ==
  /\ \A c \in Chats : Message(c) \in Command
  /\ \A d \in Decisions, p \in Maybe, verdict \in Verdicts, receipt \in BOOLEAN :
       Decision(d, p, verdict, receipt) \in Command
  /\ \A r \in Requests : Cancel(r) \in Command
  /\ Configure \in Command
  /\ \A p \in Proposals, c \in Chats : Proposal(p, c) \in Event
  /\ \A d \in Decisions, p \in Maybe, accepted, executes \in BOOLEAN :
       Ack(d, p, accepted, executes) \in Event
  /\ \A r \in Requests, result \in Results : End(r, result) \in Event
BY DEF Message, Decision, Cancel, Configure, Proposal, Ack, End, Command, Event

(* Putting on a queue, and taking from one, keeps its type.                 *)
LEMMA Queues ==
  ASSUME NEW S, NEW q \in Seq(S)
  PROVE  /\ \A x \in S : Append(q, x) \in Seq(S) /\ q \o <<x>> \in Seq(S)
         /\ \A x, y \in S : q \o <<x, y>> \in Seq(S)
         /\ q # <<>> => Head(q) \in S /\ Tail(q) \in Seq(S)
BY ConcatProperties, HeadTailProperties

(* So do telling the hub and emitting to the app.                           *)
LEMMA Said ==
  ASSUME TypeOK
  PROVE  /\ \A m \in Command : Tell(m) => commands' \in Seq(Command)
         /\ \A x \in Event : Emit(<<x>>) => events' \in Seq(Event)
         /\ \A x, y \in Event : Emit(<<x, y>>) => events' \in Seq(Event)
BY Queues DEF TypeOK, QueueTypes, Tell, Emit

(* A chat of the user's own, and its cancellation.                          *)
LEMMA ChatTypes ==
  ASSUME TypeOK, NEW c \in Chats, Chat(c) \/ CancelChat(c) PROVE Types'
<1>1. CASE Chat(c)
  <2>1. AppTypes'
    BY <1>1, FS_AddElement DEF TypeOK, AppTypes, Chat, Say, Requests, Extra
  <2>2. QueueTypes'
    BY <1>1, Constructors, Queues DEF TypeOK, QueueTypes, Chat, Say, Tell
  <2> QED
    BY <1>1, <2>1, <2>2 DEF TypeOK, Types, CallTypes, HubTypes, Chat, hub, history
<1>2. CASE CancelChat(c)
  <2>1. AppTypes'
    BY <1>2, FS_RemoveElement DEF TypeOK, AppTypes, CancelChat, Without, Extra
  <2>2. QueueTypes'
    BY <1>2, Constructors, Queues DEF TypeOK, QueueTypes, CancelChat, Tell, Requests
  <2> QED
    BY <1>2, <2>1, <2>2 DEF TypeOK, Types, CallTypes, HubTypes, CancelChat, hub, history
<1> QED
  BY <1>1, <1>2

(* The user decides a proposal.                                             *)
LEMMA DecideTypes ==
  ASSUME TypeOK, NEW d \in Decisions, NEW p \in Proposals, NEW verdict \in Verdicts,
         Decide(d, p, verdict)
  PROVE  Types'
<1>1. AppTypes'
  BY FS_AddElement DEF TypeOK, AppTypes, Decide, Requests
<1>2. CallTypes'
  BY DEF TypeOK, AppTypes, CallTypes, Decide, Call, Maybe, Verdicts
<1>3. QueueTypes'
  <2>1. Decision(d, p, verdict, FALSE) \in Command
    BY Constructors DEF Maybe
  <2> QED
    BY <2>1, Queues DEF TypeOK, QueueTypes, Decide, Tell
<1> QED
  BY <1>1, <1>2, <1>3 DEF TypeOK, Types, HubTypes, Decide, hub, history

(* The user accepts a card.                                                 *)
LEMMA AcceptTypes ==
  ASSUME TypeOK, NEW c \in Cards, Accept(c) PROVE Types'
<1>2. AppTypes'
  BY ComputerUseAssumption, FS_AddElement DEF TypeOK, AppTypes, Accept, Say, Requests
<1>3. QueueTypes'
  BY ComputerUseAssumption, Constructors, Queues DEF TypeOK, QueueTypes, Accept, Say, Tell
<1> QED
  BY <1>2, <1>3 DEF TypeOK, Types, CallTypes, HubTypes, Accept, hub, history

(* A step of decision d in the app.                                         *)
LEMMA CallTypesKept ==
  ASSUME TypeOK, NEW d \in Decisions,
         \/ call' = call
         \/ \E at \in {"report", "over"} : call' = [call EXCEPT ![d] = [@ EXCEPT !.at = at, !.answer = "none"]]
         \/ \E answer \in {"ok", "failed"} : call' = [call EXCEPT ![d].answer = answer],
         \/ approval' = approval
         \/ approval' = [approval EXCEPT ![d] = NoApproval]
         \/ approval' = [approval EXCEPT ![d].handoff = TRUE],
         \/ posts' = posts
         \/ \E what \in Outcomes : posts' = posts \cup {<<d, call[d].card, what>>}
  PROVE  CallTypes'
<1>1. call' \in [Decisions -> Call]
  <2>1. \A f \in Call :
          /\ \A at \in {"report", "over"} : [f EXCEPT !.at = at, !.answer = "none"] \in Call
          /\ \A answer \in {"ok", "failed"} : [f EXCEPT !.answer = answer] \in Call
    BY DEF Call
  <2>2. call \in [Decisions -> Call]
    BY DEF TypeOK, CallTypes
  <2>3. \A f \in Call : [call EXCEPT ![d] = f] \in [Decisions -> Call]
    BY <2>2
  <2> QED
    BY <2>1, <2>2, <2>3
<1>2. approval' \in [Decisions -> [proposal : Maybe, handoff : BOOLEAN]]
  <2>1. NoApproval \in [proposal : Maybe, handoff : BOOLEAN]
    BY DEF NoApproval, Maybe
  <2>2. [approval[d] EXCEPT !.handoff = TRUE] \in [proposal : Maybe, handoff : BOOLEAN]
    BY DEF TypeOK, CallTypes
  <2> QED
    BY <2>1, <2>2 DEF TypeOK, CallTypes
<1>3. posts' \subseteq Post
  <2>1. call[d].card \in Chats \cup {Nobody}
    BY DEF TypeOK, CallTypes, Call
  <2> QED
    BY <2>1 DEF TypeOK, CallTypes, Post
<1> QED
  BY <1>1, <1>2, <1>3 DEF CallTypes

(* The app reads an event.                                                  *)
LEMMA TakeTypes ==
  ASSUME TypeOK, TakeProposal \/ TakeTurnEnd \/ TakeAck \/ TakeDecisionEnd
  PROVE  Types'
<1> USE DEF TypeOK, Heads
<1>1. QueueTypes' /\ Head(events) \in Event
  BY Queues DEF QueueTypes, TakeProposal, TakeTurnEnd, TakeAck, TakeDecisionEnd
<1>2. CASE TakeProposal
  <2>1. AppTypes'
    BY <1>1, <1>2 DEF AppTypes, TakeProposal, Event
  <2> QED
    BY <1>1, <1>2, <2>1 DEF Types, CallTypes, HubTypes, TakeProposal, hub, history
<1>3. CASE TakeTurnEnd
  <2>1. AppTypes'
    BY <1>3, FS_RemoveElement DEF AppTypes, TakeTurnEnd, Without
  <2>2. CallTypes'
    BY <1>3 DEF CallTypes, Post, TakeTurnEnd
  <2> QED
    BY <1>1, <1>3, <2>1, <2>2 DEF Types, HubTypes, TakeTurnEnd, hub, history
<1>4. CASE TakeAck
  <2>5. live' \subseteq live /\ IsFiniteSet(live')
    BY <1>4, FS_RemoveElement DEF AppTypes, TakeAck, Finished
  <2>6. /\ shown' \in [Proposals -> Chats \cup {Nobody}]
        /\ deciding' \in [Proposals -> Decisions \cup {Nobody}]
    BY <1>4 DEF AppTypes, TakeAck, Finished
  <2>1. AppTypes'
    BY <1>4, <2>5, <2>6 DEF AppTypes, TakeAck
  <2>2. Head(events).request \in Decisions
    BY <1>1, <1>4, ComputerUseAssumption DEF Event, TakeAck
  <2>3. "failed" \in Outcomes
    BY DEF Outcomes
  <2>4. CallTypes'
    BY <1>4, <2>2, <2>3, CallTypesKept DEF TakeAck, Finished
  <2> QED
    BY <1>1, <1>4, <2>1, <2>4 DEF Types, HubTypes, TakeAck, hub, history
<1>5. CASE TakeDecisionEnd
  <2>1. AppTypes'
    BY <1>5, FS_RemoveElement DEF AppTypes, TakeDecisionEnd, Finished
  <2>2. Head(events).request \in Decisions
    BY <1>5 DEF TakeDecisionEnd
  <2>3. OutcomeOf(Head(events).result) \in Outcomes
    BY DEF OutcomeOf, Outcomes
  <2>4. CallTypes'
    BY <1>5, <2>2, <2>3, CallTypesKept DEF TakeDecisionEnd, Finished
  <2> QED
    BY <1>1, <1>5, <2>1, <2>4 DEF Types, HubTypes, TakeDecisionEnd, hub, history
<1> QED
  BY <1>2, <1>3, <1>4, <1>5

(* The user cancels a decision.                                             *)
LEMMA CancelTypes ==
  ASSUME TypeOK, NEW d \in Decisions, CancelDecision(d) PROVE Types'
<1>1. AppTypes'
  BY FS_RemoveElement DEF TypeOK, AppTypes, CancelDecision, Finished, Extra
<1>2. CallTypes'
  BY CallTypesKept DEF CancelDecision, Finished
<1>3. QueueTypes'
  BY Constructors, Queues DEF TypeOK, QueueTypes, CancelDecision, Tell, Requests
<1>4. HubTypes'
  BY DEF TypeOK, HubTypes, CancelDecision, Drop, hub
<1> QED
  BY <1>1, <1>2, <1>3, <1>4 DEF TypeOK, Types, CancelDecision

(* Whatever the order, the cancels are cancels.                             *)
LEMMA CancelsTypes ==
  ASSUME TypeOK PROVE Cancels \subseteq Seq({Cancel(r) : r \in Requests})
<1>1. Cardinality(live) \in Nat
  BY FS_CardinalityType DEF TypeOK, AppTypes
<1> SUFFICES ASSUME NEW order \in Bijection(1..Cardinality(live), live)
             PROVE  [i \in DOMAIN order |-> Cancel(order[i])] \in Seq({Cancel(r) : r \in Requests})
  BY DEF Cancels
<1>2. order \in [1..Cardinality(live) -> Requests]
  BY DEF Bijection, Injection, TypeOK, AppTypes
<1>3. [i \in DOMAIN order |-> Cancel(order[i])]
        \in [1..Cardinality(live) -> {Cancel(r) : r \in Requests}]
  BY <1>2
<1> QED
  BY <1>1, <1>3, SeqDef

(* A fence, and the configuration after it.                                 *)
LEMMA FenceTypes ==
  ASSUME TypeOK, Fence \/ SendConfiguration PROVE Types'
<1>1. CASE Fence
  <2>1. AppTypes'
    BY <1>1, FS_EmptySet DEF TypeOK, AppTypes, Fence, Extra
  <2>2. CallTypes'
    BY <1>1 DEF TypeOK, CallTypes, Fence, NoApproval, Maybe
  <2>3. QueueTypes'
    <3>1. PICK cancels \in Cancels : commands' = commands \o cancels
      BY <1>1 DEF Fence
    <3>2. cancels \in Seq(Command)
      BY CancelsTypes, Constructors, SeqMonotonic
    <3> QED
      BY <1>1, <3>1, <3>2, ConcatProperties DEF TypeOK, QueueTypes, Fence
  <2>4. HubTypes'
    BY <1>1 DEF TypeOK, HubTypes, Fence, Drop, hub
  <2> QED
    BY <1>1, <2>1, <2>2, <2>3, <2>4 DEF TypeOK, Types, Fence
<1>2. CASE SendConfiguration
  BY <1>2, Constructors, Queues
  DEF TypeOK, Types, AppTypes, CallTypes, QueueTypes, HubTypes, SendConfiguration, Tell,
      rows, hub, history
<1> QED
  BY <1>1, <1>2

(* A decision goes to the hub.                                              *)
LEMMA DispatchTypes ==
  ASSUME TypeOK, NEW d \in Decisions, Dispatch(d) \/ DispatchReject(d) PROVE Types'
<1>1. CallTypes'
  BY CallTypesKept DEF Dispatch, DispatchReject, Ended
<1>2. call[d].proposal \in Maybe
  BY DEF TypeOK, CallTypes, Call
<1>3. /\ Decision(d, call[d].proposal, "approve", TRUE) \in Command
      /\ Decision(d, call[d].proposal, "reject", FALSE) \in Command
  BY <1>2, Constructors DEF Verdicts
<1>4. QueueTypes'
  BY <1>3, Said DEF TypeOK, QueueTypes, Dispatch, DispatchReject
<1> QED
  BY <1>1, <1>4 DEF TypeOK, Types, AppTypes, HubTypes, Dispatch, DispatchReject, hub, history

(* decide() takes back or gives up.                                         *)
LEMMA EndCallTypes ==
  ASSUME TypeOK, NEW d \in Decisions, Withdraw(d) \/ GiveUp(d) \/ FailDecide(d)
  PROVE  Types'
<1>1. CallTypes'
  BY CallTypesKept DEF Withdraw, GiveUp, FailDecide, Forget, Ended, Outcomes
<1>2. AppTypes'
  BY FS_RemoveElement DEF TypeOK, AppTypes, Withdraw, GiveUp, FailDecide, Forget, Extra
<1> QED
  BY <1>1, <1>2 DEF TypeOK, Types, QueueTypes, HubTypes, Withdraw, GiveUp, FailDecide, hub, history

(* The Worker answers a call, or does not.                                  *)
LEMMA ServeCallTypes ==
  ASSUME TypeOK, NEW d \in Decisions, ServeCall(d) \/ FailCall(d) PROVE Types'
<1>1. CallTypes'
  BY CallTypesKept DEF ServeCall, FailCall, Answer
<1>2. extras' \in Nat
  BY DEF TypeOK, AppTypes, ServeCall, FailCall, Extra
<1> QED
  BY <1>1, <1>2 DEF TypeOK, Types, AppTypes, QueueTypes, HubTypes, ServeCall, FailCall, hub, history

(* A post arrives, or is lost.                                              *)
LEMMA ServePostTypes ==
  ASSUME TypeOK, NEW post \in posts, ServePost(post) \/ LosePost(post) PROVE Types'
<1>1. extras' \in Nat
  BY DEF TypeOK, AppTypes, ServePost, LosePost, Extra
<1> QED
  BY <1>1 DEF TypeOK, Types, AppTypes, CallTypes, QueueTypes, HubTypes, ServePost, LosePost, app,
              hub, history

(* The surroundings.                                                        *)
LEMMA WorldTypes ==
  ASSUME TypeOK, RowStep \/ ProposalOverdue \/ Crash PROVE Types'
<1>1. extras' \in Nat
  BY DEF TypeOK, AppTypes, RowStep, ProposalOverdue, Crash, Extra
<1>2. CASE RowStep \/ ProposalOverdue
  BY <1>1, <1>2 DEF TypeOK, Types, AppTypes, CallTypes, QueueTypes, HubTypes, RowStep,
                    ProposalOverdue, app, hub, history
<1>3. CASE Crash
  <2>1. AppTypes'
    BY <1>1, <1>3, FS_EmptySet DEF TypeOK, AppTypes, Crash
  <2>2. CallTypes'
    <3>1. NoApproval \in [proposal : Maybe, handoff : BOOLEAN]
      BY DEF NoApproval, Maybe
    <3> QED
      BY <1>3, <3>1 DEF TypeOK, CallTypes, Crash
  <2>3. QueueTypes'
    BY <1>3 DEF QueueTypes, Crash
  <2>4. HubTypes'
    <3>1. Over \in Task
      BY DEF Over, NoTask, Task, Maybe
    <3> QED
      BY <1>3, <3>1 DEF TypeOK, HubTypes, Crash, history
  <2> QED
    BY <2>1, <2>2, <2>3, <2>4 DEF Types
<1> QED
  BY <1>2, <1>3

-----------------------------------------------------------------------------

(* What the hub makes of a task is a task.                                  *)
LEMMA Tasks ==
  /\ Over \in Task
  /\ \A g \in Nat : [NoTask EXCEPT !.at = "turn", !.generation = g] \in Task
  /\ \A f \in Task :
       /\ [f EXCEPT !.cancelled = TRUE] \in Task
       /\ \A at \in {"claiming", "executing", "performed"} : [f EXCEPT !.at = at] \in Task
BY DEF Over, NoTask, Task, Maybe

(* The hub's loop reads a command.                                          *)
LEMMA LoopTypes ==
  ASSUME TypeOK, TakeMessage \/ TakeDecision \/ TakeCancel \/ TakeConfigure \/ ConfigureAssistant
  PROVE  Types'
<1> USE DEF TypeOK, Heads
<1>1. CASE TakeMessage
  <2>1. Head(commands) \in Command /\ commands' \in Seq(Command)
    BY <1>1, Queues DEF QueueTypes, TakeMessage
  <2>2. Head(commands).request \in Requests
    BY <1>1, <2>1 DEF Command, TakeMessage, Requests
  <2> DEFINE failed == End(Head(commands).request, "failed")
  <2>5. failed \in Event
    BY <2>2, Constructors DEF Results
  <2>3. QueueTypes'
    BY <1>1, <2>1, <2>5, Said DEF QueueTypes, TakeMessage
  <2>4. HubTypes'
    BY <1>1, <2>2, Tasks DEF HubTypes, TakeMessage, history
  <2> QED
    BY <1>1, <2>3, <2>4 DEF Types, AppTypes, CallTypes, TakeMessage, app, Extra
<1>2. CASE TakeDecision
  <2>1. Head(commands) \in Command /\ commands' \in Seq(Command)
    BY <1>2, Queues DEF QueueTypes, TakeDecision
  <2>2. /\ Head(commands).request \in Decisions /\ Head(commands).proposal \in Maybe
        /\ Head(commands).verdict \in Verdicts /\ Head(commands).receipt \in BOOLEAN
    BY <1>2, <2>1 DEF Command, TakeDecision
  <2> DEFINE refused == Ack(Head(commands).request, Head(commands).proposal, FALSE, FALSE)
             failed == End(Head(commands).request, "failed")
  <2>7. refused \in Event /\ failed \in Event
    BY <2>2, Constructors DEF Results, Requests
  <2>3. QueueTypes'
    BY <1>2, <2>1, <2>7, Said DEF QueueTypes, TakeDecision
  <2>4. generations.loop \in Nat
    BY DEF HubTypes
  <2>5. [at |-> "asked", cancelled |-> FALSE, generation |-> generations.loop,
         proposal |-> Head(commands).proposal, verdict |-> Head(commands).verdict,
         receipt |-> Head(commands).receipt] \in Task
    BY <2>2, <2>4 DEF Task
  <2>8. task' \in [Requests -> Task]
    BY <1>2, <2>2, <2>5, Tasks DEF HubTypes, TakeDecision, Requests
  <2>6. HubTypes'
    BY <1>2, <2>8 DEF HubTypes, TakeDecision, history
  <2> QED
    BY <1>2, <2>3, <2>6 DEF Types, AppTypes, CallTypes, TakeDecision, app, Extra
<1>3. CASE TakeCancel
  <2>1. QueueTypes'
    BY <1>3, Queues DEF QueueTypes, TakeCancel
  <2>2. HubTypes'
    BY <1>3, Tasks DEF HubTypes, TakeCancel, history, Active
  <2> QED
    BY <1>3, <2>1, <2>2 DEF Types, AppTypes, CallTypes, TakeCancel, app
<1>4. AllCancelled \in [Requests -> Task]
  BY Tasks DEF AllCancelled, HubTypes
<1>5. CASE TakeConfigure
  <2>1. QueueTypes'
    BY <1>5, Queues DEF QueueTypes, TakeConfigure
  <2>2. generations' \in [loop : Nat, state : Nat]
    BY <1>5 DEF HubTypes, TakeConfigure
  <2> QED
    BY <1>4, <1>5, <2>1, <2>2 DEF Types, AppTypes, CallTypes, HubTypes, TakeConfigure, app, history
<1>6. CASE ConfigureAssistant
  BY <1>4, <1>6
  DEF Types, AppTypes, CallTypes, QueueTypes, HubTypes, ConfigureAssistant, app, history, Extra
<1> QED
  BY <1>1, <1>2, <1>3, <1>5, <1>6

(* A turn proposes, or stops.                                               *)
LEMMA TurnTypes ==
  ASSUME TypeOK, NEW c \in Chats, TurnStops(c) \/ \E p \in Proposals : Propose(c, p)
  PROVE  Types'
<1>1. \A result \in Results : End(c, result) \in Event
  BY Constructors DEF Requests
<1>2. CASE TurnStops(c)
  <2>1. QueueTypes'
    BY <1>1, <1>2, Said DEF TypeOK, QueueTypes, TurnStops, Results
  <2>2. HubTypes'
    BY <1>2, Tasks DEF TypeOK, HubTypes, TurnStops, history
  <2> QED
    BY <1>2, <2>1, <2>2 DEF TypeOK, Types, AppTypes, CallTypes, TurnStops, app, Extra
<1>3. ASSUME NEW p \in Proposals, Propose(c, p) PROVE Types'
  <2>1. Proposal(p, c) \in Event /\ End(c, "failed") \in Event
    BY <1>1, Constructors DEF Results
  <2>2. QueueTypes'
    BY <1>3, <2>1, Said DEF TypeOK, QueueTypes, Propose
  <2> QED
    BY <1>3, <2>2 DEF TypeOK, Types, AppTypes, CallTypes, HubTypes, Propose, app, history, Extra
<1> QED
  BY <1>2, <1>3

(* A step of the task of decision d.                                        *)
LEMMA TaskTypes ==
  ASSUME TypeOK, NEW d \in Decisions,
         \/ task' = [task EXCEPT ![d] = Over]
         \/ \E at \in {"claiming", "executing", "performed"} : task' = [task EXCEPT ![d].at = at],
         \/ events' = events
         \/ \E x \in {Refused(d), Executing(d), Ack(d, Target(d), TRUE, FALSE)}
                       \cup {End(d, result) : result \in Results} :
               Emit(<<x>>)
         \/ \E x \in {Refused(d), Executing(d), Ack(d, Target(d), TRUE, FALSE)}, result \in Results :
               Emit(<<x, End(d, result)>>),
         claim' = claim \/ \E to \in {"sent", "granted", "refused"} : claim' = [claim EXCEPT ![d] = to],
         performed' \subseteq performed \cup {d},
         UNCHANGED <<up, app, posts, commands, generations, dropped>>,
         extras' \in Nat
  PROVE  Types'
<1>1. /\ Ack(d, Target(d), FALSE, FALSE) \in Event
      /\ Ack(d, Target(d), TRUE, TRUE) \in Event
      /\ Ack(d, Target(d), TRUE, FALSE) \in Event
      /\ \A result \in Results : End(d, result) \in Event
  <2>1. Target(d) \in Maybe
    BY DEF Target, TypeOK, HubTypes, Task, Requests
  <2> QED
    BY <2>1, Constructors DEF Requests
<1>2. QueueTypes'
  BY <1>1, Said DEF TypeOK, QueueTypes, Refused, Executing
<1>3. task' \in [Requests -> Task]
  <2>1. task \in [Requests -> Task] /\ d \in Requests
    BY DEF TypeOK, HubTypes, Requests
  <2>2. \A f \in Task : [task EXCEPT ![d] = f] \in [Requests -> Task]
    BY <2>1
  <2>3. \A at \in {"claiming", "executing", "performed"} : [task[d] EXCEPT !.at = at] \in Task
    BY <2>1, Tasks
  <2>4. CASE task' = [task EXCEPT ![d] = Over]
    BY <2>2, <2>4, Tasks
  <2>5. ASSUME NEW at \in {"claiming", "executing", "performed"}, task' = [task EXCEPT ![d].at = at]
        PROVE  task' \in [Requests -> Task]
    BY <2>1, <2>2, <2>3, <2>5
  <2> QED
    BY <2>4, <2>5
<1>4. HubTypes'
  BY <1>3 DEF TypeOK, HubTypes
<1> QED
  BY <1>2, <1>4 DEF TypeOK, Types, AppTypes, CallTypes, app

(* Every step of the task of a decision.                                    *)
LEMMA DecisionTypes ==
  ASSUME TypeOK, NEW d \in Decisions,
         \/ DecisionCancelled(d) \/ DecisionRefused(d) \/ DecisionRejected(d) \/ DecisionApproved(d)
         \/ ServeClaim(d) \/ ClaimGranted(d) \/ ClaimFailed(d) \/ Perform(d) \/ EngineStops(d)
  PROVE  Types'
<1>1. extras' \in Nat
  BY DEF TypeOK, AppTypes, DecisionCancelled, DecisionRefused, DecisionRejected, DecisionApproved,
         ServeClaim, ClaimGranted, ClaimFailed, Perform, EngineStops, Extra
<1>2. CASE DecisionCancelled(d)
  BY <1>1, <1>2, TaskTypes DEF DecisionCancelled, Results, history
<1>3. CASE DecisionRefused(d)
  BY <1>1, <1>3, TaskTypes DEF DecisionRefused, Results, history
<1>4. CASE DecisionRejected(d)
  BY <1>1, <1>4, TaskTypes DEF DecisionRejected, Results, history
<1>5. CASE DecisionApproved(d)
  BY <1>1, <1>5, TaskTypes DEF DecisionApproved, Results, history
<1>6. CASE ServeClaim(d)
  BY <1>6 DEF TypeOK, Types, AppTypes, CallTypes, QueueTypes, HubTypes, ServeClaim, app, history
<1>7. CASE ClaimGranted(d)
  BY <1>1, <1>7, TaskTypes DEF ClaimGranted, history
<1>8. CASE ClaimFailed(d)
  BY <1>1, <1>8, TaskTypes DEF ClaimFailed, EndTask, Results, history
<1>9. CASE Perform(d)
  BY <1>1, <1>9, TaskTypes DEF Perform, history
<1>10. CASE EngineStops(d)
  BY <1>1, <1>10, TaskTypes DEF EngineStops, EndTask, Results, history
<1> QED
  BY <1>2, <1>3, <1>4, <1>5, <1>6, <1>7, <1>8, <1>9, <1>10

-----------------------------------------------------------------------------
(* Steps that add nothing to a decision                                     *)

QueueKeeps(d) ==
  \E n \in {0, 1} : \A i \in DOMAIN commands' :
    Asks(d, i)' => i + n \in DOMAIN commands /\ commands'[i] = commands[i + n]

EventsKeep(d) == \A result \in Results : Told(d, result)' => Told(d, result)

Keeps(d) ==
  /\ UNCHANGED <<call[d], claim[d]>> /\ (d \in performed' <=> d \in performed)
  /\ up' => up
  /\ approval'[d].handoff => approval[d].handoff
  /\ \/ UNCHANGED <<task[d].at, task[d].verdict, task[d].receipt>>
     \/ ~up' /\ commands' = <<>> /\ task'[d] = Over
  /\ QueueKeeps(d) /\ EventsKeep(d)
  /\ \A post \in posts' : post[1] = d => post \in posts

(* A decision to which nothing is added stays in order, and gets no card.   *)
LEMMA KeptInOrder ==
  ASSUME TypeOK, Types', NEW d \in Decisions, InOrder(d), Keeps(d)
  PROVE  InOrder(d)' /\ (Holds(d)' => Holds(d))
<1>1. PICK n \in {0, 1} : \A i \in DOMAIN commands' :
        Asks(d, i)' => i + n \in DOMAIN commands /\ commands'[i] = commands[i + n]
  BY DEF Keeps, QueueKeeps
<1>2. \A i \in DOMAIN commands' : Asks(d, i)' => Asks(d, i + n)
  BY <1>1 DEF Asks
<1>0. DOMAIN commands' \subseteq Nat
  BY LenProperties DEF Types, QueueTypes
<1>3. CallFirst(d)'
  BY <1>1, <1>2 DEF Keeps, InOrder, CallFirst, Quiet, Untold, EventsKeep, Over, NoTask
<1>4. MessageFirst(d)'
  <2> SUFFICES ASSUME NEW i \in DOMAIN commands', Asks(d, i)'
               PROVE  /\ task'[d].at = "none"
                      /\ approval'[d].handoff => commands'[i].verdict = "approve"
                      /\ \A j \in DOMAIN commands' : Asks(d, j)' => i = j
                      /\ Untold(d)'
    BY DEF MessageFirst
  <2>1. i + n \in DOMAIN commands /\ Asks(d, i + n) /\ commands'[i] = commands[i + n]
    BY <1>1, <1>2
  <2>2. \A j \in DOMAIN commands' : Asks(d, j)' => i + n = j + n
    BY <1>1, <1>2, <2>1 DEF InOrder, MessageFirst
  <2>3. commands' # <<>>
    OBVIOUS
  <2> QED
    BY <1>0, <2>1, <2>2, <2>3 DEF Keeps, InOrder, MessageFirst, Untold, EventsKeep
<1>5. TaskFirst(d)'
  BY DEF Keeps, InOrder, TaskFirst, Over, NoTask
<1>6. ToldTheTruth(d)'
  BY DEF Keeps, InOrder, ToldTheTruth, EventsKeep, Over, NoTask
<1>7. ReportsTheTruth(d)'
  BY DEF Keeps, InOrder, ReportsTheTruth, Over, NoTask
<1>8. Holds(d)' => Holds(d)
  BY <1>1, <1>2 DEF Keeps, Holds, Over, NoTask
<1> QED
  BY <1>3, <1>4, <1>5, <1>6, <1>7, <1>8 DEF InOrder

(* Messages of other requests, and what is read, add nothing to decision d. *)
LEMMA QueuesKeep ==
  ASSUME TypeOK, NEW d \in Decisions,
         \/ commands' = commands
         \/ \E m \in Command : Tell(m) /\ ~(m.kind = "decision" /\ m.request = d)
         \/ \E cancels \in Seq({Cancel(r) : r \in Requests}) : commands' = commands \o cancels
         \/ commands # <<>> /\ commands' = Tail(commands)
         \/ commands' = <<>>
  PROVE  QueueKeeps(d)
<1> USE DEF TypeOK, QueueTypes
<1>1. ASSUME NEW m \in Command, Tell(m), ~(m.kind = "decision" /\ m.request = d)
      PROVE  QueueKeeps(d)
  <2>1. \A i \in DOMAIN commands' :
          Asks(d, i)' => i + 0 \in DOMAIN commands /\ commands'[i] = commands[i + 0]
    BY <1>1 DEF Tell, Asks
  <2> QED
    BY <2>1 DEF QueueKeeps
<1>2. ASSUME NEW cancels \in Seq({Cancel(r) : r \in Requests}), commands' = commands \o cancels
      PROVE  QueueKeeps(d)
  <2>1. /\ cancels \in Seq(Command \cup {Cancel(r) : r \in Requests})
        /\ commands \in Seq(Command \cup {Cancel(r) : r \in Requests})
    BY SeqMonotonic
  <2>2. \A i \in 1..Len(cancels) : cancels[i].kind = "cancel"
    BY ElementOfSeq DEF Cancel
  <2>4. \A i \in DOMAIN commands' :
          \/ i \in DOMAIN commands /\ commands'[i] = commands[i]
          \/ i - Len(commands) \in 1..Len(cancels) /\ commands'[i] = cancels[i - Len(commands)]
    BY <1>2, <2>1, ConcatProperties, LenProperties
  <2>3. \A i \in DOMAIN commands' :
          Asks(d, i)' => i + 0 \in DOMAIN commands /\ commands'[i] = commands[i + 0]
    BY <2>2, <2>4, LenProperties DEF Asks
  <2> QED
    BY <2>3 DEF QueueKeeps
<1>3. ASSUME commands # <<>>, commands' = Tail(commands) PROVE QueueKeeps(d)
  <2>1. \A i \in DOMAIN commands' :
          Asks(d, i)' => i + 1 \in DOMAIN commands /\ commands'[i] = commands[i + 1]
    BY <1>3, HeadTailProperties, LenProperties
  <2> QED
    BY <2>1 DEF QueueKeeps
<1>4. commands' = commands => QueueKeeps(d)
  <2>1. ASSUME commands' = commands
        PROVE  \A i \in DOMAIN commands' :
                 Asks(d, i)' => i + 0 \in DOMAIN commands /\ commands'[i] = commands[i + 0]
    BY <2>1
  <2> QED
    BY <2>1 DEF QueueKeeps
<1>5. commands' = <<>> => QueueKeeps(d)
  BY DEF QueueKeeps
<1> QED
  BY <1>1, <1>2, <1>3, <1>4, <1>5

Ends(x, d) == x.kind = "end" /\ x.request = d

(* Nor do events that do not end it.                                        *)
LEMMA EventsKept ==
  ASSUME TypeOK, NEW d \in Decisions
  PROVE  /\ events' = events \/ events' = <<>> => EventsKeep(d)
         /\ events # <<>> /\ events' = Tail(events) => EventsKeep(d)
         /\ \A x \in Event : Emit(<<x>>) /\ ~Ends(x, d) => EventsKeep(d)
         /\ \A x, y \in Event : Emit(<<x, y>>) /\ ~Ends(x, d) /\ ~Ends(y, d) => EventsKeep(d)
<1> USE DEF TypeOK, QueueTypes, EventsKeep, Told, Ends
<1>1. ASSUME NEW x \in Event, Emit(<<x>>), ~Ends(x, d)
      PROVE  EventsKeep(d)
  <2>1. \A i \in DOMAIN events' : events'[i] = x \/ (i \in DOMAIN events /\ events'[i] = events[i])
    BY <1>1, ConcatProperties, LenProperties DEF Emit
  <2> QED
    BY <1>1, <2>1
<1>2. ASSUME NEW x \in Event, NEW y \in Event, Emit(<<x, y>>), ~Ends(x, d), ~Ends(y, d)
      PROVE  EventsKeep(d)
  <2>1. \A i \in DOMAIN events' : events'[i] \in {x, y} \/ (i \in DOMAIN events /\ events'[i] = events[i])
    BY <1>2, ConcatProperties, LenProperties DEF Emit
  <2> QED
    BY <1>2, <2>1
<1>3. ASSUME events # <<>>, events' = Tail(events) PROVE EventsKeep(d)
  <2>1. \A i \in DOMAIN events' : i + 1 \in DOMAIN events /\ events'[i] = events[i + 1]
    BY <1>3, HeadTailProperties, LenProperties
  <2> QED
    BY <2>1
<1>4. events' = events \/ events' = <<>> => EventsKeep(d)
  OBVIOUS
<1> HIDE DEF EventsKeep
<1> QED
  BY <1>1, <1>2, <1>3, <1>4

(* Whatever else happens to a message or an event, it is not of decision d. *)
LEMMA OtherMessages ==
  ASSUME NEW d \in Decisions
  PROVE  /\ \A r : Message(r).kind # "decision" /\ Cancel(r).kind # "decision"
         /\ Configure.kind # "decision"
         /\ \A e, p, verdict, receipt : Decision(e, p, verdict, receipt).request = e
         /\ \A p, c : ~Ends(Proposal(p, c), d)
         /\ \A e, p, accepted, executes : ~Ends(Ack(e, p, accepted, executes), d)
         /\ \A r, result : Ends(End(r, result), d) <=> r = d
BY DEF Message, Decision, Cancel, Configure, Proposal, Ack, End, Ends

(* Chats, cards and cancellations.                                          *)
LEMMA ChatsKeep ==
  ASSUME TypeOK, NEW d \in Decisions,
         \/ \E c \in Chats : Chat(c) \/ CancelChat(c)
         \/ \E c \in Cards : Accept(c)
         \/ SendConfiguration
         \/ CancelDecision(d) \/ \E e \in Decisions : CancelDecision(e)
  PROVE  Keeps(d)
<1>1. QueueKeeps(d)
  BY ComputerUseAssumption, QueuesKeep, Constructors, OtherMessages
  DEF Chat, CancelChat, Accept, SendConfiguration, CancelDecision, Say, Requests
<1>2. EventsKeep(d)
  BY EventsKept DEF Chat, CancelChat, Accept, SendConfiguration, CancelDecision
<1>3. approval'[d].handoff => approval[d].handoff
  <2>1. ASSUME NEW e \in Decisions, CancelDecision(e)
        PROVE  approval'[d] = IF e = d THEN NoApproval ELSE approval[d]
    BY <2>1 DEF CancelDecision, Finished, TypeOK, CallTypes
  <2>2. ~NoApproval.handoff
    BY DEF NoApproval
  <2> QED
    BY <2>1, <2>2 DEF Chat, CancelChat, Accept, SendConfiguration
<1>4. UNCHANGED <<up, call, posts, task, claim, performed>>
  BY DEF Chat, CancelChat, Accept, SendConfiguration, CancelDecision, hub, history
<1> QED
  BY <1>1, <1>2, <1>3, <1>4 DEF Keeps

(* The app reads of a turn.                                                 *)
LEMMA TakesKeep ==
  ASSUME TypeOK, NEW d \in Decisions, TakeProposal \/ TakeTurnEnd, Nobody # d
  PROVE  Keeps(d)
<1>1. QueueKeeps(d)
  BY QueuesKeep DEF TakeProposal, TakeTurnEnd
<1>2. EventsKeep(d)
  BY EventsKept DEF TakeProposal, TakeTurnEnd, Heads
<1> QED
  BY <1>1, <1>2 DEF Keeps, TakeProposal, TakeTurnEnd, hub, history

(* A fence.                                                                 *)
LEMMA FenceKeeps ==
  ASSUME TypeOK, NEW d \in Decisions, Fence PROVE Keeps(d)
<1>1. QueueKeeps(d)
  BY CancelsTypes, QueuesKeep DEF Fence
<1>2. EventsKeep(d)
  BY EventsKept DEF Fence
<1> QED
  BY <1>1, <1>2 DEF Keeps, Fence, hub, NoApproval

(* The death of the process.                                                *)
LEMMA CrashKeeps ==
  ASSUME TypeOK, NEW d \in Decisions, Crash PROVE Keeps(d)
<1>1. QueueKeeps(d)
  BY QueuesKeep DEF Crash
<1>2. EventsKeep(d)
  BY EventsKept DEF Crash
<1> QED
  BY <1>1, <1>2 DEF Keeps, Crash, history, NoApproval, Requests

(* The hub's loop, but for decisions.                                       *)
LEMMA LoopKeeps ==
  ASSUME TypeOK, NEW d \in Decisions,
         TakeMessage \/ TakeCancel \/ TakeConfigure \/ ConfigureAssistant
  PROVE  Keeps(d)
<1>1. QueueKeeps(d)
  BY QueuesKeep DEF TakeMessage, TakeCancel, TakeConfigure, ConfigureAssistant, Heads
<1>2. ASSUME TakeMessage
      PROVE  Head(commands).request \in Requests /\ Head(commands).request # d
  BY <1>2, ComputerUseAssumption, HeadTailProperties
  DEF TakeMessage, Heads, TypeOK, QueueTypes, Command, Requests
<1>3. EventsKeep(d)
  <2>1. \A r \in Requests : End(r, "failed") \in Event
    BY Constructors DEF Results
  <2> QED
    BY <1>2, <2>1, EventsKept, OtherMessages
    DEF TakeMessage, TakeCancel, TakeConfigure, ConfigureAssistant
<1>4. UNCHANGED <<task[d].at, task[d].verdict, task[d].receipt>>
  BY <1>2 DEF TakeMessage, TakeCancel, TakeConfigure, ConfigureAssistant, AllCancelled, Active,
              TypeOK, HubTypes, Task, Requests
<1> QED
  BY <1>1, <1>3, <1>4
  DEF Keeps, TakeMessage, TakeCancel, TakeConfigure, ConfigureAssistant, app, history

(* The turns.                                                               *)
LEMMA TurnsKeep ==
  ASSUME TypeOK, NEW d \in Decisions, NEW c \in Chats,
         TurnStops(c) \/ \E p \in Proposals : Propose(c, p)
  PROVE  Keeps(d)
<1>1. QueueKeeps(d)
  BY QueuesKeep DEF TurnStops, Propose
<1>2. c # d /\ \A result \in Results : End(c, result) \in Event
  BY ComputerUseAssumption, Constructors DEF Requests
<1>3. EventsKeep(d)
  <2>1. \A result \in Results : Emit(<<End(c, result)>>) => EventsKeep(d)
    BY <1>2, EventsKept, OtherMessages
  <2>2. \A p \in Proposals : Emit(<<Proposal(p, c)>>) => EventsKeep(d)
    BY EventsKept, OtherMessages, Constructors
  <2> QED
    BY <2>1, <2>2 DEF TurnStops, Propose, Results
<1>4. task'[d] = task[d]
  BY <1>2 DEF TurnStops, Propose, TypeOK, HubTypes, Requests
<1> QED
  BY <1>1, <1>3, <1>4 DEF Keeps, TurnStops, Propose, app, history

(* Posts, and the surroundings.                                             *)
LEMMA WorldKeeps ==
  ASSUME TypeOK, NEW d \in Decisions,
         \/ \E post \in posts : ServePost(post) \/ LosePost(post)
         \/ RowStep \/ ProposalOverdue \/ UNCHANGED vars
  PROVE  Keeps(d)
<1>1. QueueKeeps(d)
  BY QueuesKeep DEF ServePost, LosePost, RowStep, ProposalOverdue, vars
<1>2. EventsKeep(d)
  BY EventsKept DEF ServePost, LosePost, RowStep, ProposalOverdue, vars
<1> QED
  BY <1>1, <1>2
  DEF Keeps, ServePost, LosePost, RowStep, ProposalOverdue, vars, app, hub, history

-----------------------------------------------------------------------------
(* The calls of decide()                                                    *)

(* What is asked of the hub for decision d was asked before, or is this.    *)
LEMMA Asked ==
  ASSUME TypeOK, NEW d \in Decisions, NEW p \in Maybe, NEW verdict \in Verdicts, NEW receipt \in BOOLEAN,
         Tell(Decision(d, p, verdict, receipt))
  PROVE  \A i \in DOMAIN commands' : Asks(d, i)' =>
           \/ i \in DOMAIN commands /\ Asks(d, i) /\ commands'[i] = commands[i]
           \/ i = Len(commands) + 1 /\ commands'[i].verdict = verdict /\ commands'[i].receipt = receipt
<1>1. Decision(d, p, verdict, receipt) \in Command
  BY Constructors
<1>2. \A i \in DOMAIN commands' :
        \/ i \in DOMAIN commands /\ commands'[i] = commands[i]
        \/ i = Len(commands) + 1 /\ commands'[i] = Decision(d, p, verdict, receipt)
  BY <1>1 DEF Tell, TypeOK, QueueTypes
<1> QED
  BY <1>2 DEF Asks, Decision

(* A step of the call of decision d, which is not over before.              *)
LEMMA CallStep ==
  ASSUME TypeOK, NEW d \in Decisions, InOrder(d), call[d].at # "over",
         UNCHANGED <<task, claim, performed, up, events>>,
         call'[d].at \in {"approve", "reject", "report"} => call'[d].card \in Cards,
         call'[d].at # "over" => ~approval'[d].handoff /\ commands' = commands,
         \A post \in posts' : post[1] = d /\ post \notin posts =>
           call'[d].at = "over" /\ post = <<d, call'[d].card, "outcome_unknown">>,
         \/ commands' = commands
         \/ /\ up
            /\ \E p \in Maybe, verdict \in Verdicts, receipt \in BOOLEAN :
                 /\ approval'[d].handoff => verdict = "approve"
                 /\ Tell(Decision(d, p, verdict, receipt))
  PROVE  InOrder(d)'
<1>1. /\ claim[d] = "none" /\ ~approval[d].handoff /\ Quiet(d) /\ Untold(d)
      /\ task[d].at \in {"none", "over"} /\ (up => task[d].at = "none")
      /\ d \notin performed /\ \A post \in posts : post[1] # d
  BY DEF InOrder, CallFirst, TaskFirst, ReportsTheTruth
<1>2. Untold(d)' /\ (Quiet(d)' \/ commands' # commands)
  BY <1>1 DEF Untold, Told, Quiet, Asks
<1>3. CallFirst(d)'
  BY <1>1, <1>2 DEF CallFirst
<1>4. MessageFirst(d)'
  <2>1. CASE commands' = commands
    BY <1>1, <2>1 DEF Quiet, Asks, MessageFirst
  <2>2. ASSUME up, NEW p \in Maybe, NEW verdict \in Verdicts, NEW receipt \in BOOLEAN,
               approval'[d].handoff => verdict = "approve",
               Tell(Decision(d, p, verdict, receipt))
        PROVE  MessageFirst(d)'
    BY <1>1, <1>2, <2>2, Asked DEF MessageFirst, Quiet
  <2> QED
    BY <2>1, <2>2
<1>5. TaskFirst(d)'
  BY <1>1 DEF InOrder, TaskFirst
<1>6. ToldTheTruth(d)'
  BY <1>2 DEF ToldTheTruth, Untold
<1>7. ReportsTheTruth(d)'
  BY <1>1 DEF ReportsTheTruth, Outcomes, NoEffect
<1> QED
  BY <1>3, <1>4, <1>5, <1>6, <1>7 DEF InOrder

CallActions(d) ==
  \/ \E p \in Proposals, verdict \in Verdicts : Decide(d, p, verdict)
  \/ ServeCall(d) \/ FailCall(d) \/ Dispatch(d) \/ Withdraw(d) \/ GiveUp(d)
  \/ FailDecide(d) \/ DispatchReject(d)

(* So every step of the call keeps the decision in order.                   *)
LEMMA CallsInOrder ==
  ASSUME TypeOK, NEW d \in Decisions, InOrder(d), CallActions(d)
  PROVE  InOrder(d)'
<1>1. UNCHANGED <<task, claim, performed, up, events>>
  BY DEF CallActions, Decide, ServeCall, FailCall, Dispatch, Withdraw, GiveUp, FailDecide, DispatchReject,
         hub, history
<1>2. call[d].at # "over"
  BY DEF CallActions, Decide, Unused, ServeCall, FailCall, Dispatch, Withdraw, GiveUp, FailDecide,
         DispatchReject
<1>3. /\ call \in [Decisions -> Call] /\ call[d].proposal \in Maybe
      /\ approval \in [Decisions -> [proposal : Maybe, handoff : BOOLEAN]]
      /\ call[d].at \in {"approve", "reject", "report"} => call[d].card \in Cards
      /\ ~approval[d].handoff /\ ~NoApproval.handoff
  BY <1>2 DEF TypeOK, CallTypes, Call, InOrder, CallFirst, NoApproval
<1>4. ASSUME NEW p \in Proposals, NEW verdict \in Verdicts, Decide(d, p, verdict)
      PROVE  InOrder(d)'
  <2>1. p \in Maybe
    BY DEF Maybe
  <2>2. /\ call'[d].at \in {"approve", "reject", "report"} => call'[d].card \in Cards
        /\ call'[d].at # "over" => commands' = commands
    BY <1>3, <1>4 DEF Decide, Verdicts
  <2>3. ~approval'[d].handoff /\ posts' = posts
    BY <1>3, <1>4 DEF Decide
  <2>4. commands' = commands \/ Tell(Decision(d, p, verdict, FALSE))
    BY <1>4 DEF Decide
  <2>5. up
    BY <1>4 DEF Decide
  <2> QED
    BY <1>1, <1>2, <2>1, <2>2, <2>3, <2>4, <2>5, CallStep
<1>5. CASE ServeCall(d) \/ FailCall(d)
  <2>1. call'[d].at = call[d].at /\ call'[d].card = call[d].card
    BY <1>3, <1>5 DEF ServeCall, FailCall, Answer, Call
  <2> QED
    BY <1>1, <1>2, <1>3, <1>5, <2>1, CallStep DEF ServeCall, FailCall
<1>6. CASE Dispatch(d) \/ DispatchReject(d)
  <2>1. call'[d].at = "over"
    BY <1>3, <1>6 DEF Dispatch, DispatchReject, Ended, Call
  <2>2. up /\ posts' = posts
    BY <1>6 DEF Dispatch, DispatchReject
  <2>3. CASE Dispatch(d)
    BY <1>1, <1>2, <1>3, <2>1, <2>2, <2>3, CallStep DEF Dispatch, Verdicts
  <2>4. CASE DispatchReject(d)
    BY <1>1, <1>2, <1>3, <2>1, <2>2, <2>4, CallStep DEF DispatchReject, Verdicts
  <2> QED
    BY <1>6, <2>3, <2>4
<1>7. CASE Withdraw(d)
  <2>1. call'[d].at = "report" /\ call'[d].card = call[d].card /\ call[d].at = "approve"
    BY <1>3, <1>7 DEF Withdraw, Call
  <2> QED
    BY <1>1, <1>2, <1>3, <1>7, <2>1, CallStep DEF Withdraw
<1>8. CASE GiveUp(d) \/ FailDecide(d)
  <2>1. call'[d].at = "over" /\ call'[d].card = call[d].card
    BY <1>3, <1>8 DEF GiveUp, FailDecide, Ended, Call
  <2>2. /\ commands' = commands
        /\ (posts' = posts \/ posts' = posts \cup {<<d, call[d].card, "outcome_unknown">>})
    BY <1>8 DEF GiveUp, FailDecide
  <2> QED
    BY <1>1, <1>2, <2>1, <2>2, CallStep
<1> QED
  BY <1>4, <1>5, <1>6, <1>7, <1>8 DEF CallActions

(* The Worker's approval of decision d arrives.                             *)
Granted(d) ==
  call[d].at = "approve" /\ call[d].answer = "none" /\ ApproveExecution(call[d].card, call[d].proposal)

(* It comes to hold its card by the Worker's approval alone.                *)
LEMMA CallsHold ==
  ASSUME TypeOK, NEW d \in Decisions, InOrder(d), CallActions(d), Holds(d)'
  PROVE  call'[d].card = call[d].card /\ (Holds(d) \/ Granted(d))
<1>1. UNCHANGED <<task, claim>>
  BY DEF CallActions, Decide, ServeCall, FailCall, Dispatch, Withdraw, GiveUp, FailDecide, DispatchReject,
         hub
<1>2. call[d].at # "over"
  BY DEF CallActions, Decide, Unused, ServeCall, FailCall, Dispatch, Withdraw, GiveUp, FailDecide,
         DispatchReject
<1>3. /\ call \in [Decisions -> Call] /\ call[d].proposal \in Maybe
      /\ approval \in [Decisions -> [proposal : Maybe, handoff : BOOLEAN]]
      /\ ~approval[d].handoff /\ ~NoApproval.handoff
      /\ ~task'[d].receipt /\ claim'[d] = "none"
      /\ \A post \in posts : post[1] # d
      /\ Quiet(d)
  BY <1>1, <1>2 DEF TypeOK, CallTypes, Call, InOrder, CallFirst, TaskFirst, ReportsTheTruth, NoApproval
<1>4. \/ call'[d].at = "approve" /\ call'[d].answer = "ok"
      \/ call'[d].at = "report"
      \/ approval'[d].handoff
      \/ \E i \in DOMAIN commands' : Asks(d, i)' /\ commands'[i].receipt
      \/ \E post \in posts' : post[1] = d
  BY <1>3 DEF Holds
<1>5. commands' = commands => \A i \in DOMAIN commands' : ~Asks(d, i)'
  BY <1>3 DEF Quiet, Asks
<1>6. ASSUME NEW p \in Proposals, NEW verdict \in Verdicts, Decide(d, p, verdict)
      PROVE  FALSE
  <2>1. p \in Maybe
    BY DEF Maybe
  <2>2. ~approval'[d].handoff /\ posts' = posts
    BY <1>3, <1>6 DEF Decide
  <2>3. call'[d].at # "report" /\ call'[d].answer # "ok"
    BY <1>3, <1>6 DEF Decide, Verdicts
  <2>4. commands' = commands \/ Tell(Decision(d, p, verdict, FALSE))
    BY <1>6 DEF Decide
  <2>5. \A i \in DOMAIN commands' : Asks(d, i)' => ~commands'[i].receipt
    BY <1>3, <1>5, <2>1, <2>4, Asked DEF Quiet
  <2> QED
    BY <1>3, <1>4, <2>2, <2>3, <2>5
<1>7. CASE ServeCall(d)
  <2>1. UNCHANGED <<approval, posts, commands>> /\ call'[d].at = call[d].at /\ call'[d].card = call[d].card
    BY <1>3, <1>7 DEF ServeCall, Answer, Call
  <2> QED
    BY <1>3, <1>4, <1>5, <1>7, <2>1 DEF ServeCall, Granted, Holds
<1>8. CASE FailCall(d)
  <2>1. UNCHANGED <<approval, posts, commands>>
    BY <1>8 DEF FailCall
  <2>2. call'[d].answer = "failed" /\ call'[d].at = call[d].at /\ call'[d].card = call[d].card
    BY <1>3, <1>8 DEF FailCall, Answer, Call
  <2> QED
    BY <1>3, <1>4, <1>5, <1>8, <2>1, <2>2 DEF FailCall, Holds
<1>9. CASE Dispatch(d) \/ Withdraw(d)
  <2>1. call'[d].card = call[d].card
    BY <1>3, <1>9 DEF Dispatch, Withdraw, Ended, Call
  <2> QED
    BY <1>9, <2>1 DEF Dispatch, Withdraw, Holds
<1>10. CASE GiveUp(d)
  <2>1. call'[d].card = call[d].card
    BY <1>3, <1>10 DEF GiveUp, Ended, Call
  <2> QED
    BY <1>10, <2>1 DEF GiveUp, Holds
<1>11. CASE FailDecide(d)
  <2>1. UNCHANGED <<posts, commands>> /\ ~approval'[d].handoff /\ call'[d].at = "over"
    BY <1>3, <1>11 DEF FailDecide, Ended, Forget, Call
  <2> QED
    BY <1>3, <1>4, <1>5, <2>1
<1>12. CASE DispatchReject(d)
  <2>1. UNCHANGED <<posts, approval>> /\ call'[d].at = "over"
    BY <1>3, <1>12 DEF DispatchReject, Ended, Call
  <2>2. Tell(Decision(d, call[d].proposal, "reject", FALSE))
    BY <1>12 DEF DispatchReject
  <2>3. \A i \in DOMAIN commands' : Asks(d, i)' => ~commands'[i].receipt
    BY <1>3, <2>2, Asked DEF Quiet, Verdicts
  <2> QED
    BY <1>3, <1>4, <2>1, <2>3
<1> QED
  BY <1>6, <1>7, <1>8, <1>9, <1>10, <1>11, <1>12 DEF CallActions

(* The other decisions have no part in it.                                  *)
LEMMA CallsKeep ==
  ASSUME TypeOK, NEW d \in Decisions, CallActions(d), NEW e \in Decisions, e # d
  PROVE  Keeps(e)
<1>1. UNCHANGED <<task, claim, performed, up, events>>
  BY DEF CallActions, Decide, ServeCall, FailCall, Dispatch, Withdraw, GiveUp, FailDecide, DispatchReject,
         hub, history
<1>2. call'[e] = call[e]
  <2>1. call \in [Decisions -> Call]
    BY DEF TypeOK, CallTypes
  <2>2. (\E f : call' = [call EXCEPT ![d] = f]) => call'[e] = call[e]
    BY <2>1
  <2>3. \E f : call' = [call EXCEPT ![d] = f]
    <3>1. ASSUME NEW p \in Proposals, NEW verdict \in Verdicts, Decide(d, p, verdict)
          PROVE  \E f : call' = [call EXCEPT ![d] = f]
      BY <3>1 DEF Decide
    <3>2. CASE ServeCall(d) \/ FailCall(d)
      BY <2>1, <3>2 DEF ServeCall, FailCall, Answer
    <3>3. CASE Dispatch(d) \/ DispatchReject(d) \/ GiveUp(d) \/ FailDecide(d) \/ Withdraw(d)
      BY <2>1, <3>3 DEF Dispatch, DispatchReject, GiveUp, FailDecide, Withdraw, Ended
    <3> QED
      BY <3>1, <3>2, <3>3 DEF CallActions
  <2> QED
    BY <2>2, <2>3
<1>3. approval'[e] = approval[e]
  BY DEF CallActions, Decide, ServeCall, FailCall, Dispatch, Withdraw, GiveUp, FailDecide, DispatchReject,
         Forget, TypeOK, CallTypes
<1>4. \A post \in posts' : post[1] = e => post \in posts
  <2>1. posts' = posts \/ posts' = posts \cup {<<d, call[d].card, "outcome_unknown">>}
    BY DEF CallActions, Decide, ServeCall, FailCall, Dispatch, Withdraw, GiveUp, FailDecide,
           DispatchReject
  <2> QED
    BY <2>1
<1>5. \A p \in Maybe, verdict \in Verdicts, receipt \in BOOLEAN :
        Tell(Decision(d, p, verdict, receipt)) => QueueKeeps(e)
  BY QueuesKeep, OtherMessages, Constructors
<1>6. commands' = commands => QueueKeeps(e)
  BY QueuesKeep
<1>7. QueueKeeps(e)
  <2>1. \A p \in Proposals : p \in Maybe
    BY DEF Maybe
  <2>2. call[d].proposal \in Maybe
    BY DEF TypeOK, CallTypes, Call
  <2> QED
    BY <1>5, <1>6, <2>1, <2>2 DEF CallActions, Decide, ServeCall, FailCall, Dispatch, Withdraw, GiveUp,
       FailDecide, DispatchReject, Verdicts
<1>8. EventsKeep(e)
  BY <1>1, EventsKept
<1> QED
  BY <1>1, <1>2, <1>3, <1>4, <1>7, <1>8 DEF Keeps

-----------------------------------------------------------------------------
(* The app reads an answer of the hub                                       *)

(* What the app reads of a decision it reports as it was.                   *)
LEMMA Readings ==
  ASSUME TypeOK, NEW d \in Decisions, InOrder(d), TakeAck \/ TakeDecisionEnd, Head(events).request = d
  PROVE  \A post \in posts' : post \in posts
           \/ /\ approval[d].handoff /\ post[1] = d /\ post[2] = call[d].card /\ post[3] \in Outcomes
              /\ post[3] = "succeeded" => d \in performed
              /\ post[3] \in NoEffect => task[d].at = "over" /\ d \notin performed
<1>1. CASE TakeAck
  BY <1>1 DEF TakeAck, Outcomes, NoEffect
<1>2. CASE TakeDecisionEnd
  <2>1. Head(events) \in Event /\ events # <<>> /\ Head(events).kind = "end"
    BY <1>2, HeadTailProperties DEF TypeOK, QueueTypes, TakeDecisionEnd, Heads
  <2>2. Head(events).result \in Results
    BY <2>1 DEF Event
  <2>3. Told(d, Head(events).result)
    BY <2>1, HeadTailProperties, LenProperties DEF Told, TypeOK, QueueTypes
  <2> DEFINE result == Head(events).result
  <2>4. /\ task[d].at = "over"
        /\ result = "complete" /\ approval[d].handoff => d \in performed
        /\ result \in {"cancelled", "expired"} => d \notin performed
    BY <2>2, <2>3 DEF InOrder, ToldTheTruth
  <2>5. /\ OutcomeOf(result) \in Outcomes /\ (OutcomeOf(result) = "succeeded" => result = "complete")
        /\ OutcomeOf(result) \in NoEffect => result \in {"cancelled", "expired"}
    BY DEF OutcomeOf, Outcomes, NoEffect
  <2> QED
    BY <1>2, <2>4, <2>5 DEF TakeDecisionEnd
<1> QED
  BY <1>1, <1>2

(* A decision of which the app reads stays in order.                        *)
LEMMA ReadingsInOrder ==
  ASSUME TypeOK, Types', NEW d \in Decisions, InOrder(d), TakeAck \/ TakeDecisionEnd, Head(events).request = d
  PROVE  InOrder(d)' /\ (Holds(d)' => Holds(d))
<1>1. UNCHANGED <<call, claim, performed, task, commands, up>>
  BY DEF TakeAck, TakeDecisionEnd, hub, history
<1>2. EventsKeep(d)
  BY EventsKept DEF TakeAck, TakeDecisionEnd, Heads
<1>3. approval'[d].handoff => approval[d].handoff
  BY DEF TakeAck, TakeDecisionEnd, Finished, NoApproval, TypeOK, CallTypes
<1>4. approval[d].handoff => call[d].at = "over"
  BY DEF InOrder, CallFirst
<1>5. CallFirst(d)'
  BY <1>1, <1>2, <1>3 DEF InOrder, CallFirst, Quiet, Untold, Asks, EventsKeep
<1>6. MessageFirst(d)'
  BY <1>1, <1>2, <1>3 DEF InOrder, MessageFirst, Untold, Asks, EventsKeep
<1>7. TaskFirst(d)'
  BY <1>1, <1>3 DEF InOrder, TaskFirst
<1>8. ToldTheTruth(d)'
  BY <1>1, <1>2, <1>3 DEF InOrder, ToldTheTruth, EventsKeep
<1>9. ReportsTheTruth(d)'
  BY <1>1, <1>4, Readings DEF InOrder, ReportsTheTruth
<1>10. Holds(d)' => Holds(d)
  BY <1>1, <1>3, Readings DEF Holds, Asks
<1> QED
  BY <1>5, <1>6, <1>7, <1>8, <1>9, <1>10 DEF InOrder

(* Nothing is read of the other decisions.                                  *)
LEMMA ReadingsKeep ==
  ASSUME TypeOK, NEW d \in Decisions, InOrder(d), TakeAck \/ TakeDecisionEnd, Head(events).request = d,
         NEW e \in Decisions, e # d
  PROVE  Keeps(e)
<1>1. UNCHANGED <<call, claim, performed, task, commands, up>>
  BY DEF TakeAck, TakeDecisionEnd, hub, history
<1>2. EventsKeep(e) /\ QueueKeeps(e)
  BY <1>1, EventsKept, QueuesKeep DEF TakeAck, TakeDecisionEnd, Heads
<1>3. approval'[e] = approval[e]
  BY DEF TakeAck, TakeDecisionEnd, Finished, TypeOK, CallTypes
<1>4. \A post \in posts' : post[1] = e => post \in posts
  BY Readings
<1> QED
  BY <1>1, <1>2, <1>3, <1>4 DEF Keeps

-----------------------------------------------------------------------------
(* The task of a decision                                                   *)

(* The app is told nothing new of decision d, or just this result.          *)
LEMMA TellsOnly ==
  ASSUME TypeOK, NEW d \in Decisions, Untold(d), NEW x \in Event, NEW result \in Results,
         Emit(<<End(d, result)>>) \/ (Emit(<<x, End(d, result)>>) /\ ~Ends(x, d))
  PROVE  \A other \in Results : Told(d, other)' => other = result
<1>1. End(d, result) \in Event
  BY Constructors DEF Requests
<1> DEFINE e == End(d, result)
<1>2. e.kind = "end" /\ e.result = result
  BY DEF End
<1> HIDE DEF e
<1>3. ASSUME NEW other \in Results, Told(d, other)'
      PROVE  other = result
  <2>1. PICK i \in DOMAIN events' :
          events'[i].kind = "end" /\ events'[i].request = d /\ events'[i].result = other
    BY <1>3 DEF Told
  <2>2. events'[i] \in {x, e} \/ (i \in DOMAIN events /\ events'[i] = events[i])
    <3>1. CASE Emit(<<e>>)
      BY <1>1, <3>1, ConcatProperties, LenProperties DEF Emit, TypeOK, QueueTypes, e
    <3>2. CASE Emit(<<x, e>>)
      BY <1>1, <3>2, ConcatProperties, LenProperties DEF Emit, TypeOK, QueueTypes, e
    <3> QED
      BY <3>1, <3>2 DEF e
  <2>3. ~(i \in DOMAIN events /\ events'[i] = events[i])
    BY <2>1 DEF Untold, Told
  <2>4. events'[i] = x => ~Emit(<<e>>) \/ other = result
    <3>1. ASSUME Emit(<<e>>) PROVE events'[i] = e \/ (i \in DOMAIN events /\ events'[i] = events[i])
      BY <1>1, <3>1, ConcatProperties, LenProperties DEF Emit, TypeOK, QueueTypes, e
    <3> QED
      BY <1>2, <2>1, <2>3, <3>1
  <2> QED
    BY <1>2, <2>1, <2>2, <2>3, <2>4 DEF Ends, e
<1> QED
  BY <1>3

Underway == {"asked", "claiming", "executing", "performed"}

(* While the task runs nothing else of the decision is under way.           *)
LEMMA Running ==
  ASSUME NEW d \in Decisions, InOrder(d), task[d].at \in Underway
  PROVE  call[d].at = "over" /\ Quiet(d) /\ Untold(d)
BY DEF InOrder, CallFirst, MessageFirst, ToldTheTruth, Quiet, Untold, Underway

(* The task of decision d goes on, or its claim does.                       *)
LEMMA TaskGoesOn ==
  ASSUME TypeOK, NEW d \in Decisions, InOrder(d), call[d].at = "over", task[d].at # "none",
         UNCHANGED <<up, call, approval, posts, commands>>, EventsKeep(d),
         claim'[d] # "none", task'[d].at \notin {"none", "asked"}, UNCHANGED task[d].receipt,
         task'[d].at = "over" <=> task[d].at = "over",
         task'[d].at \in {"executing", "performed"} => claim'[d] = "granted",
         d \in performed' => task'[d].at \in {"performed", "over"} /\ claim'[d] = "granted",
         task'[d].at = "performed" => d \in performed',
         d \in performed => d \in performed',
         task[d].at = "over" => (d \in performed <=> d \in performed')
  PROVE  InOrder(d)'
<1>1. CallFirst(d)'
  BY DEF CallFirst
<1>2. Quiet(d)'
  BY DEF InOrder, MessageFirst, Quiet, Asks
<1>3. MessageFirst(d)'
  BY <1>2 DEF MessageFirst, Quiet
<1>4. TaskFirst(d)'
  BY DEF InOrder, TaskFirst
<1>5. ToldTheTruth(d)'
  BY DEF InOrder, ToldTheTruth, EventsKeep
<1>6. ReportsTheTruth(d)'
  BY DEF InOrder, ReportsTheTruth
<1> QED
  BY <1>1, <1>3, <1>4, <1>5, <1>6 DEF InOrder

(* The task of decision d ends, with what the app is told of it.            *)
LEMMA TaskEnds ==
  ASSUME TypeOK, NEW d \in Decisions, InOrder(d), task[d].at \in Underway,
         UNCHANGED <<up, call, approval, posts, commands, claim, performed>>,
         task'[d] = Over,
         NEW x \in Event, ~Ends(x, d), NEW result \in Results,
         Emit(<<End(d, result)>>) \/ Emit(<<x, End(d, result)>>),
         result = "complete" /\ approval[d].handoff => d \in performed,
         result \in {"cancelled", "expired"} => d \notin performed
  PROVE  InOrder(d)' /\ (Holds(d)' => Holds(d))
<1>1. call[d].at = "over" /\ Quiet(d) /\ Untold(d)
  BY Running
<1>2. \A other \in Results : Told(d, other)' => other = result
  BY <1>1, TellsOnly
<1>3. Over.at = "over" /\ ~Over.receipt
  BY DEF Over, NoTask
<1>4. Quiet(d)'
  BY <1>1 DEF Quiet, Asks
<1>5. CallFirst(d)'
  BY <1>1 DEF CallFirst
<1>6. MessageFirst(d)'
  BY <1>4 DEF MessageFirst, Quiet
<1>7. TaskFirst(d)'
  BY <1>3 DEF InOrder, TaskFirst
<1>8. ToldTheTruth(d)'
  BY <1>2, <1>3 DEF ToldTheTruth
<1>9. ReportsTheTruth(d)'
  BY <1>1, <1>3 DEF InOrder, ReportsTheTruth
<1>10. Holds(d)' => Holds(d)
  BY <1>3 DEF Holds, Asks
<1> QED
  BY <1>5, <1>6, <1>7, <1>8, <1>9, <1>10 DEF InOrder

(* Every end of the task tells the truth.                                   *)
LEMMA HubEnds ==
  ASSUME TypeOK, NEW d \in Decisions, InOrder(d),
         \/ DecisionCancelled(d) \/ DecisionRefused(d) \/ DecisionRejected(d)
         \/ DecisionApproved(d) /\ ~(task[d].receipt /\ ~ReceiptExpired(d))
         \/ ClaimFailed(d) \/ EngineStops(d)
  PROVE  InOrder(d)' /\ (Holds(d)' => Holds(d))
<1>1. task[d].at \in Underway
  BY DEF DecisionCancelled, DecisionRefused, DecisionRejected, DecisionApproved, ClaimFailed,
         EngineStops, Heard, Underway
<1>2. UNCHANGED <<up, call, approval, posts, commands, claim, performed>>
  BY DEF DecisionCancelled, DecisionRefused, DecisionRejected, DecisionApproved, ClaimFailed,
         EngineStops, app, history
<1>3. task'[d] = Over
  BY DEF DecisionCancelled, DecisionRefused, DecisionRejected, DecisionApproved, ClaimFailed,
         EngineStops, EndTask, TypeOK, HubTypes, Requests
<1>4. {Refused(d), Executing(d), Ack(d, Target(d), TRUE, FALSE)} \subseteq {x \in Event : ~Ends(x, d)}
  <2>1. Target(d) \in Maybe
    BY DEF Target, TypeOK, HubTypes, Task, Requests
  <2>2. /\ Ack(d, Target(d), FALSE, FALSE) \in Event
        /\ Ack(d, Target(d), TRUE, TRUE) \in Event
        /\ Ack(d, Target(d), TRUE, FALSE) \in Event
    BY <2>1, Constructors
  <2>3. \A accepted, executes \in BOOLEAN : ~Ends(Ack(d, Target(d), accepted, executes), d)
    BY OtherMessages
  <2> QED
    BY <2>2, <2>3 DEF Refused, Executing
<1>5. \A result \in Results :
        /\ result = "complete" /\ approval[d].handoff => d \in performed
        /\ result \in {"cancelled", "expired"} => d \notin performed
        /\ \/ Emit(<<End(d, result)>>)
           \/ \E x \in {Refused(d), Executing(d), Ack(d, Target(d), TRUE, FALSE)} : Emit(<<x, End(d, result)>>)
        => InOrder(d)' /\ (Holds(d)' => Holds(d))
  <2> SUFFICES ASSUME NEW result \in Results,
                      result = "complete" /\ approval[d].handoff => d \in performed,
                      result \in {"cancelled", "expired"} => d \notin performed,
                      NEW x \in {Refused(d), Executing(d), Ack(d, Target(d), TRUE, FALSE)},
                      Emit(<<End(d, result)>>) \/ Emit(<<x, End(d, result)>>)
               PROVE  InOrder(d)' /\ (Holds(d)' => Holds(d))
    OBVIOUS
  <2>1. x \in Event /\ ~Ends(x, d)
    BY <1>4
  <2> QED
    BY <1>1, <1>2, <1>3, <2>1, TaskEnds
<1>6. task[d].at \notin {"performed", "over"} => d \notin performed
  BY DEF InOrder, TaskFirst
<1>7. CASE DecisionCancelled(d)
  BY <1>5, <1>6, <1>7 DEF DecisionCancelled, Results
<1>8. CASE DecisionRefused(d)
  BY <1>5, <1>6, <1>8 DEF DecisionRefused, Heard, Results
<1>9. CASE DecisionRejected(d)
  <2>1. ~approval[d].handoff
    BY <1>9 DEF DecisionRejected, Heard, InOrder, TaskFirst
  <2> QED
    BY <1>5, <1>6, <1>9, <2>1 DEF DecisionRejected, Heard, Results
<1>10. CASE DecisionApproved(d) /\ ~(task[d].receipt /\ ~ReceiptExpired(d))
  BY <1>5, <1>6, <1>10 DEF DecisionApproved, Heard, Results
<1>11. CASE ClaimFailed(d)
  BY <1>5, <1>6, <1>11 DEF ClaimFailed, EndTask, Results
<1>12. CASE EngineStops(d)
  <2>1. task[d].at = "performed" => d \in performed
    BY DEF InOrder, TaskFirst
  <2>2. /\ \A result \in {"failed", "unknown"} :
             Emit(<<End(d, result)>>) => InOrder(d)' /\ (Holds(d)' => Holds(d))
        /\ task[d].at = "executing" =>
             \A result \in {"cancelled", "expired"} :
               Emit(<<End(d, result)>>) => InOrder(d)' /\ (Holds(d)' => Holds(d))
        /\ task[d].at = "performed" => (Emit(<<End(d, "complete")>>) => InOrder(d)' /\ (Holds(d)' => Holds(d)))
    BY <1>5, <1>6, <2>1 DEF Results
  <2> QED
    BY <1>12, <2>2 DEF EngineStops, EndTask
<1> QED
  BY <1>7, <1>8, <1>9, <1>10, <1>11, <1>12

(* Every step before its end keeps to the order, and is of a holder.        *)
LEMMA HubGoesOn ==
  ASSUME TypeOK, NEW d \in Decisions, InOrder(d),
         \/ DecisionApproved(d) /\ task[d].receipt /\ ~ReceiptExpired(d)
         \/ ServeClaim(d) \/ ClaimGranted(d) \/ Perform(d)
  PROVE  InOrder(d)' /\ Holds(d)
<1>1. /\ task \in [Requests -> Task] /\ d \in Requests
      /\ claim \in [Decisions -> {"none", "sent", "granted", "refused"}]
  BY DEF TypeOK, HubTypes, Requests
<1>2. UNCHANGED <<up, call, approval, posts, commands>>
  BY DEF DecisionApproved, ServeClaim, ClaimGranted, Perform, app
<1>3. Holds(d)
  BY DEF Holds, DecisionApproved, ServeClaim, ClaimGranted, Perform, InOrder, TaskFirst
<1>4. call[d].at = "over" /\ task[d].at # "none"
  BY DEF InOrder, CallFirst, TaskFirst, DecisionApproved, Heard, ServeClaim, ClaimGranted, Perform
<1>5. CASE DecisionApproved(d) /\ task[d].receipt /\ ~ReceiptExpired(d)
  <2>1. /\ task'[d].at = "claiming" /\ task'[d].receipt = task[d].receipt /\ claim'[d] = "sent"
        /\ performed' = performed /\ task[d].at = "asked"
    BY <1>1, <1>5 DEF DecisionApproved, Heard, history, Task
  <2>2. Executing(d) \in Event /\ ~Ends(Executing(d), d)
    <3>1. Target(d) \in Maybe
      BY <1>1 DEF Target, Task
    <3> QED
      BY <3>1, Constructors, OtherMessages DEF Executing
  <2>3. EventsKeep(d)
    BY <1>5, <2>2, EventsKept DEF DecisionApproved
  <2>4. d \notin performed
    BY <2>1 DEF InOrder, TaskFirst
  <2> QED
    BY <1>2, <1>3, <1>4, <2>1, <2>3, <2>4, TaskGoesOn
<1>6. CASE ServeClaim(d)
  <2>1. /\ claim[d] = "sent" /\ claim'[d] \in {"granted", "refused"}
        /\ UNCHANGED <<task, performed, events>>
    BY <1>1, <1>6 DEF ServeClaim, history
  <2>2. d \notin performed /\ task[d].at \notin {"asked", "executing", "performed"}
    BY <2>1 DEF InOrder, TaskFirst
  <2>3. EventsKeep(d)
    BY <2>1, EventsKept
  <2> QED
    BY <1>2, <1>3, <1>4, <2>1, <2>2, <2>3, TaskGoesOn
<1>7. CASE ClaimGranted(d) \/ Perform(d)
  <2>1. /\ claim' = claim /\ events' = events /\ claim[d] = "granted" /\ task'[d].receipt = task[d].receipt
        /\ task[d].at \notin {"none", "over"}
    BY <1>1, <1>7 DEF ClaimGranted, Perform, Task, InOrder, TaskFirst
  <2>2. EventsKeep(d)
    BY <2>1, EventsKept
  <2>3. \/ task'[d].at = "executing" /\ d \notin performed /\ performed' = performed
        \/ task'[d].at = "performed" /\ performed' = performed \cup {d}
    BY <1>1, <1>7 DEF ClaimGranted, Perform, Task, InOrder, TaskFirst, history
  <2> QED
    BY <1>2, <1>3, <1>4, <2>1, <2>2, <2>3, TaskGoesOn
<1> QED
  BY <1>5, <1>6, <1>7

(* The hub takes the decision from its queue.                               *)
LEMMA Taken ==
  ASSUME TypeOK, TakeDecision
  PROVE  /\ Head(commands).request \in Decisions /\ Asks(Head(commands).request, 1) /\ 1 \in DOMAIN commands
         /\ Head(commands) = commands[1]
         /\ Head(commands).proposal \in Maybe /\ commands # <<>>
<1>1. commands # <<>> /\ Head(commands) \in Command /\ Head(commands).kind = "decision"
  BY HeadTailProperties DEF TakeDecision, Heads, TypeOK, QueueTypes
<1>2. Head(commands) = commands[1] /\ 1 \in DOMAIN commands
  BY <1>1, HeadTailProperties, LenProperties DEF TypeOK, QueueTypes
<1> QED
  BY <1>1, <1>2 DEF Command, Asks

(* A decision that is taken from the queue stays in order.                  *)
LEMMA TakenInOrder ==
  ASSUME TypeOK, NEW d \in Decisions, InOrder(d), TakeDecision, Head(commands).request = d
  PROVE  InOrder(d)' /\ (Holds(d)' => Holds(d))
<1>1. /\ Asks(d, 1) /\ 1 \in DOMAIN commands /\ Head(commands) = commands[1]
      /\ Head(commands).proposal \in Maybe /\ commands # <<>>
  BY Taken
<1>2. UNCHANGED <<up, call, approval, posts, claim, performed>> /\ commands' = Tail(commands)
  BY DEF TakeDecision, app, history
<1>3. /\ call[d].at = "over" /\ task[d].at = "none" /\ Untold(d) /\ claim[d] = "none"
      /\ \A j \in DOMAIN commands : Asks(d, j) => j = 1
      /\ approval[d].handoff => Head(commands).verdict = "approve"
      /\ d \notin performed
  BY <1>1 DEF InOrder, CallFirst, MessageFirst, TaskFirst, Quiet
<1>4. Quiet(d)'
  <2>1. /\ DOMAIN commands' \subseteq Nat
        /\ \A i \in DOMAIN commands' :
             i > 0 /\ i + 1 \in DOMAIN commands /\ commands'[i] = commands[i + 1]
    BY <1>1, <1>2, HeadTailProperties, LenProperties DEF TypeOK, QueueTypes
  <2> QED
    BY <1>3, <2>1 DEF Quiet, Asks
<1>5. Over.at = "over" /\ ~Over.receipt
  BY DEF Over, NoTask
<1>6. \/ /\ task'[d] = Over
         /\ Emit(<<Ack(d, Head(commands).proposal, FALSE, FALSE), End(d, "failed")>>)
      \/ /\ task'[d].at = "asked" /\ task'[d].verdict = Head(commands).verdict
         /\ task'[d].receipt = Head(commands).receipt /\ events' = events
  <2> DEFINE asked == [at |-> "asked", cancelled |-> FALSE, generation |-> generations.loop,
                       proposal |-> Head(commands).proposal, verdict |-> Head(commands).verdict,
                       receipt |-> Head(commands).receipt]
  <2>1. \/ task' = [task EXCEPT ![d] = asked] /\ events' = events
        \/ /\ task' = [task EXCEPT ![d] = Over]
           /\ Emit(<<Ack(d, Head(commands).proposal, FALSE, FALSE), End(d, "failed")>>)
    BY DEF TakeDecision
  <2>2. /\ asked.at = "asked" /\ asked.verdict = Head(commands).verdict
        /\ asked.receipt = Head(commands).receipt
    OBVIOUS
  <2>3. task \in [Requests -> Task] /\ d \in Requests
    BY DEF TypeOK, HubTypes, Requests
  <2> HIDE DEF asked
  <2> QED
    BY <2>1, <2>2, <2>3
<1>7. \A other \in Results : Told(d, other)' => task'[d].at = "over" /\ other = "failed"
  <2>1. CASE events' = events
    BY <1>3, <2>1 DEF Untold, Told
  <2>2. CASE Emit(<<Ack(d, Head(commands).proposal, FALSE, FALSE), End(d, "failed")>>) /\ task'[d] = Over
    <3>1. Ack(d, Head(commands).proposal, FALSE, FALSE) \in Event /\ ~Ends(Ack(d, Head(commands).proposal, FALSE, FALSE), d)
      BY <1>1, Constructors, OtherMessages
    <3>2. "failed" \in Results
      BY DEF Results
    <3> QED
      BY <1>3, <1>5, <2>2, <3>1, <3>2, TellsOnly
  <2> QED
    BY <1>6, <2>1, <2>2
<1>8. CallFirst(d)' /\ MessageFirst(d)'
  BY <1>2, <1>3, <1>4 DEF CallFirst, MessageFirst, Quiet
<1>9. TaskFirst(d)'
  BY <1>2, <1>3, <1>5, <1>6 DEF TaskFirst
<1>10. ToldTheTruth(d)'
  BY <1>2, <1>7 DEF ToldTheTruth
<1>11. ReportsTheTruth(d)'
  BY <1>2, <1>3 DEF InOrder, ReportsTheTruth
<1>12. Holds(d)' => Holds(d)
  BY <1>1, <1>2, <1>4, <1>5, <1>6 DEF Holds, Quiet
<1> QED
  BY <1>8, <1>9, <1>10, <1>11, <1>12 DEF InOrder

TaskActions(d) ==
  \/ DecisionCancelled(d) \/ DecisionRefused(d) \/ DecisionRejected(d) \/ DecisionApproved(d)
  \/ ServeClaim(d) \/ ClaimGranted(d) \/ ClaimFailed(d) \/ Perform(d) \/ EngineStops(d)

(* In every step of its task.                                               *)
LEMMA TasksInOrder ==
  ASSUME TypeOK, NEW d \in Decisions, InOrder(d), TaskActions(d)
  PROVE  InOrder(d)' /\ (Holds(d)' => Holds(d))
BY HubEnds, HubGoesOn DEF TaskActions

(* The other decisions have no part in it.                                  *)
LEMMA TasksKeep ==
  ASSUME TypeOK, NEW d \in Decisions, TaskActions(d), NEW e \in Decisions, e # d
  PROVE  Keeps(e)
<1>1. UNCHANGED <<up, call, approval, posts, commands>>
  BY DEF TaskActions, DecisionCancelled, DecisionRefused, DecisionRejected, DecisionApproved, ServeClaim,
         ClaimGranted, ClaimFailed, Perform, EngineStops, app
<1>2. task'[e] = task[e] /\ claim'[e] = claim[e] /\ (e \in performed' <=> e \in performed)
  BY DEF TaskActions, DecisionCancelled, DecisionRefused, DecisionRejected, DecisionApproved, ServeClaim,
         ClaimGranted, ClaimFailed, Perform, EngineStops, EndTask, history, TypeOK, HubTypes, Requests
<1>3. EventsKeep(e)
  <2>1. Target(d) \in Maybe
    BY DEF Target, TypeOK, HubTypes, Task, Requests
  <2>2. \A accepted, executes \in BOOLEAN :
          Ack(d, Target(d), accepted, executes) \in Event /\ ~Ends(Ack(d, Target(d), accepted, executes), e)
    BY <2>1, Constructors, OtherMessages
  <2>3. \A result \in Results : End(d, result) \in Event /\ ~Ends(End(d, result), e)
    BY Constructors, OtherMessages DEF Requests
  <2> DEFINE x == Refused(d)
             y == Executing(d)
             z == Ack(d, Target(d), TRUE, FALSE)
  <2>4. /\ x \in Event /\ ~Ends(x, e) /\ y \in Event /\ ~Ends(y, e) /\ z \in Event /\ ~Ends(z, e)
    BY <2>2 DEF Refused, Executing
  <2> HIDE DEF x, y, z
  <2>5. \A result \in Results :
          /\ Emit(<<End(d, result)>>) => EventsKeep(e)
          /\ Emit(<<x, End(d, result)>>) => EventsKeep(e)
          /\ Emit(<<y, End(d, result)>>) => EventsKeep(e)
          /\ Emit(<<z, End(d, result)>>) => EventsKeep(e)
    BY <2>3, <2>4, EventsKept
  <2>6. (Emit(<<y>>) => EventsKeep(e)) /\ (events' = events => EventsKeep(e))
    BY <2>4, EventsKept
  <2> QED
    BY <2>5, <2>6 DEF TaskActions, DecisionCancelled, DecisionRefused, DecisionRejected,
       DecisionApproved, ServeClaim, ClaimGranted, ClaimFailed, Perform, EngineStops, EndTask,
       Results, x, y, z
<1>4. QueueKeeps(e)
  BY <1>1, QueuesKeep
<1> QED
  BY <1>1, <1>2, <1>3, <1>4 DEF Keeps

-----------------------------------------------------------------------------
(* The rows                                                                 *)

Rows(c) ==
  \/ Roll(c) \/ Feedback(c, "snoozed") \/ Feedback(c, "dismissed") \/ AcceptCard(c)
  \/ Revoke(c) \/ ExpireReceipt(c) \/ RejectExecution(c)
  \/ \E p \in Maybe : ApproveExecution(c, p) \/ ClaimReceipt(c, p)
  \/ \E outcome \in Outcomes : ReportOutcome(c, outcome)

Same(c) == card'[c] = card[c] /\ execution'[c] = execution[c]

(* An operation on the row of one card.                                     *)
LEMMA RowTypesKept ==
  ASSUME RowTypes, NEW c \in Cards, Rows(c)
  PROVE  RowTypes' /\ \A b \in Cards \ {c} : Same(b)
<1>1. ASSUME NEW f \in Execution
      PROVE  /\ \A b \in BOOLEAN : /\ [f EXCEPT !.stands = b] \in Execution
                                     /\ [f EXCEPT !.expired = b] \in Execution
             /\ [f EXCEPT !.state = "rejected"] \in Execution
             /\ [f EXCEPT !.state = "awaiting_approval", !.stands = TRUE] \in Execution
             /\ [f EXCEPT !.state = "outcome_unknown", !.claimed = TRUE] \in Execution
             /\ \A p \in Maybe : [f EXCEPT !.state = "approved", !.proposal = p] \in Execution
             /\ \A outcome \in Outcomes : [f EXCEPT !.state = outcome, !.reported = TRUE] \in Execution
  BY DEF Execution, Unreported, Outcomes, Maybe
<1>2. execution \in [Cards -> Execution] /\ card \in [Cards -> CardStatus] /\ given \subseteq Cards
  BY DEF RowTypes
<1>3. \E f \in Execution : execution' = [execution EXCEPT ![c] = f]
  <2>1. execution[c] \in Execution /\ execution = [execution EXCEPT ![c] = execution[c]]
    BY <1>2
  <2> QED
    BY <1>1, <2>1 DEF Rows, Roll, Feedback, AcceptCard, Revoke, ExpireReceipt, RejectExecution,
                      ApproveExecution, ClaimReceipt, ReportOutcome
<1>4. \E s \in CardStatus : card' = [card EXCEPT ![c] = s]
  <2>1. card[c] \in CardStatus /\ card = [card EXCEPT ![c] = card[c]]
    BY <1>2
  <2>2. \A outcome : CardAfter(card[c], outcome) \in CardStatus
    BY <2>1 DEF CardAfter, CardStatus
  <2> QED
    BY <2>1, <2>2 DEF Rows, Roll, Feedback, AcceptCard, Revoke, ExpireReceipt, RejectExecution,
                      ApproveExecution, ClaimReceipt, ReportOutcome, CardStatus
<1>5. given' \subseteq Cards
  BY <1>2 DEF Rows, Roll, Feedback, AcceptCard, Revoke, ExpireReceipt, RejectExecution,
              ApproveExecution, ClaimReceipt, ReportOutcome
<1> QED
  BY <1>2, <1>3, <1>4, <1>5 DEF RowTypes, Same

(* What one operation does to the row of its card.                          *)
LEMMA RowMoves ==
  ASSUME RowTypes, NEW c \in Cards, RowAgrees(c), Rows(c)
  PROVE  /\ RowAgrees(c)'
         /\ Settled(c) => Same(c)
         /\ execution[c].claimed => execution'[c].claimed
         /\ execution[c].state \notin Undecided => execution'[c].state \notin Undecided
<1> USE DEF RowTypes
<1>0. execution[c] \in Execution /\ card[c] \in CardStatus
  OBVIOUS
<1>1. CASE Roll(c) \/ Feedback(c, "snoozed") \/ Feedback(c, "dismissed")
  <2>1. execution' = execution /\ card[c] \in {"surfaced", "snoozed"}
        /\ card'[c] \in {"expired", "surfaced", "snoozed", "dismissed"}
    BY <1>1 DEF Roll, Feedback
  <2>2. execution[c].state = "none"
    BY <1>0, <2>1 DEF RowAgrees, Standing, Execution, Unreported, Outcomes
  <2> QED
    BY <1>0, <2>1, <2>2 DEF RowAgrees, Standing, Settled, Undecided, Outcomes
<1>2. CASE AcceptCard(c)
  BY <1>0, <1>2 DEF AcceptCard, RowAgrees, Standing, Settled, Undecided, Outcomes, Execution
<1>3. CASE Revoke(c) \/ ExpireReceipt(c)
  BY <1>0, <1>3 DEF Revoke, ExpireReceipt, RowAgrees, Standing, Settled, Undecided, Outcomes, Execution
<1>4. CASE RejectExecution(c)
  BY <1>0, <1>4 DEF RejectExecution, Rejectable, RowAgrees, Standing, Settled, Undecided, Outcomes, Execution
<1>5. ASSUME NEW p \in Maybe, ApproveExecution(c, p) \/ ClaimReceipt(c, p)
      PROVE  /\ RowAgrees(c)' /\ ~Settled(c)
             /\ execution[c].claimed => execution'[c].claimed
             /\ execution'[c].state \notin Undecided
  <2>1. CASE ApproveExecution(c, p)
    BY <1>0, <2>1 DEF ApproveExecution, Approvable, RowAgrees, Standing, Settled, Undecided, Outcomes, Execution
  <2>2. CASE ClaimReceipt(c, p)
    BY <1>0, <2>2 DEF ClaimReceipt, Claimable, RowAgrees, Standing, Settled, Undecided, Outcomes, Execution
  <2> QED
    BY <1>5, <2>1, <2>2
<1>6. ASSUME NEW outcome \in Outcomes, ReportOutcome(c, outcome)
      PROVE  /\ RowAgrees(c)' /\ ~Settled(c)
             /\ execution[c].claimed => execution'[c].claimed
             /\ execution'[c].state \notin Undecided
  <2>1. /\ execution'[c].state = outcome /\ execution'[c].claimed = execution[c].claimed
        /\ card'[c] = CardAfter(card[c], outcome)
    BY <1>0, <1>6 DEF ReportOutcome, Execution
  <2>2. /\ ~execution[c].reported
        /\ \/ execution[c].state = "approved" /\ outcome # "succeeded" /\ card[c] = "accepted"
           \/ execution[c].state = "outcome_unknown" /\ card[c] = "expired"
    BY <1>6 DEF ReportOutcome, Reportable, RowAgrees, Standing
  <2> QED
    BY <2>1, <2>2 DEF RowAgrees, Standing, Settled, Undecided, Outcomes, CardAfter
<1> QED
  BY <1>1, <1>2, <1>3, <1>4, <1>5, <1>6 DEF Rows

(* When a decision is taken from the queue the others have no part in it.   *)
LEMMA TakenKeeps ==
  ASSUME TypeOK, NEW e \in Decisions, TakeDecision, Head(commands).request # e
  PROVE  Keeps(e)
<1> DEFINE d == Head(commands).request
<1>1. d \in Decisions /\ Head(commands).proposal \in Maybe /\ commands # <<>>
  BY Taken
<1>2. UNCHANGED <<up, call, approval, posts, claim, performed>> /\ commands' = Tail(commands)
  BY DEF TakeDecision, app, history
<1>3. QueueKeeps(e)
  BY <1>1, <1>2, QueuesKeep
<1>4. task'[e] = task[e]
  <2>1. \E f : task' = [task EXCEPT ![d] = f]
    BY DEF TakeDecision
  <2> QED
    BY <2>1 DEF TypeOK, HubTypes, Requests
<1>5. EventsKeep(e)
  <2> DEFINE x == Ack(d, Head(commands).proposal, FALSE, FALSE)
             y == End(d, "failed")
  <2>1. x \in Event /\ ~Ends(x, e) /\ y \in Event /\ ~Ends(y, e)
    BY <1>1, Constructors, OtherMessages DEF Requests, Results
  <2>2. events' = events \/ Emit(<<x, y>>)
    BY DEF TakeDecision
  <2> HIDE DEF x, y
  <2> QED
    BY <2>1, <2>2, EventsKept
<1> QED
  BY <1>1, <1>2, <1>3, <1>4, <1>5 DEF Keeps

-----------------------------------------------------------------------------
(* Every step                                                               *)

(* Nobody is no decision.                                                   *)
LEMMA NobodyDecides == \A d \in Decisions : d # Nobody
BY ComputerUseAssumption

(* Every step keeps the types, but for those of the rows.                   *)
LEMMA NextTypes ==
  ASSUME TypeOK, [Next]_vars
  PROVE  Types'
<1>1. CASE App
  BY <1>1, ChatTypes, AcceptTypes, TakeTypes, DecideTypes, DispatchTypes, EndCallTypes, CancelTypes,
     FenceTypes DEF App
<1>2. CASE Hub
  BY <1>2, LoopTypes, TurnTypes, DecisionTypes DEF Hub
<1>3. CASE Worker
  BY <1>3, ServeCallTypes, DecisionTypes, ServePostTypes, WorldTypes DEF Worker
<1>4. CASE Crash
  BY <1>4, WorldTypes
<1>5. CASE UNCHANGED vars
  BY <1>5 DEF vars, app, hub, history, TypeOK, Types, AppTypes, CallTypes, QueueTypes, HubTypes
<1> QED
  BY <1>1, <1>2, <1>3, <1>4, <1>5 DEF Next

(* A step is one of a decision, or of none.                                 *)
Own(d) ==
  \/ CallActions(d) \/ TaskActions(d)
  \/ (TakeAck \/ TakeDecisionEnd) /\ Head(events).request = d
  \/ TakeDecision /\ Head(commands).request = d

(* Where each step belongs.                                                 *)
LEMMA StepOf ==
  ASSUME TypeOK, [Next]_vars
  PROVE  (\E d \in Decisions : Own(d)) \/ (\A d \in Decisions : Keeps(d))
<1>1. CASE App
  <2>1. CASE \E c \in Chats : Chat(c) \/ CancelChat(c)
    BY <2>1, ChatsKeep
  <2>2. CASE \E c \in Cards : Accept(c)
    BY <2>2, ChatsKeep
  <2>3. CASE TakeProposal \/ TakeTurnEnd
    BY <2>3, TakesKeep, NobodyDecides
  <2>4. CASE TakeAck \/ TakeDecisionEnd
    <3>1. events # <<>> => Head(events) \in Event
      BY HeadTailProperties DEF TypeOK, QueueTypes
    <3>2. Head(events).request \in Decisions
      BY <2>4, <3>1 DEF TakeAck, TakeDecisionEnd, Heads, Event
    <3> QED
      BY <2>4, <3>2 DEF Own
  <2>5. ASSUME NEW d \in Decisions,
               \/ \E p \in Proposals, verdict \in Verdicts : Decide(d, p, verdict)
               \/ Dispatch(d) \/ Withdraw(d) \/ GiveUp(d) \/ FailDecide(d) \/ DispatchReject(d)
        PROVE  Own(d)
    BY <2>5 DEF Own, CallActions
  <2>6. CASE \E d \in Decisions : CancelDecision(d)
    BY <2>6, ChatsKeep
  <2>7. CASE Fence \/ SendConfiguration
    BY <2>7, ChatsKeep, FenceKeeps
  <2> QED
    BY <1>1, <2>1, <2>2, <2>3, <2>4, <2>5, <2>6, <2>7 DEF App
<1>2. CASE Hub
  <2>1. CASE TakeMessage \/ TakeCancel \/ TakeConfigure \/ ConfigureAssistant
    BY <2>1, LoopKeeps
  <2>2. CASE TakeDecision
    BY <2>2, Taken DEF Own
  <2>3. CASE \E c \in Chats : TurnStops(c) \/ \E p \in Proposals : Propose(c, p)
    BY <2>3, TurnsKeep
  <2> QED
    BY <1>2, <2>1, <2>2, <2>3 DEF Hub, Own, TaskActions
<1>3. CASE Worker
  <2>1. CASE \/ \E post \in posts : ServePost(post) \/ LosePost(post)
             \/ RowStep \/ ProposalOverdue
    BY <2>1, WorldKeeps
  <2> QED
    BY <1>3, <2>1 DEF Worker, Own, CallActions, TaskActions
<1>4. CASE Crash
  BY <1>4, CrashKeeps
<1>5. CASE UNCHANGED vars
  BY <1>5, WorldKeeps
<1> QED
  BY <1>1, <1>2, <1>3, <1>4, <1>5 DEF Next

(* What a step may do to decision d.                                        *)
Moves(d) ==
  /\ InOrder(d)'
  /\ Holds(d)' => call'[d].card = call[d].card /\ (Holds(d) \/ Granted(d))
  /\ claim'[d] = "granted" =>
       \/ claim[d] = "granted"
       \/ Holds(d) /\ ClaimReceipt(call[d].card, call[d].proposal)
  /\ d \in performed => d \in performed'
  /\ task[d].at = "over" /\ claim[d] = "granted" =>
       task'[d].at = "over" /\ (d \in performed' => d \in performed)

(* Nothing added is a move.                                                 *)
LEMMA KeptMoves ==
  ASSUME TypeOK, Types', NEW d \in Decisions, InOrder(d), Keeps(d)
  PROVE  Moves(d) /\ (Holds(d)' => Holds(d))
<1>1. InOrder(d)' /\ (Holds(d)' => Holds(d))
  BY KeptInOrder
<1> QED
  BY <1>1 DEF Moves, Keeps, Over, NoTask

(* A step of one decision moves it, and adds nothing to the others.         *)
LEMMA OwnMoves ==
  ASSUME TypeOK, Types', NEW d \in Decisions, \A e \in Decisions : InOrder(e), Own(d)
  PROVE  /\ Moves(d)
         /\ \A e \in Decisions \ {d} : Moves(e) /\ (Holds(e)' => Holds(e))
<1>1. \A e \in Decisions \ {d} : Moves(e) /\ (Holds(e)' => Holds(e))
  <2> SUFFICES ASSUME NEW e \in Decisions, e # d
               PROVE  Keeps(e)
    BY KeptMoves
  <2> QED
    BY CallsKeep, TasksKeep, ReadingsKeep, TakenKeeps DEF Own
<1> SUFFICES Moves(d)
  BY <1>1
<1>6. InOrder(d)
  OBVIOUS
<1>2. CASE CallActions(d)
  <2>1. UNCHANGED <<task, claim, performed>>
    BY <1>2 DEF CallActions, Decide, ServeCall, FailCall, Dispatch, Withdraw, GiveUp, FailDecide,
                DispatchReject, hub, history
  <2> QED
    BY <1>2, <1>6, <2>1, CallsInOrder, CallsHold DEF Moves
<1>3. CASE (TakeAck \/ TakeDecisionEnd) /\ Head(events).request = d
  <2>1. UNCHANGED <<call, task, claim, performed>>
    BY <1>3 DEF TakeAck, TakeDecisionEnd, hub, history
  <2> QED
    BY <1>3, <1>6, <2>1, ReadingsInOrder DEF Moves
<1>4. CASE TakeDecision /\ Head(commands).request = d
  <2>1. UNCHANGED <<call, claim, performed>> /\ task[d].at = "none"
    BY <1>4, Taken DEF TakeDecision, app, history, InOrder, MessageFirst
  <2> QED
    BY <1>4, <1>6, <2>1, TakenInOrder DEF Moves
<1>5. CASE TaskActions(d)
  <2>1. call' = call
    BY <1>5 DEF TaskActions, DecisionCancelled, DecisionRefused, DecisionRejected, DecisionApproved,
                ServeClaim, ClaimGranted, ClaimFailed, Perform, EngineStops, app
  <2>2. /\ claim \in [Decisions -> {"none", "sent", "granted", "refused"}]
        /\ claim[d] # "none" => Holds(d)
    BY DEF TypeOK, HubTypes, Holds
  <2>3. claim'[d] = "granted" =>
          claim[d] = "granted" \/ (Holds(d) /\ ClaimReceipt(call[d].card, call[d].proposal))
    <3>1. CASE ServeClaim(d)
      BY <2>2, <3>1 DEF ServeClaim
    <3>2. CASE DecisionApproved(d)
      BY <2>2, <3>2 DEF DecisionApproved
    <3>3. ServeClaim(d) \/ DecisionApproved(d) \/ claim' = claim
      BY <1>5 DEF TaskActions, DecisionCancelled, DecisionRefused, DecisionRejected, ClaimGranted,
                  ClaimFailed, Perform, EngineStops
    <3> QED
      BY <3>1, <3>2, <3>3
  <2>4. d \in performed => d \in performed'
    BY <1>5 DEF TaskActions, DecisionCancelled, DecisionRefused, DecisionRejected, DecisionApproved,
                ServeClaim, ClaimGranted, ClaimFailed, Perform, EngineStops, history
  <2>5. task[d].at = "over" /\ claim[d] = "granted" => FALSE
    BY <1>5 DEF TaskActions, DecisionCancelled, DecisionRefused, DecisionRejected, DecisionApproved,
                Heard, ServeClaim, ClaimGranted, ClaimFailed, Perform, EngineStops
  <2> QED
    BY <1>5, <1>6, <2>1, <2>3, <2>4, <2>5, TasksInOrder DEF Moves
<1> QED
  BY <1>1, <1>2, <1>3, <1>4, <1>5 DEF Own

(* A step moves every decision, and gives at most one of them a card.       *)
LEMMA NextMoves ==
  ASSUME IInv, [Next]_vars
  PROVE  /\ \A d \in Decisions : Moves(d)
         /\ \E g \in Decisions \cup {Nobody} :
              \A d \in Decisions \ {g} : Holds(d)' => Holds(d)
<1>1. TypeOK /\ Types' /\ \A d \in Decisions : InOrder(d)
  BY NextTypes DEF IInv
<1>2. ASSUME NEW d \in Decisions, Own(d)
      PROVE  /\ \A e \in Decisions : Moves(e)
             /\ \A e \in Decisions \ {d} : Holds(e)' => Holds(e)
  BY <1>1, <1>2, OwnMoves
<1>3. ASSUME \A d \in Decisions : Keeps(d)
      PROVE  \A d \in Decisions : Moves(d) /\ (Holds(d)' => Holds(d))
  BY <1>1, <1>3, KeptMoves
<1> QED
  BY <1>1, <1>2, <1>3, StepOf

(* What is posted for a decision is of the card it holds.                   *)
LEMMA PostsOf ==
  ASSUME IInv, NEW post \in posts, post[3] # "rejected"
  PROVE  /\ post[1] \in Decisions /\ Holds(post[1])
         /\ post[2] \in Cards /\ call[post[1]].card = post[2] /\ post[3] \in Outcomes
         /\ post[3] = "succeeded" => post[1] \in performed
         /\ post[3] \in NoEffect => task[post[1]].at = "over" /\ post[1] \notin performed
<1>1. post[1] \in Decisions
  BY DEF IInv, TypeOK, CallTypes, Post, PostsAgree
<1>2. Holds(post[1])
  BY DEF Holds
<1> QED
  BY <1>1, <1>2 DEF IInv, InOrder, ReportsTheTruth, HoldersAgree

(* The Worker learns that there was an effect, or that there was none, from *)
(* what is posted.                                                          *)
Learns(c) ==
  execution'[c].state \in {"succeeded"} \cup NoEffect =>
    \/ execution'[c].state = execution[c].state
    \/ \E post \in posts : post[2] = c /\ post[3] = execution'[c].state

(* Every other operation tells it nothing.                                  *)
LEMMA NothingLearnt ==
  ASSUME RowTypes, NEW c \in Cards,
         \/ Roll(c) \/ Feedback(c, "snoozed") \/ Feedback(c, "dismissed") \/ AcceptCard(c)
         \/ Revoke(c) \/ ExpireReceipt(c) \/ RejectExecution(c) \/ ReportOutcome(c, "failed")
         \/ \E p \in Maybe : ApproveExecution(c, p) \/ ClaimReceipt(c, p)
  PROVE  Rows(c) /\ Learns(c)
<1>1. Rows(c)
  BY DEF Rows, Outcomes
<1>2. execution \in [Cards -> Execution]
  BY DEF RowTypes
<1>3. execution'[c].state \in {"awaiting_approval", "approved",
                                "outcome_unknown", "rejected", "failed", execution[c].state}
  <2>1. ASSUME NEW p \in Maybe, ApproveExecution(c, p) \/ ClaimReceipt(c, p)
        PROVE  execution'[c].state \in {"approved", "outcome_unknown"}
    <3>1. CASE ApproveExecution(c, p)
      BY <1>2, <3>1 DEF ApproveExecution, Execution
    <3>2. CASE ClaimReceipt(c, p)
      BY <1>2, <3>2 DEF ClaimReceipt, Execution
    <3> QED
      BY <2>1, <3>1, <3>2
  <2>2. execution[c] \in Execution
    BY <1>2
  <2>3. CASE Roll(c) \/ Feedback(c, "snoozed") \/ Feedback(c, "dismissed")
    BY <2>3 DEF Roll, Feedback
  <2>4. CASE AcceptCard(c) \/ ReportOutcome(c, "failed")
    BY <1>2, <2>2, <2>4 DEF AcceptCard, ReportOutcome, Execution
  <2>5. CASE Revoke(c) \/ ExpireReceipt(c)
    BY <1>2, <2>2, <2>5 DEF Revoke, ExpireReceipt, Execution
  <2>6. CASE RejectExecution(c)
    BY <1>2, <2>2, <2>6 DEF RejectExecution, Execution
  <2> QED
    BY <2>1, <2>3, <2>4, <2>5, <2>6
<1> QED
  BY <1>1, <1>3 DEF Learns, NoEffect

(* Which operations a step has on the rows.                                 *)
LEMMA NextRows ==
  ASSUME IInv, [Next]_vars
  PROVE  UNCHANGED rows \/ \E c \in Cards : Rows(c) /\ Learns(c)
<1>0. RowTypes
  BY DEF IInv, TypeOK
<1>1. CASE App
  <2>1. CASE \E c \in Cards : Accept(c)
    BY <1>0, <2>1, NothingLearnt DEF Accept
  <2>2. UNCHANGED rows \/ \E c \in Cards : Accept(c)
    BY <1>1 DEF App, Chat, CancelChat, TakeProposal, TakeTurnEnd, TakeAck, TakeDecisionEnd, Decide,
                Dispatch, Withdraw, GiveUp, FailDecide, DispatchReject, CancelDecision, Fence,
                SendConfiguration
  <2> QED
    BY <2>1, <2>2
<1>2. CASE Hub \/ Crash
  BY <1>2 DEF Hub, Crash, TakeMessage, TakeDecision, TakeCancel, TakeConfigure, ConfigureAssistant,
              TurnStops, Propose, DecisionCancelled, DecisionRefused, DecisionRejected,
              DecisionApproved, ClaimGranted, ClaimFailed, Perform, EngineStops
<1>3. CASE Worker
  <2>1. ASSUME NEW d \in Decisions, ServeCall(d)
        PROVE  \E c \in Cards : Rows(c) /\ Learns(c)
    <3>1. call[d].card \in Cards /\ call[d].proposal \in Maybe
      BY <2>1 DEF ServeCall, IInv, InOrder, CallFirst, TypeOK, CallTypes, Call
    <3> QED
      BY <1>0, <2>1, <3>1, NothingLearnt DEF ServeCall
  <2>2. ASSUME NEW d \in Decisions, ServeClaim(d)
        PROVE  UNCHANGED rows \/ \E c \in Cards : Rows(c) /\ Learns(c)
    <3>1. call[d].card \in Cards /\ call[d].proposal \in Maybe
      BY <2>2 DEF ServeClaim, IInv, HoldersAgree, Holds, TypeOK, CallTypes, Call
    <3> QED
      BY <1>0, <2>2, <3>1, NothingLearnt DEF ServeClaim
  <2>3. ASSUME NEW post \in posts, ServePost(post)
        PROVE  UNCHANGED rows \/ \E c \in Cards : Rows(c) /\ Learns(c)
    <3>1. CASE post[3] = "rejected"
      <4>1. post[2] \in Cards
        BY <3>1 DEF IInv, TypeOK, CallTypes, Post, PostsAgree, InOrder, ReportsTheTruth, Outcomes
      <4> QED
        BY <1>0, <2>3, <3>1, <4>1, NothingLearnt DEF ServePost
    <3>2. CASE post[3] # "rejected"
      <4>1. post[2] \in Cards /\ post[3] \in Outcomes
        BY <3>2, PostsOf
      <4>2. CASE ReportOutcome(post[2], post[3])
        <5>1. Rows(post[2])
          BY <4>1, <4>2 DEF Rows
        <5>2. execution'[post[2]].state = post[3]
          BY <1>0, <4>1, <4>2 DEF ReportOutcome, RowTypes, Execution
        <5> QED
          BY <4>1, <5>1, <5>2 DEF Learns
      <4> QED
        BY <2>3, <3>2, <4>2 DEF ServePost
    <3> QED
      BY <3>1, <3>2
  <2>4. CASE RowStep
    BY <1>0, <2>4, NothingLearnt DEF RowStep
  <2>5. ASSUME \/ \E d \in Decisions : FailCall(d)
               \/ \E post \in posts : LosePost(post)
               \/ ProposalOverdue
        PROVE  UNCHANGED rows
    BY <2>5 DEF FailCall, LosePost, ProposalOverdue
  <2> QED
    BY <1>3, <2>1, <2>2, <2>3, <2>4, <2>5 DEF Worker
<1>4. CASE UNCHANGED vars
  BY <1>4 DEF vars
<1> QED
  BY <1>1, <1>2, <1>3, <1>4 DEF Next

(* What a step does to the row of a card, whoever takes it.                 *)
LEMMA RowsMove ==
  ASSUME IInv, [Next]_vars
  PROVE  /\ RowTypes'
         /\ \A c \in Cards :
              /\ RowAgrees(c)' /\ Learns(c)
              /\ Settled(c) => Same(c)
              /\ execution[c].claimed => execution'[c].claimed
              /\ execution[c].state \notin Undecided => execution'[c].state \notin Undecided
<1>1. RowTypes /\ \A c \in Cards : RowAgrees(c)
  BY DEF IInv, TypeOK
<1>2. ASSUME NEW c \in Cards, Same(c)
      PROVE  /\ RowAgrees(c)' /\ Learns(c)
             /\ execution[c].claimed => execution'[c].claimed
             /\ execution[c].state \notin Undecided => execution'[c].state \notin Undecided
  BY <1>1, <1>2 DEF Same, RowAgrees, Learns
<1>3. CASE UNCHANGED rows
  <2>1. RowTypes' /\ \A c \in Cards : Same(c)
    BY <1>1, <1>3 DEF rows, RowTypes, Same
  <2> QED
    BY <1>2, <2>1
<1>4. ASSUME NEW b \in Cards, Rows(b), Learns(b)
      PROVE  /\ RowTypes'
             /\ \A c \in Cards :
                  /\ RowAgrees(c)' /\ Learns(c)
                  /\ Settled(c) => Same(c)
                  /\ execution[c].claimed => execution'[c].claimed
                  /\ execution[c].state \notin Undecided => execution'[c].state \notin Undecided
  <2>1. RowTypes' /\ \A c \in Cards \ {b} : Same(c)
    BY <1>1, <1>4, RowTypesKept
  <2> QED
    BY <1>1, <1>2, <1>4, <2>1, RowMoves
<1> QED
  BY <1>3, <1>4, NextRows

-----------------------------------------------------------------------------
(* The invariant is inductive                                               *)

(* At the start nobody holds anything.                                      *)
LEMMA Start ==
  ASSUME Init PROVE IInv
<1> USE DEF Init
<1>1. TypeOK
  <2>1. NoExecution \in Execution /\ "surfaced" \in CardStatus
    BY DEF NoExecution, Execution, Unreported, CardStatus
  <2>2. RowTypes
    BY <2>1 DEF RowsInit, RowTypes
  <2>3. AppTypes
    BY FS_EmptySet DEF AppTypes
  <2>4. /\ NoApproval \in [proposal : Maybe, handoff : BOOLEAN] /\ NoCall \in Call
        /\ NoTask \in Task
    BY DEF NoApproval, NoCall, NoTask, Call, Task, Maybe
  <2>5. CallTypes /\ QueueTypes /\ HubTypes
    BY <2>4 DEF CallTypes, QueueTypes, HubTypes
  <2> QED
    BY <2>2, <2>3, <2>5 DEF TypeOK
<1>2. PostsAgree
  BY DEF PostsAgree
<1>3. \A d \in Decisions : InOrder(d) /\ ~Holds(d) /\ claim[d] = "none"
  <2> SUFFICES ASSUME NEW d \in Decisions
               PROVE  InOrder(d) /\ ~Holds(d) /\ claim[d] = "none"
    OBVIOUS
  <2>1. /\ call[d] = NoCall /\ approval[d] = NoApproval /\ task[d] = NoTask /\ claim[d] = "none"
        /\ performed = {} /\ posts = {} /\ commands = <<>> /\ events = <<>>
    BY DEF Requests
  <2>2. /\ NoCall.at = "none" /\ NoCall.answer = "none" /\ ~NoApproval.handoff
        /\ NoTask.at = "none" /\ ~NoTask.receipt
    BY DEF NoCall, NoApproval, NoTask
  <2> HIDE DEF Init
  <2>3. Quiet(d) /\ Untold(d)
    BY <2>1 DEF Quiet, Untold, Told
  <2> QED
    BY <2>1, <2>2, <2>3 DEF InOrder, CallFirst, MessageFirst, TaskFirst, ToldTheTruth, ReportsTheTruth,
                            Quiet, Untold, Holds
<1>4. \A c \in Cards : RowAgrees(c) /\ execution[c].state = "none"
  BY DEF RowsInit, RowAgrees, Standing, NoExecution
<1> QED
  BY <1>1, <1>2, <1>3, <1>4 DEF IInv, HoldersAgree, EffectsAgree, NoEffect

(* Posts of nobody's are rejections.                                        *)
LEMMA PostsStep ==
  ASSUME IInv, [Next]_vars PROVE PostsAgree'
<1>1. ASSUME NEW post \in posts', post[1] = Nobody
      PROVE  post \in posts \/ (post[2] \in Cards /\ post[3] = "rejected")
  <2>1. CASE TakeTurnEnd
    BY <2>1 DEF TakeTurnEnd, IInv, TypeOK, AppTypes
  <2>2. CASE TakeAck \/ TakeDecisionEnd
    <3>1. events # <<>> => Head(events) \in Event
      BY HeadTailProperties DEF IInv, TypeOK, QueueTypes
    <3>2. Head(events).request \in Decisions
      BY <2>2, <3>1 DEF TakeAck, TakeDecisionEnd, Heads, Event
    <3> QED
      BY <1>1, <2>2, <3>2, NobodyDecides DEF TakeAck, TakeDecisionEnd
  <2>3. ASSUME NEW d \in Decisions, GiveUp(d) PROVE post \in posts
    BY <1>1, <2>3, NobodyDecides DEF GiveUp
  <2>4. CASE App
    <3>1. \/ TakeTurnEnd \/ TakeAck \/ TakeDecisionEnd \/ \E d \in Decisions : GiveUp(d)
          \/ posts' = posts
      BY <2>4 DEF App, Chat, CancelChat, Accept, TakeProposal, Decide, Dispatch, Withdraw, FailDecide,
                  DispatchReject, CancelDecision, Fence, SendConfiguration
    <3> QED
      BY <2>1, <2>2, <2>3, <3>1
  <2>5. CASE Hub \/ Crash
    BY <2>5 DEF Hub, Crash, TakeMessage, TakeDecision, TakeCancel, TakeConfigure, ConfigureAssistant,
                TurnStops, Propose, DecisionCancelled, DecisionRefused, DecisionRejected,
                DecisionApproved, ClaimGranted, ClaimFailed, Perform, EngineStops
  <2>6. CASE Worker
    BY <2>6 DEF Worker, ServeCall, FailCall, ServeClaim, ServePost, LosePost, RowStep, ProposalOverdue
  <2>7. CASE UNCHANGED vars
    BY <2>7 DEF vars
  <2> QED
    BY <2>4, <2>5, <2>6, <2>7 DEF Next
<1> QED
  BY <1>1 DEF IInv, PostsAgree

(* The approval is of a card nobody holds, and the claim of its holder.     *)
LEMMA HoldersStep ==
  ASSUME IInv, [Next]_vars PROVE HoldersAgree'
<1>1. /\ \A d \in Decisions : Moves(d) /\ InOrder(d)
      /\ HoldersAgree /\ TypeOK
  BY NextMoves DEF IInv
<1>2. PICK g \in Decisions \cup {Nobody} : \A d \in Decisions \ {g} : Holds(d)' => Holds(d)
  BY NextMoves
<1>3. ASSUME NEW d \in Decisions, Granted(d), Holds(d)'
      PROVE  /\ call[d].card \in Cards /\ execution'[call[d].card].state = "approved"
             /\ \A e \in Decisions : Holds(e) => call[e].card # call[d].card
  <2>1. call[d].card \in Cards
    BY <1>1, <1>3 DEF Granted, InOrder, CallFirst
  <2>2. execution[call[d].card].state = "awaiting_approval" /\ execution'[call[d].card].state = "approved"
    BY <1>1, <1>3, <2>1 DEF Granted, ApproveExecution, Approvable, TypeOK, RowTypes, Execution
  <2> QED
    BY <1>1, <2>1, <2>2 DEF HoldersAgree, Undecided
<1>4. \A d \in Decisions : Holds(d)' =>
        call'[d].card \in Cards /\ execution'[call'[d].card].state \notin Undecided
  <2> SUFFICES ASSUME NEW d \in Decisions, Holds(d)'
               PROVE  call'[d].card \in Cards /\ execution'[call'[d].card].state \notin Undecided
    OBVIOUS
  <2>1. call'[d].card = call[d].card /\ (Holds(d) \/ Granted(d))
    BY <1>1 DEF Moves
  <2>2. CASE Holds(d)
    BY <1>1, <2>1, <2>2, RowsMove DEF HoldersAgree
  <2>3. CASE Granted(d)
    BY <1>3, <2>1, <2>3 DEF Undecided
  <2> QED
    BY <2>1, <2>2, <2>3
<1>5. ASSUME NEW d \in Decisions, NEW e \in Decisions, Holds(d)', Holds(e)', call'[d].card = call'[e].card
      PROVE  d = e
  <2>1. call[d].card = call[e].card /\ (Holds(d) \/ Granted(d)) /\ (Holds(e) \/ Granted(e))
    BY <1>1, <1>5 DEF Moves
  <2>2. d = e \/ Holds(d) \/ Holds(e)
    BY <1>2, <1>5
  <2> QED
    BY <1>1, <1>3, <1>5, <2>1, <2>2 DEF HoldersAgree
<1>6. ASSUME NEW d \in Decisions, claim'[d] = "granted"
      PROVE  execution'[call'[d].card].claimed
  <2>1. Holds(d)' /\ Holds(d)
    BY <1>1, <1>6 DEF Moves, Holds
  <2>2. call'[d].card = call[d].card /\ call[d].card \in Cards
    BY <1>1, <2>1 DEF Moves, HoldersAgree
  <2>3. CASE claim[d] = "granted"
    BY <1>1, <2>2, <2>3, RowsMove DEF HoldersAgree
  <2>4. CASE ClaimReceipt(call[d].card, call[d].proposal)
    BY <1>1, <2>2, <2>4 DEF ClaimReceipt, TypeOK, RowTypes, Execution
  <2> QED
    BY <1>1, <1>6, <2>3, <2>4 DEF Moves
<1> QED
  BY <1>4, <1>5, <1>6 DEF HoldersAgree

(* What the row says of an effect is posted by the holder, who knows it.    *)
LEMMA EffectsStep ==
  ASSUME IInv, [Next]_vars PROVE EffectsAgree'
<1>1. /\ \A d \in Decisions : Moves(d) /\ InOrder(d)
      /\ HoldersAgree /\ EffectsAgree /\ TypeOK /\ HoldersAgree'
  BY NextMoves, HoldersStep DEF IInv
<1>2. ASSUME NEW d \in performed
      PROVE  d \in performed' /\ call'[d].card = call[d].card
  <2>1. d \in Decisions /\ d \in performed'
    BY <1>1 DEF TypeOK, HubTypes, Moves
  <2>2. claim'[d] = "granted"
    BY <1>1, <2>1 DEF Moves, InOrder, TaskFirst
  <2>3. Holds(d)'
    BY <2>2 DEF Holds
  <2> QED
    BY <1>1, <2>1, <2>3 DEF Moves
<1>3. ASSUME NEW c \in Cards, execution'[c].state = "succeeded"
      PROVE  \E d \in performed' : call'[d].card = c
  <2>1. CASE execution[c].state = "succeeded"
    BY <1>1, <1>2, <2>1 DEF EffectsAgree
  <2>2. ASSUME NEW post \in posts, post[2] = c, post[3] = "succeeded"
        PROVE  \E d \in performed' : call'[d].card = c
    BY <1>2, <2>2, PostsOf
  <2> QED
    BY <1>3, <2>1, <2>2, RowsMove DEF Learns
<1>4. ASSUME NEW c \in Cards, execution'[c].state \in NoEffect,
             NEW d \in Decisions, call'[d].card = c, claim'[d] = "granted"
      PROVE  task'[d].at = "over" /\ d \notin performed'
  <2>1. Holds(d)' /\ call[d].card = c
    BY <1>1, <1>4 DEF Holds, Moves
  <2>2. claim[d] = "granted"
    <3>1. ASSUME ClaimReceipt(call[d].card, call[d].proposal)
          PROVE  execution'[c].state = "outcome_unknown"
      BY <1>1, <2>1, <3>1 DEF ClaimReceipt, TypeOK, RowTypes, Execution
    <3> QED
      BY <1>1, <1>4, <3>1 DEF Moves, NoEffect
  <2>3. Holds(d)
    BY <2>2 DEF Holds
  <2>4. task[d].at = "over" /\ d \notin performed
    <3>1. CASE execution[c].state \in NoEffect
      BY <1>1, <2>1, <2>2, <3>1 DEF EffectsAgree
    <3>2. ASSUME NEW post \in posts, post[2] = c, post[3] \in NoEffect
          PROVE  task[d].at = "over" /\ d \notin performed
      <4>1. post[3] # "rejected"
        BY <3>2 DEF NoEffect
      <4>2. post[1] = d
        BY <1>1, <2>1, <2>3, <3>2, <4>1, PostsOf DEF HoldersAgree
      <4> QED
        BY <3>2, <4>1, <4>2, PostsOf
    <3> QED
      BY <1>4, <3>1, <3>2, RowsMove DEF Learns
  <2> QED
    BY <1>1, <2>2, <2>4 DEF Moves
<1> QED
  BY <1>3, <1>4 DEF EffectsAgree

(* Every step keeps the invariant.                                          *)
LEMMA Inductive == IInv /\ [Next]_vars => IInv'
<1> SUFFICES ASSUME IInv, [Next]_vars PROVE IInv'
  OBVIOUS
<1>1. TypeOK'
  BY NextTypes, RowsMove DEF IInv, TypeOK, Types
<1> QED
  BY <1>1, PostsStep, HoldersStep, EffectsStep, RowsMove, NextMoves DEF IInv, Moves

THEOREM Invariance == Spec => []IInv
BY Start, Inductive, PTL DEF Spec

-----------------------------------------------------------------------------
(* Theorems                                                                 *)

(* Every variable of the two tables, the app and the hub keeps its type.    *)
THEOREM Typed == Spec => []TypeOK
BY Invariance, PTL DEF IInv

(* One acceptance of a card has at most one effect: who performed for the   *)
(* card held it, and holds it alone.                                        *)
THEOREM AtMostOneEffect == Spec => []OneEffectPerCard
<1>1. IInv => OneEffectPerCard
  <2> SUFFICES ASSUME IInv, NEW c \in Cards
               PROVE  Cardinality(EffectsOf(c)) <= 1
    BY DEF OneEffectPerCard
  <2>1. \A d, e \in EffectsOf(c) : d = e
    BY DEF EffectsOf, IInv, TypeOK, HubTypes, InOrder, TaskFirst, Holds, HoldersAgree
  <2>2. CASE EffectsOf(c) = {}
    BY <2>2, FS_EmptySet
  <2>3. ASSUME NEW d \in EffectsOf(c) PROVE Cardinality(EffectsOf(c)) <= 1
    <3>1. EffectsOf(c) = {d}
      BY <2>1, <2>3
    <3>2. Cardinality({d}) = 1
      BY FS_Singleton
    <3> QED
      BY <3>1, <3>2
  <2> QED
    BY <2>2, <2>3
<1> QED
  BY <1>1, Invariance, PTL

(* What the Worker records of a card is never more certain than what        *)
(* happened on the computer.                                                *)
THEOREM TheRecordIsTrue == Spec => []RecordTellsTheTruth
<1>1. IInv => RecordTellsTheTruth
  <2> SUFFICES ASSUME IInv, NEW c \in Cards
               PROVE  /\ execution[c].state = "succeeded" => EffectsOf(c) # {}
                      /\ EffectsOf(c) # {} =>
                           /\ execution[c].claimed
                           /\ execution[c].state \in {"succeeded", "failed", "outcome_unknown"}
                      /\ card[c] \in Standing(execution[c].state)
    BY DEF RecordTellsTheTruth
  <2>1. execution[c].state = "succeeded" => EffectsOf(c) # {}
    BY DEF IInv, EffectsAgree, EffectsOf
  <2>2. ASSUME NEW d \in EffectsOf(c)
        PROVE  /\ execution[c].claimed
               /\ execution[c].state \in {"succeeded", "failed", "outcome_unknown"}
    <3>1. d \in Decisions /\ d \in performed /\ call[d].card = c /\ claim[d] = "granted"
      BY DEF EffectsOf, IInv, TypeOK, HubTypes, InOrder, TaskFirst
    <3>2. execution[c].claimed /\ execution[c].state \notin NoEffect
      BY <3>1 DEF IInv, HoldersAgree, EffectsAgree
    <3> QED
      BY <3>2 DEF IInv, RowAgrees, Outcomes, NoEffect
  <2> QED
    BY <2>1, <2>2 DEF IInv, RowAgrees
<1> QED
  BY <1>1, Invariance, PTL

(* A report or a rejection is the last word on a card.                      *)
THEOREM TheLastWord == Spec => SettledIsFinal
<1>1. IInv /\ [Next]_vars =>
        [\A c \in Cards : Settled(c) => execution'[c] = execution[c] /\ card'[c] = card[c]]_vars
  BY RowsMove DEF Same
<1> QED
  BY <1>1, Invariance, PTL DEF Spec, SettledIsFinal
=============================================================================
