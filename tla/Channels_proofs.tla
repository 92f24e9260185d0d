--------------------------- MODULE Channels_proofs ---------------------------
(***************************************************************************)
(* Proofs about the messages of a channel, for every value of the limits:  *)
(* the inbox, for any messages, desktops and cron passes, then the         *)
(* deliveries to a chat, for any number of them and of calls.              *)
(***************************************************************************)
EXTENDS ChannelInbox, ChannelDelivery, TLAPS

-----------------------------------------------------------------------------
(* The rows                                                                 *)

Ticked(row) ==
  [row EXCEPT
     !.left = IF row.status = "processing" THEN AtLeast(@ - 1, -CallTime) ELSE @,
     !.age = IF row.status = "absent" \/ @ = ClaimDelay THEN @ ELSE @ + 1]

Finished(row) == [row EXCEPT !.status = "done", !.left = 0]

GivenUp(row) == [row EXCEPT !.status = "failed", !.left = 0, !.token = NoToken]

LEMMA ClaimedRow ==
  ASSUME NEW row \in Row, NEW ticks \in Int
  PROVE  Claimed(row, ticks) =
           [status |-> "processing", attempts |-> row.attempts + 1,
            token |-> row.attempts + 1, left |-> ticks, age |-> row.age]
<1> DEFINE one == [row EXCEPT !.status = "processing"]
           two == [one EXCEPT !.attempts = row.attempts + 1]
           three == [two EXCEPT !.token = row.attempts + 1]
<1>1. one = [status |-> "processing", attempts |-> row.attempts, token |-> row.token,
             left |-> row.left, age |-> row.age]
  BY DEF Row
<1>2. Claimed(row, ticks) = [three EXCEPT !.left = ticks]
  BY DEF Claimed
<1> HIDE DEF one
<1>3. two = [status |-> "processing", attempts |-> row.attempts + 1, token |-> row.token,
             left |-> row.left, age |-> row.age]
  BY <1>1
<1> HIDE DEF two
<1>4. three = [status |-> "processing", attempts |-> row.attempts + 1,
               token |-> row.attempts + 1, left |-> row.left, age |-> row.age]
  BY <1>3
<1> HIDE DEF three
<1> QED
  BY <1>2, <1>4

LEMMA ReturnedRow ==
  ASSUME NEW row \in Row, NEW t
  PROVE  Returned(row, t) =
           [status |-> IF row.attempts < MaxAttempts THEN "pending" ELSE "failed",
            attempts |-> row.attempts, token |-> t, left |-> 0, age |-> row.age]
<1> DEFINE status == IF row.attempts < MaxAttempts THEN "pending" ELSE "failed"
           one == [row EXCEPT !.status = status]
           two == [one EXCEPT !.left = 0]
<1>2. Returned(row, t) = [two EXCEPT !.token = t]
  BY DEF Returned
<1> HIDE DEF status
<1>1. one = [status |-> status, attempts |-> row.attempts, token |-> row.token,
             left |-> row.left, age |-> row.age]
  BY DEF Row
<1> HIDE DEF one
<1>3. two = [status |-> status, attempts |-> row.attempts, token |-> row.token,
             left |-> 0, age |-> row.age]
  BY <1>1
<1> HIDE DEF two
<1>4. Returned(row, t) = [status |-> status, attempts |-> row.attempts, token |-> t,
                          left |-> 0, age |-> row.age]
  BY <1>2, <1>3
<1> QED
  BY <1>4 DEF status

LEMMA FinishedRow ==
  ASSUME NEW row \in Row
  PROVE  Finished(row) = [status |-> "done", attempts |-> row.attempts, token |-> row.token,
                          left |-> 0, age |-> row.age]
<1> DEFINE one == [row EXCEPT !.status = "done"]
<1>1. one = [status |-> "done", attempts |-> row.attempts, token |-> row.token,
             left |-> row.left, age |-> row.age]
  BY DEF Row
<1>2. Finished(row) = [one EXCEPT !.left = 0]
  BY DEF Finished
<1> HIDE DEF one
<1> QED
  BY <1>1, <1>2

LEMMA GivenUpRow ==
  ASSUME NEW row \in Row
  PROVE  GivenUp(row) = [status |-> "failed", attempts |-> row.attempts, token |-> NoToken,
                         left |-> 0, age |-> row.age]
<1> DEFINE one == [row EXCEPT !.status = "failed"]
           two == [one EXCEPT !.left = 0]
<1>1. one = [status |-> "failed", attempts |-> row.attempts, token |-> row.token,
             left |-> row.left, age |-> row.age]
  BY DEF Row
<1>2. GivenUp(row) = [two EXCEPT !.token = NoToken]
  BY DEF GivenUp
<1> HIDE DEF one
<1>3. two = [status |-> "failed", attempts |-> row.attempts, token |-> row.token,
             left |-> 0, age |-> row.age]
  BY <1>1
<1> HIDE DEF two
<1> QED
  BY <1>2, <1>3

LEMMA TickedRow ==
  ASSUME NEW row \in Row
  PROVE  /\ Ticked(row) \in Row
         /\ Ticked(row).status = row.status /\ Ticked(row).attempts = row.attempts
         /\ Ticked(row).token = row.token
<1> DEFINE left == IF row.status = "processing" THEN AtLeast(row.left - 1, -CallTime)
                   ELSE row.left
           age == IF row.status = "absent" \/ row.age = ClaimDelay THEN row.age ELSE row.age + 1
           one == [row EXCEPT !.left = left]
<1>1. left \in Int /\ age \in Nat
  BY InboxAssumption DEF Row, AtLeast
<1>2. Ticked(row) = [one EXCEPT !.age = age]
  BY DEF Ticked
<1> HIDE DEF left, age
<1>3. one = [status |-> row.status, attempts |-> row.attempts, token |-> row.token,
             left |-> left, age |-> row.age]
  BY DEF Row
<1> HIDE DEF one
<1>4. Ticked(row) = [status |-> row.status, attempts |-> row.attempts, token |-> row.token,
                     left |-> left, age |-> age]
  BY <1>2, <1>3
<1> QED
  BY <1>1, <1>4 DEF Row

-----------------------------------------------------------------------------
(* What may become of a row in a step                                       *)

Waiting == {"pending", "processing"}
Settled == {"done", "failed"}
Unsent == {"absent", "arriving"}

Stays(old, new) ==
  new.status = old.status /\ new.attempts = old.attempts /\ new.token = old.token

Taken(old, new) ==
  /\ old.status \in Waiting /\ new.status = "processing"
  /\ new.attempts = old.attempts + 1 /\ new.token = old.attempts + 1

GoesBack(old, new) ==
  old.status = "processing" /\ new.status \in {"pending", "failed"} /\ new.attempts = old.attempts

(* The rows move on, and nobody answers.                                    *)
Quiet ==
  /\ inbox' \in [Messages -> Row]
  /\ UNCHANGED replies
  /\ \A m \in Messages :
       \/ Stays(inbox[m], inbox'[m]) \/ Taken(inbox[m], inbox'[m])
       \/ GoesBack(inbox[m], inbox'[m])

(* A message comes to the webhook, or to the table.                         *)
Comes ==
  /\ inbox' \in [Messages -> Row]
  /\ UNCHANGED replies
  /\ \E m \in Messages :
       /\ \/ inbox[m].status = "absent" /\ inbox'[m].status = "arriving"
          \/ inbox[m].status = "arriving" /\ inbox'[m].status = "pending"
       /\ inbox'[m].attempts = inbox[m].attempts /\ inbox'[m].token = inbox[m].token
       /\ \A n \in Messages \ {m} : inbox'[n] = inbox[n]

(* One is answered.                                                         *)
Replies ==
  /\ inbox' \in [Messages -> Row]
  /\ \E m \in Messages :
       /\ inbox[m].status = "processing" /\ inbox'[m].status = "done"
       /\ inbox'[m].attempts = inbox[m].attempts /\ inbox'[m].token = inbox[m].token
       /\ replies' = replies \cup {<<m, inbox[m].attempts>>}
       /\ \A n \in Messages \ {m} : inbox'[n] = inbox[n]

RowsDo == Quiet \/ Comes \/ Replies

LEMMA RowStays ==
  ASSUME inbox \in [Messages -> Row], UNCHANGED <<inbox, replies>>
  PROVE  Quiet
BY DEF Quiet, Stays

LEMMA RowReturned ==
  ASSUME inbox \in [Messages -> Row], NEW m \in Messages, NEW t \in Tokens,
         inbox[m].status = "processing",
         inbox' = [inbox EXCEPT ![m] = Returned(@, t)], UNCHANGED replies
  PROVE  Quiet
<1>1. inbox[m] \in Row
  OBVIOUS
<1>2. Returned(inbox[m], t) \in Row /\ GoesBack(inbox[m], Returned(inbox[m], t))
  BY <1>1, ReturnedRow DEF Row, GoesBack
<1>3. inbox'[m] = Returned(inbox[m], t) /\ \A n \in Messages : n # m => inbox'[n] = inbox[n]
  OBVIOUS
<1> QED
  BY <1>2, <1>3 DEF Quiet, Stays

LEMMA RowReplied ==
  ASSUME inbox \in [Messages -> Row], NEW m \in Messages, NEW t, NEW lag, Reply(m, t, lag)
  PROVE  Quiet \/ Replies
<1>1. CASE UNCHANGED <<inbox, replies>>
  BY <1>1, RowStays
<1>2. CASE Leased(m, t, lag) /\ inbox' = [inbox EXCEPT ![m] = Finished(inbox[m])]
           /\ replies' = replies \cup {<<m, inbox[m].attempts>>}
  <2>1. inbox[m] \in Row /\ inbox[m].status = "processing"
    BY <1>2 DEF Leased
  <2>2. /\ Finished(inbox[m]) \in Row /\ Finished(inbox[m]).status = "done"
        /\ Finished(inbox[m]).attempts = inbox[m].attempts
        /\ Finished(inbox[m]).token = inbox[m].token
    BY <2>1, FinishedRow DEF Row
  <2>3. inbox'[m] = Finished(inbox[m]) /\ \A n \in Messages \ {m} : inbox'[n] = inbox[n]
    BY <1>2
  <2> QED
    BY <1>2, <2>1, <2>2, <2>3 DEF Replies
<1> QED
  BY <1>1, <1>2 DEF Reply, Finished

-----------------------------------------------------------------------------
(* The invariant                                                            *)

Started ==
  \A m \in Messages :
    inbox[m].status = "processing" => inbox[m].attempts >= 1 /\ inbox[m].token = inbox[m].attempts

(* A desktop has a message under one of its attempts.  While that is the    *)
(* last one, every earlier message is settled, has not come, or came since. *)
HeadsClaimed ==
  \A d \in Desktops : desktop[d].at # "away" =>
    /\ desktop[d].item \in Messages
    /\ desktop[d].token \in 1..MaxAttempts
    /\ desktop[d].token <= inbox[desktop[d].item].attempts
    /\ desktop[d].token = inbox[desktop[d].item].attempts =>
         \A n \in Messages : n < desktop[d].item =>
           inbox[n].status \notin Waiting \/ n \in since[desktop[d].item]

Apart ==
  \A d, e \in Desktops :
    /\ desktop[d].at # "away" /\ desktop[e].at # "away"
    /\ desktop[d].item = desktop[e].item /\ desktop[d].token = desktop[e].token
    => d = e

PassesHaveItems ==
  \A p \in Passes : pass[p].at \in {"working", "replying"} => pass[p].item \in Messages

Rows ==
  /\ inbox \in [Messages -> Row]
  /\ replies \subseteq Messages \X (1..MaxAttempts)
  /\ Started /\ LastClaimantAnswers

Claimants ==
  /\ desktop \in [Desktops -> [at : {"away", "working", "finishing"},
                              item : Messages \cup {0}, token : Tokens]]
  /\ HeadsClaimed /\ Apart

Passers ==
  /\ pass \in [Passes ->
       [at : {"idle", "claiming", "working", "replying"}, queue : SUBSET Messages,
        item : Messages \cup {0}, token : Tokens, lag : Nat, read : Nat]]
  /\ PassesHaveItems

Callers == calls \subseteq Messages \X (1..MaxAttempts) \X (0..CallTime)

IInv ==
  /\ Rows /\ Claimants /\ Passers /\ Callers /\ bound \in BOOLEAN
  /\ since \in [Messages -> SUBSET Messages]

-----------------------------------------------------------------------------
(* What each step does to the rows                                          *)

LEMMA RowClaimed ==
  ASSUME Rows, NEW m \in Messages, inbox[m].status \in Waiting,
         inbox[m].attempts < MaxAttempts, NEW ticks \in Int
  PROVE  Claimed(inbox[m], ticks) \in Row /\ Taken(inbox[m], Claimed(inbox[m], ticks))
<1>1. inbox[m] \in Row /\ inbox[m].attempts + 1 \in Tokens
  BY InboxAssumption DEF Rows, Row, Tokens
<1> QED
  BY <1>1, ClaimedRow DEF Row, Taken

LEMMA ReapedRows ==
  ASSUME Rows
  PROVE  /\ Reaped \in [Messages -> Row]
         /\ \A m \in Messages : Reaped[m] = inbox[m] \/ GoesBack(inbox[m], Reaped[m])
         /\ \A m \in Unsettled : Reaped[m] = inbox[m]
<1> SUFFICES ASSUME NEW m \in Messages
             PROVE  /\ Reaped[m] \in Row
                    /\ Reaped[m] = inbox[m] \/ GoesBack(inbox[m], Reaped[m])
                    /\ m \in Unsettled => Reaped[m] = inbox[m]
  BY DEF Reaped, Unsettled
<1>1. inbox[m] \in Row /\ NoToken \in Tokens
  BY InboxAssumption DEF Rows, NoToken, Tokens
<1>2. CASE Reaped[m] = inbox[m]
  BY <1>1, <1>2
<1>3. CASE inbox[m].status = "processing" /\ Reaped[m] = GivenUp(inbox[m])
  BY <1>1, <1>3, GivenUpRow DEF Row, GoesBack, Unsettled
<1> QED
  BY <1>2, <1>3 DEF Reaped, GivenUp

LEMMA HeadTaken ==
  ASSUME Rows, NEW m \in Messages, Claimable(m), NEW ticks \in Int,
         inbox' = [Reaped EXCEPT ![m] = Claimed(@, ticks)], UNCHANGED replies
  PROVE  Quiet
<1>1. Reaped[m] = inbox[m] /\ inbox[m].status \in Waiting /\ inbox[m].attempts < MaxAttempts
  BY ReapedRows DEF Claimable, First, Unsettled, Waiting
<1>2. Claimed(inbox[m], ticks) \in Row /\ Taken(inbox[m], Claimed(inbox[m], ticks))
  BY <1>1, RowClaimed
<1>3. /\ inbox'[m] = Claimed(inbox[m], ticks) /\ inbox' \in [Messages -> Row]
      /\ \A n \in Messages : n # m => inbox'[n] = Reaped[n]
  BY <1>1, <1>2, ReapedRows
<1> QED
  BY <1>2, <1>3, ReapedRows DEF Quiet, Stays

LEMMA TickRows ==
  ASSUME Rows, Tick
  PROVE  Quiet
<1>1. inbox' = [m \in Messages |-> Ticked(inbox[m])] /\ UNCHANGED replies
  BY DEF Tick, Ticked
<1> QED
  BY <1>1, TickedRow DEF Rows, Quiet, Stays

LEMMA Releases ==
  ASSUME Rows, NEW m \in Messages, NEW t, Released(m, t), UNCHANGED replies
  PROVE  Quiet
<1>1. NoToken \in Tokens
  BY InboxAssumption DEF NoToken, Tokens
<1> QED
  BY <1>1, RowReturned, RowStays DEF Rows, Released

LEMMA Receives ==
  ASSUME Rows, NEW m \in Messages, Receive(m) \/ Insert(m)
  PROVE  Comes
<1> DEFINE to == IF inbox[m].status = "absent" THEN "arriving" ELSE "pending"
           new == [inbox[m] EXCEPT !.status = to]
<1>1. inbox[m] \in Row
  BY DEF Rows
<1>2. new \in Row /\ new.status = to /\ new.attempts = inbox[m].attempts
      /\ new.token = inbox[m].token
  BY <1>1 DEF Row
<1>3. inbox' = [inbox EXCEPT ![m] = new] /\ UNCHANGED replies /\ inbox[m].status \in Unsent
  BY DEF Receive, Insert, Unsent
<1>4. inbox'[m] = new /\ (\A n \in Messages \ {m} : inbox'[n] = inbox[n])
      /\ inbox' \in [Messages -> Row]
  BY <1>2, <1>3 DEF Rows
<1> QED
  BY <1>2, <1>3, <1>4 DEF Comes, Unsent

LEMMA RowCases ==
  ASSUME IInv, Step
  PROVE  RowsDo
<1> USE DEF IInv
<1>0. inbox \in [Messages -> Row]
  BY DEF Rows
<1>a. CASE UNCHANGED <<inbox, replies>>
  BY <1>0, <1>a, RowStays DEF RowsDo
<1>1. CASE Environment
  BY <1>1, <1>a, Receives DEF Environment, Unlink, Relink, RowsDo
<1>2. CASE Tick
  BY <1>2, TickRows DEF RowsDo
<1>3. ASSUME NEW d \in Desktops, DesktopStep(d)
      PROVE  RowsDo
  <2>1. CASE ClaimHead(d)
    <3>1. Lease \in Int
      BY InboxAssumption
    <3> QED
      BY <2>1, <3>1, HeadTaken DEF ClaimHead, RowsDo
  <2>2. CASE ClaimNothing(d)
    BY <2>2, ReapedRows DEF ClaimNothing, Quiet, Stays, RowsDo
  <2>3. CASE SendRetry(d)
    <3>1. CASE UNCHANGED inbox
      BY <1>a, <2>3, <3>1 DEF SendRetry
    <3>2. CASE ~UNCHANGED inbox
      <4>1. /\ Leased(desktop[d].item, desktop[d].token, 0)
            /\ inbox' = [inbox EXCEPT ![desktop[d].item] = Returned(@, desktop[d].token)]
            /\ UNCHANGED replies
            /\ desktop[d].at # "away"
        BY <2>3, <3>2 DEF SendRetry
      <4>2. desktop[d].item \in Messages /\ desktop[d].token \in Tokens
        BY <4>1 DEF Claimants, HeadsClaimed
      <4> QED
        BY <1>0, <4>1, <4>2, RowReturned DEF Leased, RowsDo
    <3> QED
      BY <3>1, <3>2
  <2>4. CASE HubAnswers(d) \/ LetGo(d) \/ SendDone(d) \/ Fence(d)
    BY <1>a, <2>4 DEF HubAnswers, LetGo, SendDone, Fence
  <2> QED
    BY <1>3, <2>1, <2>2, <2>3, <2>4 DEF DesktopStep, DesktopLives
<1>4. ASSUME NEW p \in Passes, PassStep(p) \/ PassDies(p)
      PROVE  RowsDo
  <2>1. CASE PassStarts(p) \/ PassSkips(p) \/ PassDies(p)
    BY <1>a, <2>1 DEF PassStarts, PassSkips, PassDies
  <2>2. CASE PassClaims(p)
    <3>1. PICK m \in pass[p].queue :
            /\ inbox[m].status = "pending" /\ inbox[m].attempts < MaxAttempts
            /\ inbox' = [inbox EXCEPT ![m] = Claimed(@, FallbackLease - pass[p].lag)]
      BY <2>2 DEF PassClaims
    <3>2. m \in Messages /\ FallbackLease - pass[p].lag \in Int
      BY InboxAssumption DEF Passers
    <3>3. LET new == Claimed(inbox[m], FallbackLease - pass[p].lag)
          IN new \in Row /\ Taken(inbox[m], new)
      BY <3>1, <3>2, RowClaimed DEF Waiting
    <3> QED
      BY <1>0, <2>2, <3>1, <3>2, <3>3 DEF PassClaims, Quiet, Stays, RowsDo
  <2>3. CASE PassGivesBack(p) \/ PassReads(p) \/ PassFails(p)
    <3>1. pass[p].item \in Messages
      BY <2>3 DEF Passers, PassesHaveItems, PassGivesBack, PassReads, PassFails
    <3> QED
      BY <1>a, <2>3, <3>1, Releases DEF PassGivesBack, PassReads, PassFails, RowsDo
  <2>4. CASE PassReplies(p)
    <3>1. pass[p].item \in Messages
      BY <2>4 DEF Passers, PassesHaveItems, PassReplies
    <3> QED
      BY <1>0, <2>4, <3>1, RowReplied DEF PassReplies, RowsDo
  <2> QED
    BY <1>4, <2>1, <2>2, <2>3, <2>4 DEF PassStep
<1>5. ASSUME NEW c \in calls, CallEnds(c)
      PROVE  RowsDo
  <2>1. c[1] \in Messages
    BY DEF Callers
  <2> QED
    BY <1>0, <1>5, <2>1, RowReplied DEF CallEnds, RowsDo
<1> QED
  BY <1>1, <1>2, <1>3, <1>4, <1>5 DEF Step

-----------------------------------------------------------------------------
(* What the rows keep                                                       *)

LEMMA RowsKept ==
  ASSUME Rows, RowsDo
  PROVE  /\ Rows'
         /\ \A m \in Messages :
              /\ inbox'[m].attempts >= inbox[m].attempts
              /\ inbox[m].status \in Settled =>
                   inbox'[m].status = inbox[m].status /\ inbox'[m].attempts = inbox[m].attempts
              /\ inbox'[m].status \in Waiting =>
                   inbox[m].status \in Waiting \/ m \in Inserted
<1>0. /\ inbox \in [Messages -> Row] /\ inbox' \in [Messages -> Row]
      /\ \A m \in Messages : inbox[m].attempts \in Nat /\ inbox'[m].attempts \in Nat
      /\ \A r \in replies : r[1] \in Messages
  BY DEF Rows, RowsDo, Quiet, Comes, Replies, Row, Tokens
<1>1. CASE Quiet
  <2>1. \A m \in Messages :
          /\ inbox'[m].attempts >= inbox[m].attempts
          /\ inbox[m].status \in Settled =>
               inbox'[m].status = inbox[m].status /\ inbox'[m].attempts = inbox[m].attempts
          /\ inbox'[m].status \in Waiting => inbox[m].status \in Waiting
    BY <1>0, <1>1 DEF Quiet, Stays, Taken, GoesBack, Settled, Waiting
  <2>2. Started'
    BY <1>0, <1>1 DEF Quiet, Rows, Started, Stays, Taken, GoesBack
  <2>3. LastClaimantAnswers'
    BY <1>0, <1>1, <2>1 DEF Quiet, Rows, LastClaimantAnswers, Settled
  <2> QED
    BY <1>0, <1>1, <2>1, <2>2, <2>3 DEF Rows, Quiet
<1>2. CASE Comes
  <2>1. PICK m \in Messages :
          /\ \/ inbox[m].status = "absent" /\ inbox'[m].status = "arriving"
             \/ inbox[m].status = "arriving" /\ inbox'[m].status = "pending"
          /\ inbox'[m].attempts = inbox[m].attempts /\ inbox'[m].token = inbox[m].token
          /\ \A n \in Messages \ {m} : inbox'[n] = inbox[n]
    BY <1>2 DEF Comes
  <2>2. UNCHANGED replies
    BY <1>2 DEF Comes
  <2>3. Started' /\ LastClaimantAnswers'
    BY <1>0, <2>1, <2>2 DEF Rows, Started, LastClaimantAnswers
  <2> QED
    BY <1>0, <2>1, <2>2, <2>3 DEF Rows, Settled, Waiting, Inserted
<1>3. CASE Replies
  <2>1. PICK m \in Messages :
          /\ inbox[m].status = "processing" /\ inbox'[m].status = "done"
          /\ inbox'[m].attempts = inbox[m].attempts
          /\ replies' = replies \cup {<<m, inbox[m].attempts>>}
          /\ \A n \in Messages \ {m} : inbox'[n] = inbox[n]
    BY <1>3 DEF Replies
  <2>2. inbox[m].attempts \in 1..MaxAttempts
    BY <1>0, <2>1 DEF Rows, Started, Row, Tokens
  <2>3. replies' \subseteq Messages \X (1..MaxAttempts)
    BY <2>1, <2>2 DEF Rows
  <2>4. Started'
    BY <1>0, <2>1 DEF Rows, Started
  <2>5. LastClaimantAnswers'
    BY <1>0, <2>1 DEF Rows, LastClaimantAnswers
  <2> QED
    BY <1>0, <2>1, <2>3, <2>4, <2>5 DEF Rows, Settled, Waiting
<1> QED
  BY <1>1, <1>2, <1>3 DEF RowsDo

-----------------------------------------------------------------------------
(* Desktops                                                                 *)

Desk == [at : {"away", "working", "finishing"}, item : Messages \cup {0}, token : Tokens]

(* They keep what they have, or let go of it.                               *)
KeepsOrLeaves ==
  /\ desktop' \in [Desktops -> Desk]
  /\ \A d \in Desktops : desktop'[d].at # "away" =>
       /\ desktop[d].at # "away"
       /\ desktop'[d].item = desktop[d].item /\ desktop'[d].token = desktop[d].token

(* One claims the head, under a token that nobody had.                      *)
TakesHead ==
  \E d \in Desktops, m \in Messages :
    /\ desktop' \in [Desktops -> Desk]
    /\ \A e \in Desktops : e # d => desktop'[e] = desktop[e]
    /\ desktop'[d].item = m /\ desktop'[d].token = inbox[m].attempts + 1
    /\ inbox'[m].attempts = inbox[m].attempts + 1
    /\ inbox[m].attempts + 1 \in 1..MaxAttempts
    /\ \A n \in Messages : n < m => inbox'[n].status \notin Waiting

LEMMA DesksStay ==
  ASSUME Claimants, UNCHANGED desktop
  PROVE  KeepsOrLeaves
BY DEF Claimants, KeepsOrLeaves, Desk

LEMMA DeskLeaves ==
  ASSUME Claimants, NEW d \in Desktops, desktop' = [desktop EXCEPT ![d] = Away]
  PROVE  KeepsOrLeaves
<1>1. Away \in Desk
  BY InboxAssumption DEF Away, Desk, NoToken, Tokens
<1> QED
  BY <1>1 DEF Claimants, KeepsOrLeaves, Desk, Away

LEMMA DesktopCases ==
  ASSUME IInv, Step
  PROVE  KeepsOrLeaves \/ TakesHead
<1> USE DEF IInv
<1>1. CASE UNCHANGED desktop
  BY <1>1, DesksStay
<1>2. ASSUME NEW d \in Desktops, ClaimHead(d)
      PROVE  KeepsOrLeaves \/ TakesHead
  <2>1. PICK m \in Messages :
          /\ Claimable(m)
          /\ inbox' = [Reaped EXCEPT ![m] = Claimed(@, Lease)]
          /\ desktop' \in
               {desktop,
                [desktop EXCEPT ![d] = [Away EXCEPT !.at = "working", !.item = m,
                                                    !.token = inbox[m].attempts + 1]]}
    BY <1>2 DEF ClaimHead
  <2>2. /\ Reaped[m] = inbox[m] /\ inbox[m].status \in Waiting
        /\ inbox[m].attempts < MaxAttempts /\ inbox[m] \in Row
        /\ \A n \in Unsettled : m <= n
    BY <2>1, ReapedRows DEF Claimable, First, Unsettled, Waiting, Rows
  <2>3. inbox[m].attempts + 1 \in 1..MaxAttempts /\ inbox[m].attempts + 1 \in Tokens
    BY <2>2, InboxAssumption DEF Row, Tokens
  <2>4. CASE desktop' = [desktop EXCEPT ![d] = [Away EXCEPT !.at = "working", !.item = m,
                                                  !.token = inbox[m].attempts + 1]]
    <3> DEFINE mine == [at |-> "working", item |-> m, token |-> inbox[m].attempts + 1]
    <3>1. [Away EXCEPT !.at = "working", !.item = m, !.token = inbox[m].attempts + 1] = mine
      <4> DEFINE one == [Away EXCEPT !.at = "working"]
                 two == [one EXCEPT !.item = m]
      <4>a. [Away EXCEPT !.at = "working", !.item = m, !.token = inbox[m].attempts + 1]
              = [two EXCEPT !.token = inbox[m].attempts + 1]
        OBVIOUS
      <4>1. one = [at |-> "working", item |-> 0, token |-> NoToken]
        BY DEF Away
      <4> HIDE DEF one
      <4>2. two = [at |-> "working", item |-> m, token |-> NoToken]
        BY <4>1
      <4> HIDE DEF two
      <4> QED
        BY <4>a, <4>2
    <3>2. mine \in Desk
      BY <2>3 DEF Desk
    <3>3. desktop' = [desktop EXCEPT ![d] = mine]
      BY <2>4, <3>1
    <3>4. desktop' \in [Desktops -> Desk] /\ desktop'[d] = mine
          /\ \A e \in Desktops : e # d => desktop'[e] = desktop[e]
      BY <3>2, <3>3 DEF Claimants, Desk
    <3>5. Lease \in Int
      BY InboxAssumption
    <3>6. inbox'[m].attempts = inbox[m].attempts + 1
      BY <2>1, <2>2, <3>5, ReapedRows, ClaimedRow
    <3>7. ASSUME NEW n \in Messages, n < m
          PROVE  inbox'[n].status \notin Waiting
      <4>1. n \notin Unsettled /\ n # m
        BY <2>2, <3>7, InboxAssumption
      <4>2. inbox'[n] = Reaped[n]
        BY <2>1, <4>1, ReapedRows
      <4> QED
        BY <4>1, <4>2 DEF Unsettled, Waiting
    <3> QED
      BY <2>3, <3>4, <3>6, <3>7 DEF TakesHead
  <2> QED
    BY <1>1, <2>1, <2>4
<1>3. ASSUME NEW d \in Desktops, HubAnswers(d)
      PROVE  KeepsOrLeaves
  BY <1>3 DEF HubAnswers, Claimants, KeepsOrLeaves, Desk
<1>4. ASSUME NEW d \in Desktops,
             SendDone(d) \/ SendRetry(d) \/ LetGo(d) \/ Fence(d) \/ ClaimNothing(d)
      PROVE  KeepsOrLeaves
  <2>1. UNCHANGED desktop \/ desktop' = [desktop EXCEPT ![d] = Away]
    BY <1>4 DEF SendDone, SendRetry, LetGo, Fence, ClaimNothing
  <2> QED
    BY <2>1, DesksStay, DeskLeaves
<1>5. ASSUME NEW c \in calls, CallEnds(c)
      PROVE  KeepsOrLeaves
  <2>1. CASE UNCHANGED desktop
    BY <2>1, DesksStay
  <2>2. CASE ~UNCHANGED desktop
    <3>1. Away \in Desk
      BY InboxAssumption DEF Away, Desk, NoToken, Tokens
    <3>2. desktop' = [d \in Desktops |->
            IF /\ desktop[d].at = "finishing"
               /\ desktop[d].item = c[1] /\ desktop[d].token = c[2]
               /\ inbox'[c[1]].status = "done"
            THEN Away ELSE desktop[d]]
      BY <1>5, <2>2 DEF CallEnds
    <3>3. \A d \in Desktops : desktop'[d] = Away \/ desktop'[d] = desktop[d]
      BY <3>2
    <3>4. desktop' \in [Desktops -> Desk]
      BY <3>1, <3>2 DEF Claimants, Desk
    <3> QED
      BY <3>3, <3>4 DEF KeepsOrLeaves, Away
  <2> QED
    BY <2>1, <2>2
<1>6. ASSUME NEW p \in Passes, PassStep(p) \/ PassDies(p)
      PROVE  UNCHANGED desktop
  BY <1>6 DEF PassStep, PassDies, PassStarts, PassClaims, PassSkips, PassGivesBack, PassReads,
              PassReplies, PassFails
<1>7. CASE Environment \/ Tick
  BY <1>1, <1>7 DEF Environment, Unlink, Relink, Receive, Insert, Tick
<1> QED
  BY <1>1, <1>2, <1>3, <1>4, <1>5, <1>6, <1>7 DEF Step, DesktopStep, DesktopLives

LEMMA ClaimantsKept ==
  ASSUME Rows, Claimants, RowsDo, KeepsOrLeaves \/ TakesHead,
         since \in [Messages -> SUBSET Messages], Next
  PROVE  Claimants'
<1>0. \A m \in Messages :
        /\ inbox[m].attempts \in Nat /\ inbox'[m].attempts \in Nat
        /\ inbox'[m].attempts >= inbox[m].attempts
  BY RowsKept DEF Rows, Row, Tokens
<1>1. ASSUME NEW m \in Messages, inbox'[m].attempts = inbox[m].attempts,
             NEW n \in Messages, n < m,
             inbox[n].status \notin Waiting \/ n \in since[m]
      PROVE  inbox'[n].status \notin Waiting \/ n \in since'[m]
  <2>1. since'[m] = since[m] \cup {k \in Inserted : k < m}
    BY <1>0, <1>1 DEF Next
  <2>2. inbox'[n].status \in Waiting => inbox[n].status \in Waiting \/ n \in Inserted
    BY RowsKept
  <2> QED
    BY <1>1, <2>1, <2>2
<1>2. ASSUME NEW d \in Desktops, desktop[d].at # "away",
             desktop'[d].item = desktop[d].item, desktop'[d].token = desktop[d].token
      PROVE  /\ desktop'[d].item \in Messages
             /\ desktop'[d].token \in 1..MaxAttempts
             /\ desktop'[d].token <= inbox'[desktop'[d].item].attempts
             /\ desktop'[d].token = inbox'[desktop'[d].item].attempts =>
                  \A n \in Messages : n < desktop'[d].item =>
                    inbox'[n].status \notin Waiting \/ n \in since'[desktop'[d].item]
  <2>1. PICK m \in Messages : m = desktop[d].item
    BY <1>2 DEF Claimants, HeadsClaimed
  <2>2. PICK t \in 1..MaxAttempts : t = desktop[d].token
    BY <1>2 DEF Claimants, HeadsClaimed
  <2>3. /\ t <= inbox[m].attempts
        /\ t = inbox[m].attempts =>
             \A n \in Messages : n < m => inbox[n].status \notin Waiting \/ n \in since[m]
    BY <1>2, <2>1, <2>2 DEF Claimants, HeadsClaimed
  <2>4. t <= inbox'[m].attempts
        /\ (t = inbox'[m].attempts => t = inbox[m].attempts)
    BY <1>0, <2>3
  <2>5. ASSUME t = inbox'[m].attempts, NEW n \in Messages, n < m
        PROVE  inbox'[n].status \notin Waiting \/ n \in since'[m]
    BY <1>1, <2>3, <2>4, <2>5
  <2> QED
    BY <1>2, <2>1, <2>2, <2>4, <2>5
<1>3. CASE KeepsOrLeaves
  <2>1. HeadsClaimed'
    BY <1>2, <1>3 DEF KeepsOrLeaves, HeadsClaimed
  <2>2. Apart'
    BY <1>3 DEF KeepsOrLeaves, Claimants, Apart
  <2> QED
    BY <1>3, <2>1, <2>2 DEF KeepsOrLeaves, Claimants, Desk
<1>4. CASE TakesHead
  <2>1. PICK d \in Desktops, m \in Messages :
          /\ desktop' \in [Desktops -> Desk]
          /\ \A e \in Desktops : e # d => desktop'[e] = desktop[e]
          /\ desktop'[d].item = m /\ desktop'[d].token = inbox[m].attempts + 1
          /\ inbox'[m].attempts = inbox[m].attempts + 1
          /\ inbox[m].attempts + 1 \in 1..MaxAttempts
          /\ \A n \in Messages : n < m => inbox'[n].status \notin Waiting
    BY <1>4 DEF TakesHead
  <2>2. HeadsClaimed'
    <3> SUFFICES ASSUME NEW e \in Desktops, desktop'[e].at # "away"
                 PROVE  /\ desktop'[e].item \in Messages
                        /\ desktop'[e].token \in 1..MaxAttempts
                        /\ desktop'[e].token <= inbox'[desktop'[e].item].attempts
                        /\ desktop'[e].token = inbox'[desktop'[e].item].attempts =>
                             \A n \in Messages : n < desktop'[e].item =>
                               \/ inbox'[n].status \notin Waiting
                               \/ n \in since'[desktop'[e].item]
      BY DEF HeadsClaimed
    <3>1. CASE e = d
      BY <1>0, <2>1, <3>1
    <3>2. CASE e # d
      <4>1. desktop'[e] = desktop[e]
        BY <2>1, <3>2
      <4> QED
        BY <1>2, <4>1
    <3> QED
      BY <3>1, <3>2
  <2>3. \A e \in Desktops :
          e # d /\ desktop[e].at # "away" /\ desktop[e].item = m =>
            desktop[e].token # desktop'[d].token
    BY <1>0, <2>1 DEF Claimants, HeadsClaimed
  <2>4. Apart'
    BY <2>1, <2>3 DEF Claimants, Apart
  <2> QED
    BY <2>1, <2>2, <2>4 DEF Claimants, Desk
<1> QED
  BY <1>3, <1>4

-----------------------------------------------------------------------------
(* Passes and calls                                                         *)

PassRow == [at : {"idle", "claiming", "working", "replying"}, queue : SUBSET Messages,
            item : Messages \cup {0}, token : Tokens, lag : Nat, read : Nat]

LEMMA IdleIsTyped == Idle \in PassRow
BY InboxAssumption DEF Idle, PassRow, NoToken, Tokens

Listing(queue, lag) ==
  [at |-> "claiming", queue |-> queue, item |-> 0, token |-> NoToken, lag |-> lag, read |-> 0]

LEMMA ListingIsTyped ==
  ASSUME NEW queue \in SUBSET Messages, NEW lag \in Nat
  PROVE  Listing(queue, lag) \in PassRow /\ Listing(queue, lag).at = "claiming"
BY InboxAssumption DEF Listing, PassRow, NoToken, Tokens

LEMMA ListingOf ==
  ASSUME NEW queue, NEW lag
  PROVE  /\ [Idle EXCEPT !.at = "claiming", !.queue = queue] = Listing(queue, 0)
         /\ [Idle EXCEPT !.at = "claiming", !.queue = queue, !.lag = lag] = Listing(queue, lag)
<1> DEFINE one == [Idle EXCEPT !.at = "claiming"]
           two == [one EXCEPT !.queue = queue]
<1>a. /\ [Idle EXCEPT !.at = "claiming", !.queue = queue] = two
      /\ [Idle EXCEPT !.at = "claiming", !.queue = queue, !.lag = lag] = [two EXCEPT !.lag = lag]
  OBVIOUS
<1>1. one = [at |-> "claiming", queue |-> {}, item |-> 0, token |-> NoToken, lag |-> 0,
             read |-> 0]
  BY DEF Idle
<1> HIDE DEF one
<1>2. two = [at |-> "claiming", queue |-> queue, item |-> 0, token |-> NoToken, lag |-> 0,
             read |-> 0]
  BY <1>1
<1> HIDE DEF two
<1>3. [two EXCEPT !.lag = lag] = Listing(queue, lag)
  BY <1>2 DEF Listing
<1> QED
  BY <1>a, <1>2, <1>3 DEF Listing

LEMMA PassTo ==
  ASSUME Passers, NEW p \in Passes, NEW new \in PassRow, pass' = [pass EXCEPT ![p] = new],
         new.at \in {"working", "replying"} => new.item \in Messages
  PROVE  Passers'
BY DEF Passers, PassesHaveItems, PassRow

LEMMA PassGoesOn ==
  ASSUME Passers, NEW p \in Passes, NEW queue \in SUBSET Messages, pass' = Onward(p, queue)
  PROVE  Passers'
<1>1. pass[p].lag \in Nat
  BY DEF Passers
<1>2. CASE queue = {}
  <2>1. pass' = [pass EXCEPT ![p] = Idle] /\ Idle.at = "idle"
    BY <1>2 DEF Onward, Idle
  <2> QED
    BY <2>1, IdleIsTyped, PassTo
<1>3. CASE queue # {}
  <2>1. pass' = [pass EXCEPT ![p] =
                  [Idle EXCEPT !.at = "claiming", !.queue = queue, !.lag = pass[p].lag]]
    BY <1>3 DEF Onward
  <2>a. [Idle EXCEPT !.at = "claiming", !.queue = queue, !.lag = pass[p].lag]
          = Listing(queue, pass[p].lag)
    BY ListingOf
  <2>2. pass' = [pass EXCEPT ![p] = Listing(queue, pass[p].lag)]
    BY <2>1, <2>a, Zenon
  <2> QED
    BY <1>1, <2>2, ListingIsTyped, PassTo
<1> QED
  BY <1>2, <1>3

LEMMA PassSteps ==
  ASSUME IInv, NEW p \in Passes, PassStep(p) \/ PassDies(p)
  PROVE  Passers'
<1> USE DEF IInv
<1>0. pass[p] \in PassRow /\ pass[p].queue \in SUBSET Messages
  BY DEF Passers, PassRow
<1>1. CASE PassStarts(p)
  <2> DEFINE queue == {m \in Stale : Cardinality({n \in Stale : n < m}) < ItemsPerRun}
  <2>1. queue \in SUBSET Messages
    BY DEF Stale, With
  <2>2. pass' = [pass EXCEPT ![p] = [Idle EXCEPT !.at = "claiming", !.queue = queue]]
    BY <1>1 DEF PassStarts
  <2> HIDE DEF queue
  <2>3. pass' = [pass EXCEPT ![p] = Listing(queue, 0)]
    BY <2>2, ListingOf
  <2> QED
    BY <2>1, <2>3, ListingIsTyped, PassTo
<1>2. CASE PassClaims(p)
  <2>1. PICK m \in pass[p].queue :
          /\ inbox[m].attempts < MaxAttempts
          /\ pass' = [pass EXCEPT ![p].at = "working", ![p].item = m,
                        ![p].queue = @ \ {m}, ![p].token = inbox[m].attempts + 1]
    BY <1>2 DEF PassClaims
  <2>2. m \in Messages /\ inbox[m] \in Row
    BY <1>0 DEF Rows
  <2>3. inbox[m].attempts + 1 \in Tokens
    BY <2>1, <2>2, InboxAssumption DEF Row, Tokens
  <2> DEFINE old == pass[p]
             one == [old EXCEPT !.at = "working"]
             two == [one EXCEPT !.item = m]
             three == [two EXCEPT !.queue = old.queue \ {m}]
             new == [at |-> "working", queue |-> old.queue \ {m}, item |-> m,
                     token |-> inbox[m].attempts + 1, lag |-> old.lag, read |-> old.read]
  <2>8. pass' = [pass EXCEPT ![p] = [three EXCEPT !.token = inbox[m].attempts + 1]]
    BY <2>1 DEF Passers
  <2>4. one = [at |-> "working", queue |-> old.queue, item |-> old.item, token |-> old.token,
               lag |-> old.lag, read |-> old.read]
    BY <1>0 DEF PassRow
  <2> HIDE DEF one
  <2>5. two = [at |-> "working", queue |-> old.queue, item |-> m, token |-> old.token,
               lag |-> old.lag, read |-> old.read]
    BY <2>4
  <2> HIDE DEF two
  <2>6. three = [at |-> "working", queue |-> old.queue \ {m}, item |-> m, token |-> old.token,
                 lag |-> old.lag, read |-> old.read]
    BY <2>5
  <2> HIDE DEF three
  <2>7. [three EXCEPT !.token = inbox[m].attempts + 1] = new
    BY <2>6
  <2>9. new \in PassRow /\ new.item \in Messages
    BY <1>0, <2>2, <2>3 DEF PassRow
  <2> QED
    BY <2>7, <2>8, <2>9, PassTo
<1>3. CASE PassSkips(p)
  <2>1. PICK m \in pass[p].queue : pass' = Onward(p, pass[p].queue \ {m})
    BY <1>3 DEF PassSkips
  <2>2. pass[p].queue \ {m} \in SUBSET Messages
    BY <1>0
  <2> QED
    BY <2>1, <2>2, PassGoesOn
<1>4. CASE pass' = Onward(p, pass[p].queue)
  BY <1>0, <1>4, PassGoesOn
<1>5. CASE pass[p].at = "working" /\ pass' = [pass EXCEPT ![p].at = "replying"]
  <2>1. /\ [pass[p] EXCEPT !.at = "replying"] \in PassRow
        /\ [pass[p] EXCEPT !.at = "replying"].item \in Messages
    BY <1>0, <1>5 DEF PassRow, Passers, PassesHaveItems
  <2>2. pass' = [pass EXCEPT ![p] = [pass[p] EXCEPT !.at = "replying"]]
    BY <1>5
  <2> QED
    BY <2>1, <2>2, PassTo
<1>6. CASE PassDies(p)
  <2>1. pass' = [pass EXCEPT ![p] = Idle] /\ Idle.at = "idle"
    BY <1>6 DEF PassDies, Idle
  <2> QED
    BY <2>1, IdleIsTyped, PassTo
<1> QED
  BY <1>1, <1>2, <1>3, <1>4, <1>5, <1>6
  DEF PassStep, PassGivesBack, PassReads, PassReplies, PassFails

Aged(row, lag, read) == [row EXCEPT !.lag = lag, !.read = read]

LEMMA TickedPass ==
  ASSUME NEW row \in PassRow, NEW lag \in Nat, NEW read \in Nat
  PROVE  /\ Aged(row, lag, read) \in PassRow
         /\ Aged(row, lag, read).at = row.at
         /\ Aged(row, lag, read).item = row.item
<1> DEFINE one == [row EXCEPT !.lag = lag]
           new == Aged(row, lag, read)
<1>1. one = [at |-> row.at, queue |-> row.queue, item |-> row.item, token |-> row.token,
             lag |-> lag, read |-> row.read]
  BY DEF PassRow
<1>2. new = [one EXCEPT !.read = read]
  BY DEF Aged
<1> HIDE DEF one
<1>3. new = [at |-> row.at, queue |-> row.queue, item |-> row.item, token |-> row.token,
             lag |-> lag, read |-> read]
  BY <1>1, <1>2
<1> HIDE DEF new
<1>4. new \in PassRow /\ new.at = row.at /\ new.item = row.item
  BY <1>3 DEF PassRow
<1> QED
  BY <1>4 DEF new

LEMMA PassersKept ==
  ASSUME IInv, Step
  PROVE  Passers'
<1> USE DEF IInv
<1>1. CASE UNCHANGED pass
  BY <1>1 DEF Passers, PassesHaveItems
<1>2. CASE Tick
  <2> DEFINE lag(p) == IF pass[p].at = "idle" \/ pass[p].lag = FallbackLease + CallTime
                       THEN pass[p].lag ELSE pass[p].lag + 1
             read(p) == IF pass[p].at = "replying" THEN pass[p].read + 1 ELSE pass[p].read
  <2>1. pass' = [p \in Passes |-> Aged(pass[p], lag(p), read(p))]
    BY <1>2 DEF Tick, Aged
  <2>2. ASSUME NEW p \in Passes
        PROVE  pass[p] \in PassRow /\ lag(p) \in Nat /\ read(p) \in Nat
    BY DEF Passers, PassRow
  <2> HIDE DEF lag, read
  <2>3. ASSUME NEW p \in Passes
        PROVE  pass'[p] \in PassRow /\ pass'[p].at = pass[p].at /\ pass'[p].item = pass[p].item
    <3>1. pass'[p] = Aged(pass[p], lag(p), read(p))
      BY <2>1
    <3>2. pass[p] \in PassRow /\ lag(p) \in Nat /\ read(p) \in Nat
      BY <2>2
    <3>3. /\ Aged(pass[p], lag(p), read(p)) \in PassRow
          /\ Aged(pass[p], lag(p), read(p)).at = pass[p].at
          /\ Aged(pass[p], lag(p), read(p)).item = pass[p].item
      BY <3>2, TickedPass, Zenon
    <3> QED
      BY <3>1, <3>3, Zenon
  <2> QED
    BY <2>1, <2>3 DEF Passers, PassesHaveItems, PassRow
<1>3. ASSUME NEW p \in Passes, PassStep(p) \/ PassDies(p)
      PROVE  Passers'
  BY <1>3, PassSteps
<1>4. ASSUME NEW d \in Desktops, DesktopStep(d)
      PROVE  UNCHANGED pass
  BY <1>4 DEF DesktopStep, DesktopLives, ClaimHead, ClaimNothing, HubAnswers, LetGo, SendDone,
              SendRetry, Fence
<1>5. CASE Environment \/ \E c \in calls : CallEnds(c)
  BY <1>1, <1>5 DEF Environment, Unlink, Relink, Receive, Insert, CallEnds
<1> QED
  BY <1>1, <1>2, <1>3, <1>4, <1>5 DEF Step

LEMMA CallersKept ==
  ASSUME IInv, Step
  PROVE  Callers'
<1> USE DEF IInv
<1>1. CASE UNCHANGED calls
  BY <1>1 DEF Callers
<1>2. CASE Tick
  <2>1. \A c \in calls : <<c[1], c[2], c[3] + 1>> \in Messages \X (1..MaxAttempts) \X (0..CallTime)
    <3> SUFFICES ASSUME NEW c \in calls
                 PROVE  c[1] \in Messages /\ c[2] \in 1..MaxAttempts /\ c[3] + 1 \in 0..CallTime
      OBVIOUS
    <3>1. c[1] \in Messages /\ c[2] \in 1..MaxAttempts /\ c[3] \in 0..CallTime
      BY DEF Callers
    <3>2. c[3] < CallTime
      BY <1>2 DEF Tick
    <3> QED
      BY <3>1, <3>2, InboxAssumption
  <2> QED
    BY <1>2, <2>1 DEF Tick, Callers
<1>3. ASSUME NEW d \in Desktops, SendDone(d)
      PROVE  Callers'
  <2>1. desktop[d].item \in Messages /\ desktop[d].token \in 1..MaxAttempts
    BY <1>3 DEF SendDone, Claimants, HeadsClaimed
  <2>2. UNCHANGED calls \/ calls' = calls \cup {<<desktop[d].item, desktop[d].token, 0>>}
    BY <1>3 DEF SendDone
  <2> QED
    BY <2>1, <2>2, InboxAssumption DEF Callers
<1>4. ASSUME NEW c \in calls, CallEnds(c)
      PROVE  Callers'
  BY <1>4 DEF CallEnds, Callers
<1>5. ASSUME NEW d \in Desktops, DesktopStep(d), ~SendDone(d)
      PROVE  UNCHANGED calls
  BY <1>5 DEF DesktopStep, DesktopLives, ClaimHead, ClaimNothing, HubAnswers, LetGo,
              SendRetry, Fence
<1>6. ASSUME NEW p \in Passes, PassStep(p) \/ PassDies(p)
      PROVE  UNCHANGED calls
  BY <1>6 DEF PassStep, PassDies, PassStarts, PassClaims, PassSkips, PassGivesBack, PassReads,
              PassReplies, PassFails
<1>7. CASE Environment
  BY <1>1, <1>7 DEF Environment, Unlink, Relink, Receive, Insert
<1> QED
  BY <1>1, <1>2, <1>3, <1>4, <1>5, <1>6, <1>7 DEF Step

LEMMA BoundKept ==
  ASSUME IInv, Step
  PROVE  bound' \in BOOLEAN
<1>1. ASSUME NEW d \in Desktops, DesktopStep(d)
      PROVE  UNCHANGED bound
  BY <1>1 DEF DesktopStep, DesktopLives, ClaimHead, ClaimNothing, HubAnswers, LetGo, SendDone,
              SendRetry, Fence
<1>2. ASSUME NEW p \in Passes, PassStep(p) \/ PassDies(p)
      PROVE  UNCHANGED bound
  BY <1>2 DEF PassStep, PassDies, PassStarts, PassClaims, PassSkips, PassGivesBack, PassReads,
              PassReplies, PassFails
<1>3. CASE Environment \/ Tick \/ \E c \in calls : CallEnds(c)
  BY <1>3, Zenon DEF IInv, Environment, Unlink, Relink, Receive, Insert, Tick, CallEnds
<1> QED
  BY <1>1, <1>2, <1>3, Zenon DEF Step, IInv

-----------------------------------------------------------------------------
(* The theorems                                                             *)

LEMMA InitIInv == Init => IInv
<1> SUFFICES ASSUME Init PROVE IInv
  OBVIOUS
<1>1. Absent \in Row /\ Absent.status = "absent"
  BY InboxAssumption DEF Absent, Row, NoToken, Tokens
<1>2. Rows
  BY <1>1 DEF Init, Rows, Started, LastClaimantAnswers
<1>3. Away \in Desk /\ Away.at = "away"
  BY InboxAssumption DEF Away, Desk, NoToken, Tokens
<1>4. Claimants
  BY <1>3 DEF Init, Claimants, HeadsClaimed, Apart, Desk
<1>5. Idle \in PassRow /\ Idle.at = "idle"
  BY IdleIsTyped DEF Idle
<1>6. Passers
  BY <1>5 DEF Init, Passers, PassesHaveItems, PassRow
<1>7. Callers /\ bound \in BOOLEAN /\ since \in [Messages -> SUBSET Messages]
  BY DEF Init, Callers
<1> QED
  BY <1>2, <1>4, <1>6, <1>7 DEF IInv

LEMMA StepIInv == IInv /\ [Next]_vars => IInv'
<1> SUFFICES ASSUME IInv, [Next]_vars PROVE IInv'
  OBVIOUS
<1>1. CASE Next
  <2>1. Step
    BY <1>1 DEF Next
  <2>2. Rows' /\ Claimants'
    BY <1>1, <2>1, RowCases, RowsKept, DesktopCases, ClaimantsKept DEF IInv
  <2>3. since' \in [Messages -> SUBSET Messages]
    <3>1. /\ since \in [Messages -> SUBSET Messages] /\ Inserted \in SUBSET Messages
          /\ since' = [m \in Messages |->
                         IF inbox'[m].attempts > inbox[m].attempts THEN {}
                         ELSE since[m] \cup {n \in Inserted : n < m}]
      BY <1>1 DEF IInv, Next, Inserted
    <3> HIDE DEF Inserted
    <3>2. \A m \in Messages :
            (IF inbox'[m].attempts > inbox[m].attempts THEN {}
             ELSE since[m] \cup {n \in Inserted : n < m}) \in SUBSET Messages
      BY <3>1
    <3> QED
      BY <3>1, <3>2
  <2> QED
    BY <2>1, <2>2, <2>3, PassersKept, CallersKept, BoundKept DEF IInv
<1>2. CASE UNCHANGED vars
  BY <1>2 DEF vars, IInv, Rows, Started, LastClaimantAnswers, Claimants, HeadsClaimed,
              Apart, Passers, PassesHaveItems, Callers
<1> QED
  BY <1>1, <1>2

LEMMA Always == Spec => []IInv
BY InitIInv, StepIInv, PTL DEF Spec

(* Rows, leases, desktops, calls and passes keep their types: no attempt    *)
(* beyond MaxAttempts, and no call older than CallTime.                     *)
THEOREM InboxTypes == Spec => []TypeOK
<1>1. IInv => TypeOK
  BY DEF IInv, Rows, Claimants, Passers, Callers, TypeOK
<1> QED
  BY <1>1, Always, PTL

(* The reply of a message that is done is its last claimant's, whoever else *)
(* had claimed it before.                                                   *)
THEOREM RepliesAreTheLastClaimants == Spec => []LastClaimantAnswers
<1>1. IInv => LastClaimantAnswers
  BY DEF IInv, Rows
<1> QED
  BY <1>1, Always, PTL

(* handle_inbox_claim gives a message to one desktop at a time, and never    *)
(* past an earlier one in the table: only a row that is inserted after the  *)
(* claim may wait while a later message is held.                            *)
THEOREM LeasesAreInTurn == Spec => []DesktopsTakeTurns
<1>1. IInv => DesktopsTakeTurns
  <2> SUFFICES ASSUME IInv, NEW d \in Desktops, Holding(d)
               PROVE  /\ \A e \in Desktops \ {d} :
                           Holding(e) => desktop[e].item # desktop[d].item
                      /\ Overtaken(desktop[d].item) = {}
    BY DEF DesktopsTakeTurns
  <2>1. ASSUME NEW e \in Desktops, Holding(e)
        PROVE  /\ desktop[e].at # "away" /\ desktop[e].item \in Messages
               /\ inbox[desktop[e].item].status = "processing"
               /\ desktop[e].token = inbox[desktop[e].item].token
               /\ desktop[e].token = inbox[desktop[e].item].attempts
    <3>1. desktop[e].at # "away" /\ inbox[desktop[e].item].status = "processing"
          /\ desktop[e].token = inbox[desktop[e].item].token
      BY <2>1 DEF Holding, Leased
    <3>2. desktop[e].item \in Messages
      BY <3>1 DEF IInv, Claimants, HeadsClaimed
    <3> QED
      BY <3>1, <3>2 DEF IInv, Rows, Started
  <2>2. \A e \in Desktops \ {d} : Holding(e) => desktop[e].item # desktop[d].item
    BY <2>1 DEF IInv, Claimants, Apart
  <2>3. Overtaken(desktop[d].item) = {}
    BY <2>1 DEF IInv, Claimants, HeadsClaimed, Overtaken, Waiting
  <2> QED
    BY <2>2, <2>3
<1> QED
  BY <1>1, Always, PTL

-----------------------------------------------------------------------------
(* The refinement                                                           *)

Fates == [m \in Messages |-> Fate(inbox[m].status)]
Sent == [m \in Messages |-> AnswersTo(m)]

LEMMA FateCases ==
  /\ Fate("absent") = "absent" /\ Fate("arriving") = "absent" /\ Fate("done") = "answered" /\ Fate("failed") = "given up"
  /\ Fate("pending") = "waiting" /\ Fate("processing") = "waiting"
BY DEF Fate

LEMMA StepsRefine ==
  ASSUME IInv, [Next]_vars
  PROVE  [Promise!Next]_<<Fates, Sent>>
<1>1. CASE UNCHANGED <<inbox, replies>>
  BY <1>1 DEF Fates, Sent, AnswersTo
<1>2. CASE Quiet
  <2> DEFINE S == {m \in Messages : inbox[m].status = "processing" /\ inbox'[m].status = "failed"}
  <2>1. Sent' = Sent
    BY <1>2 DEF Quiet, Sent, AnswersTo
  <2>2. ASSUME NEW m \in Messages
        PROVE  Fate(inbox'[m].status) = IF m \in S THEN "given up" ELSE Fates[m]
    BY <1>2, FateCases DEF Quiet, Stays, Taken, GoesBack, Waiting, Fates
  <2>3. \A m \in S : Fates[m] = "waiting"
    BY FateCases DEF Fates
  <2>4. S \in SUBSET Messages
    OBVIOUS
  <2> HIDE DEF S
  <2>5. Fates' = [m \in Messages |-> IF m \in S THEN "given up" ELSE Fates[m]]
    BY <2>2 DEF Fates
  <2>6. Promise!GiveUp(S)
    BY <2>1, <2>3, <2>5 DEF Promise!GiveUp, Fates, Sent
  <2> QED
    BY <2>4, <2>6 DEF Promise!Next
<1>3. CASE Comes
  <2>1. PICK m \in Messages :
          /\ \/ inbox[m].status = "absent" /\ inbox'[m].status = "arriving"
             \/ inbox[m].status = "arriving" /\ inbox'[m].status = "pending"
          /\ \A n \in Messages \ {m} : inbox'[n] = inbox[n]
    BY <1>3 DEF Comes
  <2>2. Sent' = Sent
    BY <1>3 DEF Comes, Sent, AnswersTo
  <2>3. CASE inbox'[m].status = "arriving"
    <3>1. Fates' = Fates
      BY <2>1, <2>3, FateCases DEF Fates
    <3> QED
      BY <2>2, <3>1
  <2>4. CASE inbox'[m].status = "pending"
    <3>1. Fates[m] = "absent" /\ Fates' = [Fates EXCEPT ![m] = "waiting"]
      BY <2>1, <2>4, FateCases DEF Fates
    <3>2. Promise!Arrive(m)
      BY <2>2, <3>1 DEF Promise!Arrive, Fates, Sent
    <3> QED
      BY <3>2 DEF Promise!Next
  <2> QED
    BY <2>1, <2>3, <2>4
<1>4. CASE Replies
  <2>1. PICK m \in Messages :
          /\ inbox[m].status = "processing" /\ inbox'[m].status = "done"
          /\ replies' = replies \cup {<<m, inbox[m].attempts>>}
          /\ \A n \in Messages \ {m} : inbox'[n] = inbox[n]
    BY <1>4 DEF Replies
  <2> DEFINE a == inbox[m].attempts
  <2>2. a \in 1..MaxAttempts
    BY <2>1 DEF IInv, Rows, Started, Row, Tokens
  <2>3. \A b : <<m, b>> \notin replies
    BY <2>1 DEF IInv, Rows, LastClaimantAnswers
  <2> HIDE DEF a
  <2>4. replies' = replies \cup {<<m, a>>}
    BY <2>1 DEF a
  <2>5. AnswersTo(m)' = {a}
    BY <2>2, <2>3, <2>4 DEF AnswersTo
  <2>6. \A n \in Messages \ {m} : AnswersTo(n)' = AnswersTo(n)
    BY <2>4 DEF AnswersTo
  <2>7. Sent' = [Sent EXCEPT ![m] = {a}]
    BY <2>5, <2>6 DEF Sent
  <2>8. Fates[m] = "waiting" /\ Fates' = [Fates EXCEPT ![m] = "answered"]
    BY <2>1, FateCases DEF Fates
  <2>9. Promise!Answer(m, a)
    BY <2>7, <2>8 DEF Promise!Answer, Fates, Sent
  <2> QED
    BY <2>2, <2>9 DEF Promise!Next
<1> QED
  BY <1>1, <1>2, <1>3, <1>4, RowCases DEF vars, Next, RowsDo

(* Claims, completions, cron passes and expired leases implement ReplyOnce: *)
(* a message is answered once or given up once, and left alone from then.   *)
THEOREM InboxAnswersOnce == Spec => AnsweredOnce
<1>1. Init => Promise!Init
  <2> SUFFICES ASSUME Init PROVE Promise!Init
    OBVIOUS
  <2>1. \A m \in Messages : Fate(inbox[m].status) = "absent" /\ AnswersTo(m) = {}
    BY FateCases DEF Init, Absent, AnswersTo
  <2> QED
    BY <2>1 DEF Promise!Init
<1>2. IInv /\ [Next]_vars =>
        [Promise!Next]_<<[m \in Messages |-> Fate(inbox[m].status)],
                         [m \in Messages |-> AnswersTo(m)]>>
  BY StepsRefine DEF Fates, Sent
<1> QED
  BY <1>1, <1>2, Always, PTL DEF Spec, AnsweredOnce, Promise!Spec, Promise!vars

-----------------------------------------------------------------------------
(* Types                                                                    *)

LEMMA RowsStayTyped ==
  ASSUME DeliveryTypeOK, NEW d \in Deliveries, NEW row \in Delivery, rows' = [rows EXCEPT ![d] = row]
  PROVE  rows' \in [Deliveries -> Delivery]
BY DEF DeliveryTypeOK

LEMMA CancelledIsTyped ==
  ASSUME DeliveryTypeOK
  PROVE  Cancelled \in [Deliveries -> Delivery]
<1> SUFFICES ASSUME NEW d \in Deliveries,
                    rows[d].state \notin {"absent", "sent", "cancelled"}
             PROVE  [rows[d] EXCEPT !.state = "cancelled", !.left = 0, !.token = 0] \in Delivery
  BY DEF DeliveryTypeOK, Cancelled
<1>1. rows[d] \in Delivery /\ 0 \in 0..MaxSends /\ 0 \in Int
  BY DeliveryAssumption DEF DeliveryTypeOK
<1>2. "cancelled" \in {"absent"} \cup Open \cup Final
  BY DEF Final
<1> QED
  BY <1>1, <1>2 DEF Delivery

LEMMA WithinIsInt ==
  ASSUME NEW n \in Int
  PROVE  Within(n) \in Int
BY DeliveryAssumption DEF Within

(* The row as a claim and as a settlement leave it.                         *)
TakenRow(d, lag) ==
  [rows[d] EXCEPT !.state = "delivering", !.attempts = @ + 1, !.left = SendLease - lag,
                  !.token = rows[d].attempts + 1]

Closed(row, to, due) ==
  [row EXCEPT !.state = to, !.left = 0, !.token = 0, !.due = due]

Over(s, state, delay) == Closed(rows[s.item], state, Within(delay - s.lag))

Claimant(d, lag) ==
  [item |-> d, token |-> rows[d].attempts + 1, lag |-> lag, received |-> FALSE, alive |-> TRUE]

LEMMA ClaimTakes ==
  ASSUME DeliveryTypeOK, NEW d \in Deliveries, NEW lag \in 0..MaxLag, Claim(d, lag)
  PROVE  /\ rows' = [rows EXCEPT ![d] = TakenRow(d, lag)]
         /\ TakenRow(d, lag) \in Delivery /\ TakenRow(d, lag).state = "delivering"
         /\ TakenRow(d, lag).attempts = rows[d].attempts + 1
         /\ TakenRow(d, lag).token = rows[d].attempts + 1
         /\ TakenRow(d, lag).left = SendLease - lag
         /\ Claimant(d, lag) \in Sender
         /\ senders' = senders \cup {Claimant(d, lag)}
<1>1. rows[d] \in Delivery /\ rows[d].attempts < MaxSends /\ SendLease - lag \in Int
  BY DeliveryAssumption DEF DeliveryTypeOK, Claim
<1>2. rows[d].attempts + 1 \in 1..MaxSends /\ rows[d].attempts + 1 \in 0..MaxSends
  BY <1>1, DeliveryAssumption DEF Delivery
<1>3. /\ TakenRow(d, lag) \in Delivery /\ TakenRow(d, lag).state = "delivering"
      /\ TakenRow(d, lag).attempts = rows[d].attempts + 1
      /\ TakenRow(d, lag).token = rows[d].attempts + 1
      /\ TakenRow(d, lag).left = SendLease - lag
  BY <1>1, <1>2 DEF TakenRow, Delivery, Open
<1>4. lag \in 0..Oldest
  BY DeliveryAssumption DEF Oldest
<1>5. Claimant(d, lag) \in Sender
  BY <1>2, <1>4 DEF Claimant, Sender
<1>6. rows' = [rows EXCEPT ![d] = TakenRow(d, lag)]
  BY DEF Claim, TakenRow, DeliveryTypeOK
<1> QED
  BY <1>3, <1>5, <1>6 DEF Claim, Claimant

LEMMA ClosedRow ==
  ASSUME NEW row \in Delivery, NEW to, NEW due \in Int
  PROVE  Closed(row, to, due) =
           [state |-> to, attempts |-> row.attempts, due |-> due, left |-> 0, token |-> 0]
<1> DEFINE one == [row EXCEPT !.state = to]
           two == [one EXCEPT !.left = 0]
           three == [two EXCEPT !.token = 0]
<1>1. one = [state |-> to, attempts |-> row.attempts, due |-> row.due, left |-> row.left,
             token |-> row.token]
  BY DEF Delivery
<1>2. Closed(row, to, due) = [three EXCEPT !.due = due]
  BY DEF Closed
<1> HIDE DEF one
<1>3. two = [state |-> to, attempts |-> row.attempts, due |-> row.due, left |-> 0,
             token |-> row.token]
  BY <1>1
<1> HIDE DEF two
<1>4. three = [state |-> to, attempts |-> row.attempts, due |-> row.due, left |-> 0, token |-> 0]
  BY <1>3
<1> HIDE DEF three
<1> QED
  BY <1>2, <1>4

LEMMA ClosedIsTyped ==
  ASSUME NEW row \in Delivery, NEW to \in Open \cup Final, NEW due \in Int
  PROVE  /\ Closed(row, to, due) \in Delivery
         /\ Closed(row, to, due).state = to
         /\ Closed(row, to, due).attempts = row.attempts
<1>1. row.attempts \in 0..MaxSends /\ 0 \in 0..MaxSends
  BY DeliveryAssumption DEF Delivery
<1>2. to \in {"absent"} \cup Open \cup Final
  OBVIOUS
<1> QED
  BY <1>1, <1>2, ClosedRow DEF Delivery

(* A settlement takes the row of the token from delivering to the state, or *)
(* leaves all rows.                                                         *)
LEMMA SettleCases ==
  ASSUME DeliveryTypeOK, NEW s \in senders, NEW state \in Open \cup Final, NEW delay \in Nat,
         Settle(s, state, delay)
  PROVE  \/ /\ rows[s.item].state = "delivering" /\ rows[s.item].token = s.token
            /\ rows' = [rows EXCEPT ![s.item] = Over(s, state, delay)]
            /\ Over(s, state, delay) \in Delivery
            /\ Over(s, state, delay).state = state
            /\ Over(s, state, delay).attempts = rows[s.item].attempts
         \/ UNCHANGED rows
<1>1. s.item \in Deliveries /\ s.lag \in Int
  BY DEF DeliveryTypeOK, Sender
<1>2. Within(delay - s.lag) \in Int
  BY <1>1, WithinIsInt
<1>3. /\ Over(s, state, delay) \in Delivery
      /\ Over(s, state, delay).state = state
      /\ Over(s, state, delay).attempts = rows[s.item].attempts
  <2>1. rows[s.item] \in Delivery
    BY <1>1 DEF DeliveryTypeOK
  <2> QED
    BY <1>2, <2>1, ClosedIsTyped DEF Over
<1>4. CASE rows[s.item].state = "delivering" /\ rows[s.item].token = s.token
  BY <1>1, <1>3, <1>4 DEF Settle, Over, Closed, DeliveryTypeOK
<1> QED
  BY <1>3, <1>4 DEF Settle

(* What an answer settles: the state, and that the call is over.            *)
LEMMA AnswerCases ==
  ASSUME DeliveryTypeOK, NEW s \in senders, Answer(s)
  PROVE  /\ Ends(s)
         /\ \/ s.received /\ Settle(s, "sent", 0)
            \/ \E state \in (Open \cup Final) \ {"sent", "delivering"}, delay \in Nat :
                 Settle(s, state, delay)
<1>1. Again(s) \in (Open \cup Final) \ {"sent", "delivering"}
  BY DEF Again, Open, Final
<1>2. CASE Accepted(s)
  BY <1>2 DEF Accepted
<1>3. CASE Busy(s)
  BY <1>1, <1>3, DeliveryAssumption DEF Busy
<1>4. CASE Rejected(s)
  BY <1>4 DEF Rejected, Open, Final
<1>5. CASE Unanswered(s)
  BY <1>1, <1>5, DeliveryAssumption DEF Unanswered, Open, Final
<1> QED
  BY <1>2, <1>3, <1>4, <1>5 DEF Answer

Later(row) ==
  [row EXCEPT !.due = IF row.state \in {"pending", "retry"} THEN Within(@ - 1) ELSE @,
              !.left = IF row.state # "delivering" \/ @ < -MaxLag THEN @ ELSE @ - 1]

LEMMA LaterIsTyped ==
  ASSUME NEW row \in Delivery
  PROVE  /\ Later(row) \in Delivery
         /\ Later(row).state = row.state /\ Later(row).attempts = row.attempts
         /\ Later(row).token = row.token
         /\ row.state = "delivering" /\ row.left > 0 => Later(row).left = row.left - 1
<1> DEFINE due == IF row.state \in {"pending", "retry"} THEN Within(row.due - 1) ELSE row.due
           left == IF row.state # "delivering" \/ row.left < -MaxLag THEN row.left
                   ELSE row.left - 1
           half == [row EXCEPT !.due = due]
<1>1. due \in Int /\ left \in Int
  BY WithinIsInt DEF Delivery
<1>2. Later(row) = [half EXCEPT !.left = left]
  BY DEF Later
<1>a. row.state = "delivering" /\ row.left > 0 => left = row.left - 1
  BY DeliveryAssumption DEF Delivery
<1> HIDE DEF due, left
<1>3. half = [state |-> row.state, attempts |-> row.attempts, due |-> due, left |-> row.left,
              token |-> row.token]
  BY DEF Delivery
<1> HIDE DEF half
<1>4. Later(row) = [state |-> row.state, attempts |-> row.attempts, due |-> due,
                    left |-> left, token |-> row.token]
  BY <1>2, <1>3
<1> QED
  BY <1>1, <1>4, <1>a DEF Delivery

Older(s) == [s EXCEPT !.lag = IF @ = Oldest THEN @ ELSE @ + 1]

LEMMA OlderIsTyped ==
  ASSUME NEW s \in Sender
  PROVE  /\ Older(s) \in Sender
         /\ Older(s).item = s.item /\ Older(s).token = s.token
         /\ Older(s).received = s.received /\ Older(s).alive = s.alive
         /\ Older(s).lag <= SendLease => Older(s).lag = s.lag + 1
<1>1. Oldest \in Nat /\ Oldest > SendLease
  BY DeliveryAssumption DEF Oldest
<1> QED
  BY <1>1, DeliveryAssumption DEF Older, Sender

-----------------------------------------------------------------------------
(* The invariant                                                            *)

(* Rows are posted in their order.                                          *)
PostedInOrder ==
  \A d, e \in Deliveries :
    e < d /\ rows[e].state = "absent" => rows[d].state = "absent"

SettledBefore(d) == \A e \in Deliveries : e < d => rows[e].state \in Final

Came == {arrivals[i] : i \in DOMAIN arrivals}

(* A call was alone in front when it claimed, under an attempt of its own.  *)
SendersInTurn ==
  \A s \in senders :
    /\ SettledBefore(s.item)
    /\ s.token <= rows[s.item].attempts
    /\ s.received => s.item \in Came

Distinct == \A s, t \in senders : s.item = t.item /\ s.token = t.token => s = t

(* Until its lease is over, the row is the call's.                          *)
Locked ==
  \A s \in senders :
    s.alive /\ s.lag <= SendLease =>
      \/ rows[s.item].state = "cancelled"
      \/ /\ rows[s.item].state = "delivering"
         /\ rows[s.item].token = s.token /\ rows[s.item].left = SendLease - s.lag

CameInTurn == \A d \in Came : SettledBefore(d)

SentCame == \A d \in Deliveries : rows[d].state = "sent" => d \in Came

DeliveryInv ==
  /\ DeliveryTypeOK /\ PostedInOrder /\ SendersInTurn /\ Distinct /\ Locked
  /\ CameInTurn /\ SentCame /\ ArrivalsInOrder

(* What no step takes back.                                                 *)
RowsMoveOn ==
  \A d \in Deliveries :
    /\ rows[d].state \in Final => rows'[d].state \in Final
    /\ rows'[d].attempts >= rows[d].attempts

LEMMA SettledStays ==
  ASSUME RowsMoveOn, NEW d, SettledBefore(d)
  PROVE  SettledBefore(d)'
BY DEF RowsMoveOn, SettledBefore

-----------------------------------------------------------------------------
(* Steps that leave the calls and the arrivals alone                        *)

(* Rows change at most by being posted, or by being cancelled.              *)
RowsAtRest ==
  /\ UNCHANGED <<senders, arrivals>>
  /\ rows' \in [Deliveries -> Delivery]
  /\ \A d \in Deliveries :
       \/ rows'[d] = rows[d]
       \/ /\ rows[d].state # "absent" /\ rows[d].state # "sent"
          /\ rows'[d].state = "cancelled"
          /\ rows'[d].attempts = rows[d].attempts
       \/ /\ rows[d].state = "absent"
          /\ \A e \in Deliveries : e < d => rows[e].state # "absent"
          /\ rows'[d].state = "pending"
          /\ rows'[d].attempts = rows[d].attempts

LEMMA RestSteps ==
  ASSUME DeliveryTypeOK,
         \/ UnlinkChat \/ RelinkChat \/ CancelOrphans \/ BeginPost
         \/ \E d \in Deliveries : Post(d)
         \/ UNCHANGED deliveryVars
  PROVE  RowsAtRest
<1>1. CASE RelinkChat \/ BeginPost \/ UNCHANGED deliveryVars
  BY <1>1 DEF RelinkChat, BeginPost, RowsAtRest, DeliveryTypeOK, deliveryVars
<1>2. CASE UnlinkChat \/ CancelOrphans
  <2>1. rows' = Cancelled /\ UNCHANGED <<senders, arrivals>>
    BY <1>2 DEF UnlinkChat, CancelOrphans
  <2>2. ASSUME NEW d \in Deliveries, rows[d].state \notin {"absent", "sent", "cancelled"}
        PROVE  rows'[d].state = "cancelled" /\ rows'[d].attempts = rows[d].attempts
    BY <2>1, <2>2 DEF Cancelled, DeliveryTypeOK, Delivery
  <2>3. \A d \in Deliveries :
          rows[d].state \in {"absent", "sent", "cancelled"} => rows'[d] = rows[d]
    BY <2>1 DEF Cancelled
  <2> QED
    BY <2>1, <2>2, <2>3, CancelledIsTyped DEF RowsAtRest
<1>3. ASSUME NEW d \in Deliveries, Post(d)
      PROVE  RowsAtRest
  <2>1. rows' = [rows EXCEPT ![d] = [rows[d] EXCEPT !.state = "pending"]]
    BY <1>3 DEF Post
  <2>2. /\ [rows[d] EXCEPT !.state = "pending"] \in Delivery
        /\ [rows[d] EXCEPT !.state = "pending"].state = "pending"
        /\ [rows[d] EXCEPT !.state = "pending"].attempts = rows[d].attempts
    BY DEF DeliveryTypeOK, Delivery, Open
  <2>3. rows[d].state = "absent" /\ \A e \in Deliveries : e < d => rows[e].state # "absent"
    BY <1>3, DeliveryAssumption DEF Post, In
  <2> QED
    BY <1>3, <2>1, <2>2, <2>3 DEF RowsAtRest, Post, DeliveryTypeOK
<1> QED
  BY <1>1, <1>2, <1>3

LEMMA RestKeeps ==
  ASSUME DeliveryInv, RowsAtRest
  PROVE  PostedInOrder' /\ SendersInTurn' /\ Distinct' /\ Locked' /\ CameInTurn' /\ SentCame'
         /\ ArrivalsInOrder'
<1> USE DEF DeliveryInv
<1>1. RowsMoveOn
  <2>1. \A d \in Deliveries : rows[d].attempts \in Nat /\ rows'[d].attempts \in Nat
    BY DEF RowsAtRest, DeliveryTypeOK, Delivery
  <2> QED
    BY <2>1 DEF RowsAtRest, RowsMoveOn, Final
<1>2. PostedInOrder'
  BY DEF RowsAtRest, PostedInOrder
<1>3. SendersInTurn' /\ Distinct'
  <2>1. Came' = Came
    BY DEF RowsAtRest, Came
  <2>2. \A s \in senders : s.item \in Deliveries /\ s.token \in Nat
    BY DEF DeliveryTypeOK, Sender
  <2>3. \A d \in Deliveries : rows'[d].attempts = rows[d].attempts
    BY DEF RowsAtRest
  <2> QED
    BY <1>1, <2>1, <2>2, <2>3, SettledStays DEF RowsAtRest, SendersInTurn, Distinct
<1>4. Locked'
  <2>1. \A s \in senders : s.item \in Deliveries
    BY DEF DeliveryTypeOK, Sender
  <2> QED
    BY <2>1 DEF RowsAtRest, Locked
<1>5. CameInTurn'
  BY <1>1, SettledStays DEF RowsAtRest, CameInTurn, Came
<1>6. SentCame'
  BY DEF RowsAtRest, SentCame, Came
<1>7. ArrivalsInOrder'
  <2>1. \A d \in Deliveries : rows'[d].state = "sent" => rows[d].state = "sent"
    BY DEF RowsAtRest
  <2>2. \A i \in DOMAIN arrivals : arrivals[i] \in Deliveries
    BY DEF DeliveryTypeOK
  <2> QED
    BY <2>1, <2>2 DEF RowsAtRest, ArrivalsInOrder
<1> QED
  BY <1>2, <1>3, <1>4, <1>5, <1>6, <1>7

LEMMA TickKeeps ==
  ASSUME DeliveryInv, DeliveryTick
  PROVE  DeliveryInv'
<1> USE DEF DeliveryInv
<1>1. /\ rows' = [d \in Deliveries |-> Later(rows[d])]
      /\ senders' = {Older(s) : s \in senders}
      /\ UNCHANGED <<linked, posting, arrivals>>
  BY DEF DeliveryTick, Later, Older
<1>2. \A d \in Deliveries :
        /\ rows'[d] \in Delivery
        /\ rows'[d].state = rows[d].state /\ rows'[d].attempts = rows[d].attempts
        /\ rows'[d].token = rows[d].token
        /\ rows[d].state = "delivering" /\ rows[d].left > 0
             => rows'[d].left = rows[d].left - 1
  BY <1>1, LaterIsTyped DEF DeliveryTypeOK
<1>3. \A s \in senders :
        /\ Older(s) \in Sender /\ s \in Sender
        /\ Older(s).item = s.item /\ Older(s).token = s.token
        /\ Older(s).received = s.received /\ Older(s).alive = s.alive
        /\ Older(s).lag <= SendLease => Older(s).lag = s.lag + 1
  BY OlderIsTyped DEF DeliveryTypeOK
<1>4. DeliveryTypeOK'
  BY <1>1, <1>2, <1>3 DEF DeliveryTypeOK
<1>5. PostedInOrder'
  BY <1>2 DEF PostedInOrder
<1>6. \A d : SettledBefore(d) => SettledBefore(d)'
  BY <1>2 DEF SettledBefore
<1>7. SendersInTurn'
  <2>1. Came' = Came
    BY <1>1 DEF Came
  <2>2. \A s \in senders : s.item \in Deliveries
    BY <1>3 DEF Sender
  <2> QED
    BY <1>1, <1>2, <1>3, <1>6, <2>1, <2>2 DEF SendersInTurn
<1>8. Distinct'
  BY <1>1, <1>3 DEF Distinct
<1>9. Locked'
  <2> SUFFICES ASSUME NEW s \in senders, s.alive, Older(s).lag <= SendLease
               PROVE  \/ rows'[s.item].state = "cancelled"
                      \/ /\ rows'[s.item].state = "delivering"
                         /\ rows'[s.item].token = s.token
                         /\ rows'[s.item].left = SendLease - Older(s).lag
    BY <1>1, <1>3 DEF Locked
  <2>1. Older(s).lag = s.lag + 1 /\ s.lag \in Nat /\ s.item \in Deliveries
    BY <1>3 DEF Sender
  <2>2. \/ rows[s.item].state = "cancelled"
        \/ /\ rows[s.item].state = "delivering" /\ rows[s.item].token = s.token
           /\ rows[s.item].left = SendLease - s.lag
    BY <2>1, DeliveryAssumption DEF Locked
  <2>3. SendLease - s.lag > 0 /\ (SendLease - s.lag) - 1 = SendLease - Older(s).lag
    BY <2>1, DeliveryAssumption
  <2> QED
    BY <1>2, <2>1, <2>2, <2>3
<1>10. CameInTurn' /\ SentCame'
  BY <1>1, <1>2, <1>6 DEF CameInTurn, SentCame, Came
<1>11. ArrivalsInOrder'
  <2>1. \A i \in DOMAIN arrivals : arrivals[i] \in Deliveries
    BY DEF DeliveryTypeOK
  <2> QED
    BY <1>1, <1>2, <2>1 DEF ArrivalsInOrder
<1> QED
  BY <1>4, <1>5, <1>7, <1>8, <1>9, <1>10, <1>11

-----------------------------------------------------------------------------
(* A claim                                                                  *)

LEMMA ClaimKeeps ==
  ASSUME DeliveryInv, NEW d \in Deliveries, NEW lag \in 0..MaxLag, Claim(d, lag)
  PROVE  DeliveryInv'
<1> USE DEF DeliveryInv
<1> DEFINE new == Claimant(d, lag)
<1>1. /\ rows' = [rows EXCEPT ![d] = TakenRow(d, lag)]
      /\ TakenRow(d, lag) \in Delivery /\ TakenRow(d, lag).state = "delivering"
      /\ TakenRow(d, lag).attempts = rows[d].attempts + 1
      /\ TakenRow(d, lag).token = rows[d].attempts + 1
      /\ TakenRow(d, lag).left = SendLease - lag
      /\ new \in Sender /\ senders' = senders \cup {new}
      /\ UNCHANGED <<linked, posting, arrivals>>
  BY ClaimTakes DEF Claim
<1>2. /\ rows'[d] = TakenRow(d, lag)
      /\ \A e \in Deliveries : e # d => rows'[e] = rows[e]
      /\ rows' \in [Deliveries -> Delivery]
      /\ rows[d] \in Delivery
  BY <1>1 DEF DeliveryTypeOK
<1>3. /\ new.item = d /\ new.token = rows[d].attempts + 1 /\ new.lag = lag
      /\ new.received = FALSE /\ new.alive = TRUE
  BY DEF Claimant
<1>4. rows[d].state \in {"pending", "retry", "delivering"}
      /\ (\A e \in Deliveries : rows[e].state \in Open => d <= e)
  BY DEF Claim, Ready, Foremost, In
<1>5. SettledBefore(d)
  <2> SUFFICES ASSUME NEW e \in Deliveries, e < d
               PROVE  rows[e].state \in Final
    BY DEF SettledBefore
  <2>1. rows[e].state \notin Open
    BY <1>4, DeliveryAssumption
  <2>2. rows[e].state # "absent"
    BY <1>4 DEF PostedInOrder
  <2> QED
    BY <2>1, <2>2 DEF DeliveryTypeOK, Delivery
<1>6. RowsMoveOn
  <2>1. \A e \in Deliveries : rows[e].attempts \in Nat
    BY DEF DeliveryTypeOK, Delivery
  <2> QED
    BY <1>1, <1>2, <1>4, <2>1 DEF RowsMoveOn, Final
<1>7. DeliveryTypeOK'
  BY <1>1, <1>2 DEF DeliveryTypeOK
<1>8. PostedInOrder'
  BY <1>1, <1>2, <1>4 DEF PostedInOrder
<1>9. SendersInTurn'
  <2>1. Came' = Came
    BY <1>1 DEF Came
  <2>2. ASSUME NEW s \in senders
        PROVE  SettledBefore(s.item)' /\ s.token <= rows'[s.item].attempts
               /\ (s.received => s.item \in Came')
    <3>1. s.item \in Deliveries /\ s.token \in Nat
      BY DEF DeliveryTypeOK, Sender
    <3>2. rows[s.item].attempts \in Nat /\ rows'[s.item].attempts \in Nat
      BY <1>2, <3>1 DEF Delivery
    <3> QED
      BY <1>6, <2>1, <3>1, <3>2, SettledStays DEF SendersInTurn, RowsMoveOn
  <2>3. SettledBefore(d)' /\ new.token <= rows'[d].attempts /\ ~new.received
    BY <1>1, <1>2, <1>3, <1>5, <1>6, SettledStays DEF Delivery
  <2> QED
    BY <1>1, <1>3, <2>2, <2>3 DEF SendersInTurn
<1>10. Distinct'
  <2>1. \A s \in senders : s.item = d => s.token # new.token
    <3> SUFFICES ASSUME NEW s \in senders, s.item = d PROVE s.token # new.token
      OBVIOUS
    <3>1. s.token <= rows[d].attempts /\ s.token \in Nat /\ rows[d].attempts \in Nat
      BY <1>2 DEF SendersInTurn, DeliveryTypeOK, Sender, Delivery
    <3> QED
      BY <1>3, <3>1
  <2> QED
    BY <1>1, <1>3, <2>1 DEF Distinct
<1>11. Locked'
  <2>1. ASSUME NEW s \in senders, s.alive, s.lag <= SendLease
        PROVE  \/ rows'[s.item].state = "cancelled"
               \/ /\ rows'[s.item].state = "delivering"
                  /\ rows'[s.item].token = s.token /\ rows'[s.item].left = SendLease - s.lag
    <3>1. s.item \in Deliveries /\ s.lag \in Nat
      BY DEF DeliveryTypeOK, Sender
    <3>2. \/ rows[s.item].state = "cancelled"
          \/ /\ rows[s.item].state = "delivering" /\ rows[s.item].token = s.token
             /\ rows[s.item].left = SendLease - s.lag
      BY <2>1 DEF Locked
    <3>3. s.item # d
      <4> SUFFICES ASSUME s.item = d PROVE FALSE
        OBVIOUS
      <4>1. rows[d].state = "delivering" /\ rows[d].left = SendLease - s.lag
        BY <1>4, <3>2
      <4>2. rows[d].left < -lag
        BY <4>1 DEF Claim, Ready
      <4> QED
        BY <2>1, <3>1, <4>1, <4>2, DeliveryAssumption
    <3> QED
      BY <1>2, <3>1, <3>2, <3>3
  <2> QED
    BY <1>1, <1>2, <1>3, <2>1 DEF Locked
<1>12. CameInTurn' /\ SentCame'
  BY <1>1, <1>2, <1>6, SettledStays DEF CameInTurn, SentCame, Came
<1>13. ArrivalsInOrder'
  <2>1. \A i \in DOMAIN arrivals : arrivals[i] \in Deliveries
    BY DEF DeliveryTypeOK
  <2> QED
    BY <1>1, <1>2, <2>1 DEF ArrivalsInOrder
<1> QED
  BY <1>7, <1>8, <1>9, <1>10, <1>11, <1>12, <1>13

-----------------------------------------------------------------------------
(* Arrivals, and calls that die                                             *)

(* One call changes in nothing but whether it arrived and whether it lives, *)
(* or is gone; the rows are left.                                           *)
Changed(s) ==
  /\ UNCHANGED <<rows, linked, posting>>
  /\ \/ senders' = senders \ {s}
     \/ \E t \in Sender :
          /\ senders' = (senders \ {s}) \cup {t}
          /\ t.item = s.item /\ t.token = s.token /\ t.lag = s.lag
          /\ t.alive => s.alive
          /\ t.received => s.received \/ s.item \in Came'

LEMMA ArriveChanges ==
  ASSUME DeliveryTypeOK, NEW s \in senders, Arrive(s)
  PROVE  /\ Changed(s)
         /\ \/ UNCHANGED arrivals
            \/ s.item \notin Came /\ arrivals' = Append(arrivals, s.item)
<1>1. s \in Sender /\ s.item \in Deliveries /\ arrivals \in Seq(Deliveries)
  BY DEF DeliveryTypeOK, Sender
<1>2. \/ s.item \in Came /\ UNCHANGED arrivals
      \/ s.item \notin Came /\ arrivals' = Append(arrivals, s.item)
  BY DEF Arrive, Came
<1>3. s.item \in Came'
  <2>1. CASE s.item \in Came /\ UNCHANGED arrivals
    BY <2>1 DEF Came
  <2>2. CASE arrivals' = Append(arrivals, s.item)
    <3>1. Len(arrivals) + 1 \in DOMAIN arrivals' /\ arrivals'[Len(arrivals) + 1] = s.item
      BY <1>1, <2>2
    <3> QED
      BY <3>1 DEF Came
  <2> QED
    BY <1>2, <2>1, <2>2
<1>4. CASE s.alive
  <2> DEFINE t == [s EXCEPT !.received = TRUE]
  <2>1. /\ t \in Sender /\ t.item = s.item /\ t.token = s.token /\ t.lag = s.lag
        /\ t.alive = s.alive
    BY <1>1 DEF Sender
  <2>2. senders' = (senders \ {s}) \cup {t}
    BY <1>4 DEF Arrive
  <2> QED
    BY <1>2, <1>3, <2>1, <2>2 DEF Arrive, Changed
<1>5. CASE ~s.alive
  BY <1>2, <1>5 DEF Arrive, Changed
<1> QED
  BY <1>4, <1>5

LEMMA DeathChanges ==
  ASSUME DeliveryTypeOK, NEW s \in senders, Die(s) \/ Vanish(s)
  PROVE  Changed(s) /\ UNCHANGED arrivals
<1>1. s \in Sender
  BY DEF DeliveryTypeOK
<1>2. CASE Die(s) /\ ~s.received
  <2> DEFINE t == [s EXCEPT !.alive = FALSE]
  <2>1. /\ t \in Sender /\ t.item = s.item /\ t.token = s.token /\ t.lag = s.lag
        /\ ~t.alive /\ t.received = s.received
    BY <1>1 DEF Sender
  <2>2. senders' = (senders \ {s}) \cup {t}
    BY <1>2 DEF Die
  <2> QED
    BY <1>2, <2>1, <2>2 DEF Die, Changed
<1>3. CASE (Die(s) /\ s.received) \/ Vanish(s)
  BY <1>3 DEF Die, Vanish, Changed
<1> QED
  BY <1>2, <1>3

LEMMA ChangedKeeps ==
  ASSUME DeliveryInv, NEW s \in senders, Changed(s),
         \/ UNCHANGED arrivals
         \/ s.item \notin Came /\ arrivals' = Append(arrivals, s.item)
  PROVE  DeliveryInv'
<1> USE DEF DeliveryInv
<1>1. /\ UNCHANGED <<rows, linked, posting>>
      /\ \A t \in senders : t \in Sender /\ t.item \in Deliveries
      /\ arrivals \in Seq(Deliveries)
  BY DEF Changed, DeliveryTypeOK, Sender
<1>2. arrivals' \in Seq(Deliveries)
  BY <1>1
<1>3. DeliveryTypeOK'
  BY <1>1, <1>2 DEF Changed, DeliveryTypeOK
<1>4. Came' \in {Came, Came \cup {s.item}}
  <2>1. CASE UNCHANGED arrivals
    BY <2>1 DEF Came
  <2>2. CASE arrivals' = Append(arrivals, s.item)
    <3>1. DOMAIN arrivals' = (DOMAIN arrivals) \cup {Len(arrivals) + 1}
          /\ arrivals'[Len(arrivals) + 1] = s.item
          /\ \A i \in DOMAIN arrivals : arrivals'[i] = arrivals[i]
      BY <1>1, <2>2
    <3> QED
      BY <3>1 DEF Came
  <2> QED
    BY <2>1, <2>2
<1>5. \A d : SettledBefore(d)' <=> SettledBefore(d)
  BY <1>1 DEF SettledBefore
<1>6. SendersInTurn'
  BY <1>1, <1>4, <1>5 DEF SendersInTurn, Changed
<1>7. Distinct'
  BY DEF Distinct, Changed
<1>8. Locked'
  BY <1>1 DEF Locked, Changed
<1>9. PostedInOrder'
  BY <1>1 DEF PostedInOrder
<1>10. CameInTurn' /\ SentCame'
  BY <1>1, <1>4, <1>5 DEF CameInTurn, SentCame, SendersInTurn
<1>11. ArrivalsInOrder'
  <2>1. CASE UNCHANGED arrivals
    BY <1>1, <2>1 DEF ArrivalsInOrder
  <2>2. CASE s.item \notin Came /\ arrivals' = Append(arrivals, s.item)
    <3> SUFFICES ASSUME NEW i \in DOMAIN arrivals', NEW j \in DOMAIN arrivals',
                        i < j, arrivals'[j] < arrivals'[i]
                 PROVE  rows[arrivals'[j]].state # "sent"
      BY <1>1 DEF ArrivalsInOrder
    <3>1. DOMAIN arrivals = 1..Len(arrivals) /\ DOMAIN arrivals' = 1..(Len(arrivals) + 1)
          /\ arrivals'[Len(arrivals) + 1] = s.item /\ Len(arrivals) \in Nat
          /\ \A n \in DOMAIN arrivals : arrivals'[n] = arrivals[n]
      BY <1>1, <2>2
    <3>2. i \in DOMAIN arrivals
      BY <3>1
    <3>3. CASE j = Len(arrivals) + 1
      BY <1>1, <2>2, <3>1, <3>3 DEF SentCame
    <3>4. CASE j # Len(arrivals) + 1
      <4>1. j \in DOMAIN arrivals
        BY <3>1, <3>4
      <4> QED
        BY <3>1, <3>2, <4>1 DEF ArrivalsInOrder
    <3> QED
      BY <3>3, <3>4
  <2> QED
    BY <2>1, <2>2
<1> QED
  BY <1>3, <1>6, <1>7, <1>8, <1>9, <1>10, <1>11

-----------------------------------------------------------------------------
(* An answer                                                                *)

(* The row of the call leaves delivering, for sent only if the message      *)
(* arrived; or the call has lost it, and the rows stay.                     *)
Answers(s) ==
  /\ UNCHANGED <<linked, posting, arrivals>>
  /\ senders' = senders \ {s}
  /\ \/ UNCHANGED rows
     \/ \E row \in Delivery :
          /\ rows[s.item].state = "delivering" /\ rows[s.item].token = s.token
          /\ rows' = [rows EXCEPT ![s.item] = row]
          /\ row.attempts = rows[s.item].attempts
          /\ row.state \in (Open \cup Final) \ {"delivering"}
          /\ row.state = "sent" => s.received

LEMMA AnswersDo ==
  ASSUME DeliveryTypeOK, NEW s \in senders, Answer(s)
  PROVE  Answers(s)
<1>1. senders' = senders \ {s} /\ UNCHANGED <<linked, posting, arrivals>>
  BY AnswerCases DEF Ends
<1>2. CASE s.received /\ Settle(s, "sent", 0)
  <2>1. "sent" \in (Open \cup Final) \ {"delivering"} /\ 0 \in Nat
    BY DEF Final
  <2> QED
    BY <1>1, <1>2, <2>1, SettleCases DEF Answers
<1>3. ASSUME NEW state \in (Open \cup Final) \ {"sent", "delivering"}, NEW delay \in Nat,
             Settle(s, state, delay)
      PROVE  Answers(s)
  BY <1>1, <1>3, SettleCases DEF Answers
<1> QED
  BY <1>2, <1>3, AnswerCases

LEMMA AnswerKeeps ==
  ASSUME DeliveryInv, NEW s \in senders, Answers(s)
  PROVE  DeliveryInv'
<1> USE DEF DeliveryInv
<1> DEFINE d == s.item
<1>1. /\ \A t \in senders : t \in Sender /\ t.item \in Deliveries
      /\ senders' = senders \ {s} /\ UNCHANGED <<linked, posting, arrivals>>
      /\ \A i \in DOMAIN arrivals : arrivals[i] \in Deliveries
      /\ d \in Deliveries
  BY DEF Answers, DeliveryTypeOK, Sender
<1>2. Came' = Came
  BY <1>1 DEF Came
<1>3. CASE UNCHANGED rows
  <2>1. \A x : SettledBefore(x)' <=> SettledBefore(x)
    BY <1>3 DEF SettledBefore
  <2> QED
    BY <1>1, <1>2, <1>3, <2>1
    DEF DeliveryTypeOK, PostedInOrder, SendersInTurn, Distinct, Locked, CameInTurn, SentCame, ArrivalsInOrder
<1>4. ASSUME NEW row \in Delivery,
             rows[d].state = "delivering", rows[d].token = s.token,
             rows' = [rows EXCEPT ![d] = row],
             row.attempts = rows[d].attempts,
             row.state \in (Open \cup Final) \ {"delivering"},
             row.state = "sent" => s.received
      PROVE  DeliveryInv'
  <2>1. /\ rows' \in [Deliveries -> Delivery] /\ rows'[d] = row
        /\ \A e \in Deliveries : e # d => rows'[e] = rows[e]
    BY <1>1, <1>4 DEF DeliveryTypeOK
  <2>2. \A e \in Deliveries : rows'[e].attempts = rows[e].attempts /\ rows[e].attempts \in Nat
    BY <1>4, <2>1 DEF DeliveryTypeOK, Delivery
  <2>3. RowsMoveOn
    BY <1>4, <2>1, <2>2 DEF RowsMoveOn, Final
  <2>4. DeliveryTypeOK'
    BY <1>1, <2>1 DEF DeliveryTypeOK
  <2>5. PostedInOrder'
    BY <1>1, <1>4, <2>1 DEF PostedInOrder, Open, Final
  <2>6. SendersInTurn'
    BY <1>1, <1>2, <2>2, <2>3, SettledStays DEF SendersInTurn
  <2>7. Distinct'
    BY <1>1 DEF Distinct
  <2>8. Locked'
    <3> SUFFICES ASSUME NEW t \in senders, t # s, t.alive, t.lag <= SendLease
                 PROVE  \/ rows'[t.item].state = "cancelled"
                        \/ /\ rows'[t.item].state = "delivering"
                           /\ rows'[t.item].token = t.token
                           /\ rows'[t.item].left = SendLease - t.lag
      BY <1>1 DEF Locked
    <3>1. \/ rows[t.item].state = "cancelled"
          \/ /\ rows[t.item].state = "delivering" /\ rows[t.item].token = t.token
             /\ rows[t.item].left = SendLease - t.lag
      BY DEF Locked
    <3>2. t.item # d
      BY <1>4, <3>1 DEF Distinct
    <3> QED
      BY <1>1, <2>1, <3>1, <3>2
  <2>9. CameInTurn'
    BY <1>2, <2>3, SettledStays DEF CameInTurn
  <2>10. SentCame'
    BY <1>2, <1>4, <2>1 DEF SentCame, SendersInTurn
  <2>11. ArrivalsInOrder'
    <3> SUFFICES ASSUME NEW i \in DOMAIN arrivals, NEW j \in DOMAIN arrivals,
                        i < j, arrivals[j] < arrivals[i]
                 PROVE  rows'[arrivals[j]].state # "sent"
      BY <1>1 DEF ArrivalsInOrder
    <3>1. rows[arrivals[j]].state \in Final
      BY <1>1 DEF CameInTurn, Came, SettledBefore
    <3>2. arrivals[j] # d
      BY <1>4, <3>1 DEF Final
    <3> QED
      BY <1>1, <2>1, <3>2 DEF ArrivalsInOrder
  <2> QED
    BY <2>4, <2>5, <2>6, <2>7, <2>8, <2>9, <2>10, <2>11
<1> QED
  BY <1>3, <1>4 DEF Answers

-----------------------------------------------------------------------------
(* The invariant holds                                                      *)

LEMMA InitDeliveryInv == DeliveryInit => DeliveryInv
<1> SUFFICES ASSUME DeliveryInit PROVE DeliveryInv
  OBVIOUS
<1>1. NotPosted \in Delivery
  BY DeliveryAssumption DEF NotPosted, Delivery
<1>a. rows \in [Deliveries -> Delivery]
  BY <1>1 DEF DeliveryInit
<1>b. senders \subseteq Sender /\ arrivals \in Seq(Deliveries)
  BY DEF DeliveryInit
<1>2. DeliveryTypeOK
  BY <1>a, <1>b DEF DeliveryInit, DeliveryTypeOK
<1>3. Came = {} /\ senders = {} /\ DOMAIN arrivals = {}
  BY DEF DeliveryInit, Came
<1>4. \A d \in Deliveries : rows[d].state = "absent"
  BY DEF DeliveryInit, NotPosted
<1> QED
  BY <1>2, <1>3, <1>4
  DEF DeliveryInv, PostedInOrder, SendersInTurn, Distinct, Locked, CameInTurn, SentCame, ArrivalsInOrder

LEMMA StepDeliveryInv == DeliveryInv /\ [DeliveryNext]_deliveryVars => DeliveryInv'
<1> SUFFICES ASSUME DeliveryInv, [DeliveryNext]_deliveryVars PROVE DeliveryInv'
  OBVIOUS
<1>1. CASE \/ UnlinkChat \/ RelinkChat \/ CancelOrphans \/ BeginPost
           \/ \E d \in Deliveries : Post(d)
           \/ UNCHANGED deliveryVars
  <2>1. RowsAtRest
    BY <1>1, RestSteps DEF DeliveryInv
  <2>2. linked' \in BOOLEAN /\ posting' \in BOOLEAN
    BY <1>1 DEF DeliveryInv, DeliveryTypeOK, UnlinkChat, RelinkChat, CancelOrphans, BeginPost, Post, deliveryVars
  <2>3. DeliveryTypeOK'
    BY <2>1, <2>2 DEF DeliveryInv, DeliveryTypeOK, RowsAtRest
  <2> QED
    BY <2>1, <2>3, RestKeeps DEF DeliveryInv
<1>2. CASE DeliveryTick
  BY <1>2, TickKeeps
<1>3. ASSUME NEW d \in Deliveries, NEW lag \in 0..MaxLag, Claim(d, lag)
      PROVE  DeliveryInv'
  BY <1>3, ClaimKeeps
<1>4. ASSUME NEW s \in senders, Arrive(s) \/ Answer(s) \/ Die(s) \/ Vanish(s)
      PROVE  DeliveryInv'
  <2>1. CASE Arrive(s)
    BY <2>1, ArriveChanges, ChangedKeeps DEF DeliveryInv
  <2>2. CASE Die(s) \/ Vanish(s)
    BY <2>2, DeathChanges, ChangedKeeps DEF DeliveryInv
  <2>3. CASE Answer(s)
    BY <2>3, AnswersDo, AnswerKeeps DEF DeliveryInv
  <2> QED
    BY <1>4, <2>1, <2>2, <2>3
<1> QED
  BY <1>1, <1>2, <1>3, <1>4 DEF DeliveryNext

LEMMA DeliveryInvHolds == DeliverySpec => []DeliveryInv
BY InitDeliveryInv, StepDeliveryInv, PTL DEF DeliverySpec

-----------------------------------------------------------------------------
(* What follows from it                                                     *)

(* Rows, calls and arrivals keep their types, attempts within MAX_ATTEMPTS. *)
THEOREM DeliveryTypes == DeliverySpec => []DeliveryTypeOK
<1>1. DeliveryInv => DeliveryTypeOK
  BY DEF DeliveryInv
<1> QED
  BY <1>1, DeliveryInvHolds, PTL

(* Two calls are never inside their leases at once, whatever the lease, the *)
(* limits and the ages of their nows: CLAIM_SQL is a lock on the chat.      *)
THEOREM LeasesExclude == DeliverySpec => []OneAtATime
<1>1. DeliveryInv => OneAtATime
  <2> SUFFICES ASSUME DeliveryInv, NEW s \in senders, NEW t \in senders, Inside(s), Inside(t)
               PROVE  s = t
    BY DEF OneAtATime
  <2>1. s.item \in Deliveries /\ t.item \in Deliveries
    BY DEF DeliveryInv, DeliveryTypeOK, Sender
  <2>2. /\ rows[s.item].state = "delivering" /\ rows[s.item].token = s.token
        /\ rows[t.item].state = "delivering" /\ rows[t.item].token = t.token
    BY DEF DeliveryInv, Locked, Inside
  <2>3. SettledBefore(s.item) /\ SettledBefore(t.item)
    BY DEF DeliveryInv, SendersInTurn
  <2>4. ~(s.item < t.item) /\ ~(t.item < s.item)
    BY <2>1, <2>2, <2>3 DEF SettledBefore, Final
  <2>a. s.item \in Nat /\ t.item \in Nat
    BY <2>1, DeliveryAssumption
  <2>5. s.item = t.item
    BY <2>a, <2>4
  <2> QED
    BY <2>2, <2>5 DEF DeliveryInv, Distinct
<1> QED
  BY <1>1, DeliveryInvHolds, PTL

(* The chat sees the messages in the order of their posts, repeats apart.   *)
THEOREM ArrivalsAreInOrder == DeliverySpec => []ArrivalsInOrder
<1>1. DeliveryInv => ArrivalsInOrder
  BY DEF DeliveryInv
<1> QED
  BY <1>1, DeliveryInvHolds, PTL

-----------------------------------------------------------------------------
(* The rows are an outbox                                                   *)

RowFates == [d \in Deliveries |-> FateOf(rows[d].state)]

LEMMA FateOfCases ==
  ASSUME NEW state \in {"absent"} \cup Open \cup Final
  PROVE  /\ FateOf(state) = "absent" <=> state = "absent"
         /\ FateOf(state) = "waiting" <=> state \in Open
         /\ FateOf(state) = "sent" <=> state = "sent"
         /\ FateOf(state) = "dropped" <=> state \in Final \ {"sent"}
BY DEF FateOf, Open, Final

LEMMA DeliveryStepsRefine ==
  ASSUME DeliveryInv, [DeliveryNext]_deliveryVars
  PROVE  [OutboxPromise!Next]_RowFates
<1> USE DEF DeliveryInv
<1>1. /\ \A d \in Deliveries : rows[d].state \in {"absent"} \cup Open \cup Final
      /\ \A s \in senders : s.item \in Deliveries
  BY DEF DeliveryTypeOK, Delivery, Sender
<1>2. CASE UNCHANGED rows
  BY <1>2 DEF RowFates
<1>3. CASE UnlinkChat \/ CancelOrphans
  <2> DEFINE S == In(Open)
  <2>1. rows' = Cancelled
    BY <1>3 DEF UnlinkChat, CancelOrphans
  <2>2. \A d \in Deliveries :
          FateOf(rows'[d].state) = IF d \in S THEN "dropped" ELSE FateOf(rows[d].state)
    <3> SUFFICES ASSUME NEW d \in Deliveries
                 PROVE  FateOf(rows'[d].state) =
                          IF d \in S THEN "dropped" ELSE FateOf(rows[d].state)
      OBVIOUS
    <3>1. rows[d].state \notin {"absent", "sent", "cancelled"} => rows'[d].state = "cancelled"
      BY <2>1 DEF Cancelled, DeliveryTypeOK, Delivery
    <3>2. rows[d].state \in {"absent", "sent", "cancelled"} => rows'[d] = rows[d]
      BY <2>1 DEF Cancelled
    <3>3. FateOf("cancelled") = "dropped"
      BY DEF FateOf, Open
    <3> QED
      BY <1>1, <3>1, <3>2, <3>3, FateOfCases DEF In, Open, Final
  <2>3. \A d \in S : RowFates[d] = "waiting"
    BY <1>1, FateOfCases DEF In, RowFates
  <2>4. RowFates' = [d \in Deliveries |-> IF d \in S THEN "dropped" ELSE RowFates[d]]
    BY <2>2 DEF RowFates
  <2>5. S \in SUBSET Deliveries
    BY DEF In
  <2> HIDE DEF S
  <2>6. OutboxPromise!Drop(S)
    BY <2>3, <2>4 DEF OutboxPromise!Drop, RowFates
  <2> QED
    BY <2>5, <2>6 DEF OutboxPromise!Next
<1>4. CASE DeliveryTick
  <2>1. \A d \in Deliveries : rows'[d].state = rows[d].state
    BY <1>4, LaterIsTyped DEF DeliveryTick, Later, DeliveryTypeOK
  <2> QED
    BY <2>1 DEF RowFates
<1>5. ASSUME NEW d \in Deliveries, Post(d)
      PROVE  OutboxPromise!Next
  <2>1. rows[d].state = "absent" /\ \A e \in Deliveries : e < d => rows[e].state # "absent"
    BY <1>5, DeliveryAssumption DEF Post, In
  <2>2. rows'[d].state = "pending" /\ \A e \in Deliveries : e # d => rows'[e] = rows[e]
    BY <1>5 DEF Post, DeliveryTypeOK, Delivery
  <2>3. FateOf("pending") = "waiting" /\ FateOf("absent") = "absent"
    BY DEF FateOf, Open
  <2>4. RowFates' = [RowFates EXCEPT ![d] = "waiting"] /\ RowFates[d] = "absent"
    BY <2>1, <2>2, <2>3 DEF RowFates
  <2>5. \A e \in Deliveries : e < d => RowFates[e] # "absent"
    BY <1>1, <2>1, FateOfCases DEF RowFates
  <2>6. OutboxPromise!Post(d)
    BY <2>4, <2>5 DEF OutboxPromise!Post, RowFates
  <2> QED
    BY <2>6 DEF OutboxPromise!Next
<1>6. ASSUME NEW d \in Deliveries, NEW lag \in 0..MaxLag, Claim(d, lag)
      PROVE  UNCHANGED RowFates
  <2>1. rows'[d].state = "delivering" /\ \A e \in Deliveries : e # d => rows'[e] = rows[e]
    BY <1>6, ClaimTakes DEF DeliveryTypeOK
  <2>2. rows[d].state \in Open
    BY <1>6 DEF Claim, Ready, Open
  <2>3. FateOf("delivering") = "waiting" /\ FateOf(rows[d].state) = "waiting"
    BY <1>1, <2>2, FateOfCases DEF FateOf, Open
  <2> QED
    BY <2>1, <2>3 DEF RowFates
<1>7. ASSUME NEW s \in senders, Answer(s)
      PROVE  [OutboxPromise!Next]_RowFates
  <2> DEFINE d == s.item
  <2>1. Answers(s)
    BY <1>7, AnswersDo
  <2>2. ASSUME NEW row \in Delivery,
               rows[d].state = "delivering", rows' = [rows EXCEPT ![d] = row],
               row.state \in (Open \cup Final) \ {"delivering"}
        PROVE  [OutboxPromise!Next]_RowFates
    <3>1. d \in Deliveries /\ RowFates[d] = "waiting"
      BY <1>1, <2>2 DEF RowFates, FateOf, Open
    <3>2. rows'[d] = row /\ \A e \in Deliveries : e # d => rows'[e] = rows[e]
      BY <2>2, <3>1 DEF DeliveryTypeOK
    <3>3. RowFates' = [RowFates EXCEPT ![d] = FateOf(row.state)]
      BY <3>2 DEF RowFates
    <3>4. CASE row.state \in Open
      <4>1. FateOf(row.state) = "waiting"
        BY <3>4, FateOfCases
      <4>2. RowFates' = RowFates
        BY <3>1, <3>3, <4>1 DEF RowFates
      <4> QED
        BY <4>2
    <3>5. CASE row.state = "sent"
      <4>1. FateOf(row.state) = "sent"
        BY <3>5 DEF FateOf
      <4>2. \A e \in Deliveries : e < d => RowFates[e] \in {"sent", "dropped"}
        <5>1. SettledBefore(d)
          BY DEF SendersInTurn
        <5> QED
          BY <1>1, <5>1, FateOfCases DEF SettledBefore, RowFates
      <4>3. OutboxPromise!Send(d)
        BY <3>1, <3>3, <4>1, <4>2 DEF OutboxPromise!Send, RowFates
      <4> QED
        BY <3>1, <4>3 DEF OutboxPromise!Next
    <3>6. CASE row.state \in Final \ {"sent"}
      <4>1. FateOf(row.state) = "dropped"
        BY <3>6, FateOfCases
      <4>2. RowFates' = [e \in Deliveries |-> IF e \in {d} THEN "dropped" ELSE RowFates[e]]
        BY <3>1, <3>3, <4>1 DEF RowFates
      <4>3. OutboxPromise!Drop({d})
        BY <3>1, <4>2 DEF OutboxPromise!Drop, RowFates
      <4> QED
        BY <3>1, <4>3 DEF OutboxPromise!Next
    <3> QED
      BY <2>2, <3>4, <3>5, <3>6
  <2> QED
    BY <1>2, <2>1, <2>2 DEF Answers
<1>8. CASE \/ RelinkChat \/ BeginPost \/ UNCHANGED deliveryVars
           \/ \E s \in senders : Arrive(s) \/ Die(s) \/ Vanish(s)
  BY <1>2, <1>8 DEF RelinkChat, BeginPost, deliveryVars, Arrive, Die, Vanish
<1> QED
  BY <1>3, <1>4, <1>5, <1>6, <1>7, <1>8 DEF DeliveryNext

(* deliver_channel_message, the posts and unlink_channel implement Outbox:  *)
(* one delivery is recorded as sent when nothing before it is to be sent,   *)
(* and what is settled stays settled.                                       *)
THEOREM DeliveriesAreAnOutbox == DeliverySpec => SentInTurn
<1>1. DeliveryInit => OutboxPromise!Init
  <2> SUFFICES ASSUME DeliveryInit PROVE OutboxPromise!Init
    OBVIOUS
  <2>1. FateOf("absent") = "absent"
    BY DEF FateOf
  <2> QED
    BY <2>1 DEF DeliveryInit, NotPosted, OutboxPromise!Init
<1>2. DeliveryInv /\ [DeliveryNext]_deliveryVars => [OutboxPromise!Next]_[d \in Deliveries |-> FateOf(rows[d].state)]
  BY DeliveryStepsRefine DEF RowFates
<1> QED
  BY <1>1, <1>2, DeliveryInvHolds, PTL DEF DeliverySpec, SentInTurn, OutboxPromise!Spec

=============================================================================
