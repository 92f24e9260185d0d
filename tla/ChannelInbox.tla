----------------------------- MODULE ChannelInbox -----------------------------
(***************************************************************************)
(* The inbox of one account's channel messages (table channel_inbox).      *)
(* Desktops claim its head and answer it (handle_inbox_claim and           *)
(* handle_inbox_complete in worker-rs/src/glue.rs, polled by               *)
(* conversation_controller.dart); while none does, a cron pass answers what*)
(* has waited (respond_to_stale_inbox_items in routes_channels.rs).  Every *)
(* claim takes a lease under a token and counts as an attempt.             *)
(*                                                                         *)
(* Abstractions: messages are numbered as a claim orders them, by          *)
(* received_at and then id; the stamps are read by different isolates and  *)
(* ids are hashes, so they may be given, and the rows appear, in any order.*)
(* A claim's fresh token is the number of the attempt it counts.  Times are*)
(* relative to now: a lease has ticks left, negative once it is over.  One *)
(* claimant sends one text, so the conflict of two texts does not occur.   *)
(***************************************************************************)
EXTENDS Integers, FiniteSets

CONSTANTS
  Messages,        \* by received_at, id: a set of naturals
  Desktops,        \* installations of the app that poll the inbox
  Passes,          \* cron passes that may overlap
  MaxAttempts,     \* attempts before a message is given up
  Lease,           \* LEASE_MS of a desktop, in ticks
  FallbackLease,   \* FALLBACK_LEASE_MS of a pass
  ClaimDelay,      \* FALLBACK_CLAIM_DELAY_MS
  ItemsPerRun,     \* MAX_ITEMS_PER_RUN
  CallTime         \* bound: ticks between the two steps of a completion

ASSUME InboxAssumption ==
  /\ Messages \subseteq Nat
  /\ MaxAttempts \in Nat \ {0}
  /\ Lease \in Nat \ {0} /\ FallbackLease \in Nat \ {0}
  /\ ClaimDelay \in Nat /\ ItemsPerRun \in Nat \ {0}
  /\ CallTime \in Nat

VARIABLES
  inbox,     \* the rows of channel_inbox; "absent" before the webhook, and
             \* "arriving" while the webhook has yet to insert them
  bound,     \* the channel has a binding that is not revoked
  replies,   \* <<message, attempt>>: the channel_deliveries made for a reply
  desktop,   \* what each desktop is at
  calls,     \* completions on their way: <<message, token, ticks since now>>
  pass,      \* what each cron pass is at
  since      \* history: the earlier messages that came to the table since a
             \* message was last claimed

steps == <<inbox, bound, replies, desktop, calls, pass>>
vars == <<inbox, bound, replies, desktop, calls, pass, since>>

NoToken == 0

Tokens == 0..MaxAttempts

Row == [status : {"absent", "arriving", "pending", "processing", "done", "failed"},
        attempts : Tokens, token : Tokens, left : Int,
        age : Nat]

Absent == [status |-> "absent", attempts |-> 0, token |-> NoToken, left |-> 0, age |-> 0]

Away == [at |-> "away", item |-> 0, token |-> NoToken]

Idle == [at |-> "idle", queue |-> {}, item |-> 0, token |-> NoToken, lag |-> 0, read |-> 0]

Init ==
  /\ inbox = [m \in Messages |-> Absent]
  /\ bound = TRUE
  /\ replies = {}
  /\ desktop = [d \in Desktops |-> Away]
  /\ calls = {}
  /\ pass = [p \in Passes |-> Idle]
  /\ since = [m \in Messages |-> {}]

-----------------------------------------------------------------------------
(* The rows                                                                 *)

With(status) == {m \in Messages : inbox[m].status = status}

First(m, S) == m \in S /\ \A n \in S : m <= n

(* The message has the next attempt, under a lease of so many ticks.        *)
Claimed(row, ticks) ==
  [row EXCEPT !.status = "processing", !.attempts = @ + 1, !.token = row.attempts + 1,
              !.left = ticks]

(* pending again, or failed with the last attempt.                          *)
Returned(row, token) ==
  [row EXCEPT !.status = IF row.attempts < MaxAttempts THEN "pending" ELSE "failed",
              !.left = 0, !.token = token]

(* The lease is m's, and was not over a lag ago.                            *)
Leased(m, token, lag) ==
  inbox[m].status = "processing" /\ inbox[m].token = token /\ inbox[m].left + lag > 0

(* enqueue_channel_message, which finds the binding and reads the clock...  *)
Receive(m) ==
  /\ bound /\ inbox[m].status = "absent"
  /\ inbox' = [inbox EXCEPT ![m].status = "arriving"]
  /\ UNCHANGED <<bound, replies, desktop, calls, pass>>

(* ...and awaits the batch of append_conversation_message.  An event that   *)
(* comes again finds its row and changes nothing; a batch may never run.    *)
Insert(m) ==
  /\ inbox[m].status = "arriving"
  /\ inbox' = [inbox EXCEPT ![m].status = "pending"]
  /\ UNCHANGED <<bound, replies, desktop, calls, pass>>

(* unlink_channel, and linking the same chat again.                         *)
Unlink == bound /\ bound' = FALSE /\ UNCHANGED <<inbox, replies, desktop, calls, pass>>

Relink == ~bound /\ bound' = TRUE /\ UNCHANGED <<inbox, replies, desktop, calls, pass>>

-----------------------------------------------------------------------------
(* complete_inbox_done: a read under the now of the call, and a batch under *)
(* the same now some time later                                             *)

Slip_Reply(m, token, lag) ==
  IF inbox[m].status = "processing" /\ inbox[m].left + lag > 0 /\ bound
  THEN /\ inbox' = [inbox EXCEPT ![m].status = "done", ![m].left = 0]
       /\ replies' = replies \cup {<<m, token>>}
  ELSE UNCHANGED <<inbox, replies>>

(* The batch: a delivery, a message of the conversation, and done; or none  *)
(* of them.                                                                 *)
Reply(m, token, lag) ==
  IF Leased(m, token, lag) /\ bound
  THEN /\ inbox' = [inbox EXCEPT ![m].status = "done", ![m].left = 0]
       /\ replies' = replies \cup {<<m, inbox[m].attempts>>}
  ELSE UNCHANGED <<inbox, replies>>

Answered(m, token) == inbox[m].status = "done" /\ inbox[m].token = token

-----------------------------------------------------------------------------
(* A desktop                                                                *)

Slip_Reaped == inbox

(* The first statement of a claim gives up what ran out of attempts.        *)
Reaped ==
  [m \in Messages |->
     IF /\ inbox[m].status = "processing"
        /\ inbox[m].left <= 0 /\ inbox[m].attempts >= MaxAttempts
     THEN [inbox[m] EXCEPT !.status = "failed", !.left = 0, !.token = NoToken]
     ELSE inbox[m]]

Unsettled == {m \in Messages : Reaped[m].status \in {"pending", "processing"}}

Slip_Claimable(m) ==
  /\ m \in Unsettled /\ Reaped[m].attempts < MaxAttempts
  /\ Reaped[m].status = "pending" \/ Reaped[m].left <= 0

(* The second one takes the head, if nobody holds it.                       *)
Claimable(m) ==
  /\ First(m, Unsettled) /\ Reaped[m].attempts < MaxAttempts
  /\ Reaped[m].status = "pending" \/ Reaped[m].left <= 0

(* The answer may be lost, or come to a controller that has moved on.       *)
ClaimHead(d) ==
  /\ desktop[d].at = "away"
  /\ \E m \in Messages :
       /\ Claimable(m)
       /\ inbox' = [Reaped EXCEPT ![m] = Claimed(@, Lease)]
       /\ desktop' \in
            {desktop,
             [desktop EXCEPT ![d] = [Away EXCEPT !.at = "working", !.item = m,
                                                 !.token = inbox[m].attempts + 1]]}
  /\ UNCHANGED <<bound, replies, calls, pass>>

ClaimNothing(d) ==
  /\ desktop[d].at = "away"
  /\ ~\E m \in Messages : Claimable(m)
  /\ inbox' = Reaped
  /\ UNCHANGED <<bound, replies, desktop, calls, pass>>

(* An event of the native hub gives the outcome.  While a completion has    *)
(* not succeeded another event may come with the other one, so both may be  *)
(* sent from here on.                                                       *)
HubAnswers(d) ==
  /\ desktop[d].at = "working"
  /\ desktop' = [desktop EXCEPT ![d].at = "finishing"]
  /\ UNCHANGED <<inbox, bound, replies, calls, pass>>

(* complete: done.  What was done already under this token is answered      *)
(* again; else the call goes on to its batch.  One at a time (completing).  *)
SendDone(d) ==
  LET m == desktop[d].item
      t == desktop[d].token
  IN /\ desktop[d].at = "finishing"
     /\ \/ /\ Answered(m, t)
           /\ desktop' = [desktop EXCEPT ![d] = Away]
           /\ UNCHANGED calls
        \/ /\ Leased(m, t, 0)
           /\ ~\E c \in calls : c[1] = m /\ c[2] = t
           /\ calls' = calls \cup {<<m, t, 0>>}
           /\ UNCHANGED desktop
     /\ UNCHANGED <<inbox, bound, replies, pass>>

(* The batch, and its answer to whoever still waits for it.                 *)
CallEnds(c) ==
  /\ Reply(c[1], c[2], c[3])
  /\ calls' = calls \ {c}
  /\ desktop' \in
       {desktop,
        [d \in Desktops |->
           IF /\ desktop[d].at = "finishing"
              /\ desktop[d].item = c[1] /\ desktop[d].token = c[2]
              /\ inbox'[c[1]].status = "done"
           THEN Away ELSE desktop[d]]}
  /\ UNCHANGED <<bound, pass>>

(* complete: retry.  The row keeps the token, by which a retry that comes   *)
(* again is answered again.                                                 *)
SendRetry(d) ==
  LET m == desktop[d].item
      t == desktop[d].token
  IN /\ desktop[d].at = "finishing"
     /\ \/ Leased(m, t, 0) /\ inbox' = [inbox EXCEPT ![m] = Returned(@, t)]
        \/ inbox[m].status \in {"pending", "failed"} /\ inbox[m].token = t /\ UNCHANGED inbox
     /\ desktop' \in {desktop, [desktop EXCEPT ![d] = Away]}
     /\ UNCHANGED <<bound, replies, calls, pass>>

(* After a failure the client tries again until its lease is over.  It is   *)
(* no longer when the row has left it.                                      *)
LetGo(d) ==
  /\ desktop[d].at = "finishing" /\ ~Leased(desktop[d].item, desktop[d].token, 0)
  /\ desktop' = [desktop EXCEPT ![d] = Away]
  /\ UNCHANGED <<inbox, bound, replies, calls, pass>>

(* fence, dispose, or the end of the app.                                   *)
Fence(d) ==
  /\ desktop[d].at \in {"working", "finishing"}
  /\ desktop' = [desktop EXCEPT ![d] = Away]
  /\ UNCHANGED <<inbox, bound, replies, calls, pass>>

-----------------------------------------------------------------------------
(* A cron pass                                                              *)

Stale == {m \in With("pending") : inbox[m].attempts < MaxAttempts /\ inbox[m].age = ClaimDelay}

(* The oldest ItemsPerRun of them, under the now of the pass.               *)
PassStarts(p) ==
  /\ pass[p].at = "idle"
  /\ Stale # {}
  /\ pass' = [pass EXCEPT ![p] =
       [Idle EXCEPT !.at = "claiming",
                    !.queue = {m \in Stale : Cardinality({n \in Stale : n < m}) < ItemsPerRun}]]
  /\ UNCHANGED <<inbox, bound, replies, desktop, calls>>

(* To the next item of the listing.                                         *)
Onward(p, queue) ==
  [pass EXCEPT ![p] =
     IF queue = {} THEN Idle
     ELSE [Idle EXCEPT !.at = "claiming", !.queue = queue, !.lag = pass[p].lag]]

AtLeast(n, floor) == IF n < floor THEN floor ELSE n

(* The lease runs from the now of the pass, however long ago that is.       *)
PassClaims(p) ==
  /\ pass[p].at = "claiming"
  /\ \E m \in pass[p].queue :
       /\ First(m, pass[p].queue)
       /\ inbox[m].status = "pending" /\ inbox[m].attempts < MaxAttempts
       /\ inbox' = [inbox EXCEPT ![m] = Claimed(@, FallbackLease - pass[p].lag)]
       /\ pass' = [pass EXCEPT ![p].at = "working", ![p].item = m,
                     ![p].queue = @ \ {m}, ![p].token = inbox[m].attempts + 1]
  /\ UNCHANGED <<bound, replies, desktop, calls>>

PassSkips(p) ==
  /\ pass[p].at = "claiming"
  /\ \E m \in pass[p].queue :
       /\ First(m, pass[p].queue)
       /\ ~(inbox[m].status = "pending" /\ inbox[m].attempts < MaxAttempts)
       /\ pass' = Onward(p, pass[p].queue \ {m})
  /\ UNCHANGED <<inbox, bound, replies, desktop, calls>>

Slip_Released(m, token) == inbox' = [inbox EXCEPT ![m] = Returned(@, NoToken)]

(* release_for_retry: by token alone, whatever became of the lease.         *)
Released(m, token) ==
  IF inbox[m].status = "processing" /\ inbox[m].token = token
  THEN inbox' = [inbox EXCEPT ![m] = Returned(@, NoToken)]
  ELSE UNCHANGED inbox

(* The completion is unavailable and there are attempts left.               *)
PassGivesBack(p) ==
  /\ pass[p].at = "working" /\ pass[p].token < MaxAttempts
  /\ Released(pass[p].item, pass[p].token)
  /\ pass' = Onward(p, pass[p].queue)
  /\ UNCHANGED <<bound, replies, desktop, calls>>

(* There is a reply, from the model or the acknowledgement; complete_inbox_ *)
(* done reads the row under a now of its own.                               *)
PassReads(p) ==
  /\ pass[p].at = "working"
  /\ \/ /\ Leased(pass[p].item, pass[p].token, 0)
        /\ pass' = [pass EXCEPT ![p].at = "replying"]
        /\ UNCHANGED inbox
     \/ /\ ~Leased(pass[p].item, pass[p].token, 0)
        /\ Released(pass[p].item, pass[p].token)
        /\ pass' = Onward(p, pass[p].queue)
  /\ UNCHANGED <<bound, replies, desktop, calls>>

PassReplies(p) ==
  LET m == pass[p].item
      t == pass[p].token
  IN /\ pass[p].at = "replying"
     /\ Leased(m, t, pass[p].read) /\ bound
     /\ Reply(m, t, pass[p].read)
     /\ pass' = Onward(p, pass[p].queue)
     /\ UNCHANGED <<bound, desktop, calls>>

PassFails(p) ==
  LET m == pass[p].item
      t == pass[p].token
  IN /\ pass[p].at = "replying"
     /\ ~(Leased(m, t, pass[p].read) /\ bound)
     /\ Released(m, t)
     /\ pass' = Onward(p, pass[p].queue)
     /\ UNCHANGED <<bound, replies, desktop, calls>>

PassDies(p) ==
  /\ pass[p].at # "idle"
  /\ pass' = [pass EXCEPT ![p] = Idle]
  /\ UNCHANGED <<inbox, bound, replies, desktop, calls>>

-----------------------------------------------------------------------------

(* One tick.  A completion is over within CallTime ticks.                   *)
Tick ==
  /\ \A c \in calls : c[3] < CallTime
  /\ \A p \in Passes : pass[p].at = "replying" => pass[p].read < CallTime
  /\ inbox' = [m \in Messages |->
                 [inbox[m] EXCEPT
                    !.left = IF inbox[m].status = "processing" THEN AtLeast(@ - 1, -CallTime) ELSE @,
                    !.age = IF inbox[m].status = "absent" \/ @ = ClaimDelay THEN @ ELSE @ + 1]]
  /\ calls' = {<<c[1], c[2], c[3] + 1>> : c \in calls}
  /\ pass' = [p \in Passes |->
                [pass[p] EXCEPT
                   !.lag = IF pass[p].at = "idle" \/ @ = FallbackLease + CallTime THEN @ ELSE @ + 1,
                   !.read = IF pass[p].at = "replying" THEN @ + 1 ELSE @]]
  /\ UNCHANGED <<bound, replies, desktop>>

Environment == Unlink \/ Relink \/ \E m \in Messages : Receive(m) \/ Insert(m)

(* What a desktop does of itself: it polls again and again, its hub         *)
(* answers, and it lets go of a lease that is over.                         *)
DesktopLives(d) ==
  ClaimHead(d) \/ ClaimNothing(d) \/ HubAnswers(d) \/ LetGo(d)

DesktopStep(d) ==
  DesktopLives(d) \/ SendDone(d) \/ SendRetry(d) \/ Fence(d)

PassStep(p) ==
  \/ PassStarts(p) \/ PassClaims(p) \/ PassSkips(p) \/ PassGivesBack(p)
  \/ PassReads(p) \/ PassReplies(p) \/ PassFails(p)

Step ==
  \/ Environment \/ Tick
  \/ \E d \in Desktops : DesktopStep(d)
  \/ \E p \in Passes : PassStep(p) \/ PassDies(p)
  \/ \E c \in calls : CallEnds(c)

Inserted == {m \in Messages : inbox[m].status = "arriving" /\ inbox'[m].status = "pending"}

Next ==
  /\ Step
  /\ since' = [m \in Messages |->
                 IF inbox'[m].attempts > inbox[m].attempts THEN {}
                 ELSE since[m] \cup {n \in Inserted : n < m}]

(* Time passes, calls end, the cron comes round, and desktops live.         *)
Spec ==
  /\ Init /\ [][Next]_vars
  /\ WF_steps(Tick)
  /\ WF_steps(\E c \in calls : c[3] = CallTime /\ CallEnds(c))
  /\ \A p \in Passes : WF_steps(PassStep(p))
  /\ \A d \in Desktops : WF_steps(DesktopLives(d))

-----------------------------------------------------------------------------

TypeOK ==
  /\ inbox \in [Messages -> Row]
  /\ bound \in BOOLEAN
  /\ replies \subseteq Messages \X (1..MaxAttempts)
  /\ desktop \in [Desktops ->
       [at : {"away", "working", "finishing"}, item : Messages \cup {0},
        token : Tokens]]
  /\ calls \subseteq Messages \X (1..MaxAttempts) \X (0..CallTime)
  /\ pass \in [Passes ->
       [at : {"idle", "claiming", "working", "replying"}, queue : SUBSET Messages,
        item : Messages \cup {0}, token : Tokens, lag : Nat, read : Nat]]
  /\ since \in [Messages -> SUBSET Messages]

Fate(status) ==
  CASE status \in {"absent", "arriving"} -> "absent"
    [] status = "done"   -> "answered"
    [] status = "failed" -> "given up"
    [] status \in {"pending", "processing"} -> "waiting"

AnswersTo(m) == {a \in 1..MaxAttempts : <<m, a>> \in replies}

Promise ==
  INSTANCE ReplyOnce WITH
    Answers <- 1..MaxAttempts,
    fate <- [m \in Messages |-> Fate(inbox[m].status)],
    answers <- [m \in Messages |-> AnswersTo(m)]

(* Every message is answered once, or given up, and nothing happens to it   *)
(* afterwards: not by a desktop that comes late with an old lease, not by a *)
(* call that outlives its claim, not by two passes at once.                 *)
AnsweredOnce == Promise!Spec

(* What is answered is answered by the claimant of its last attempt.        *)
LastClaimantAnswers ==
  \A r \in replies : inbox[r[1]].status = "done" /\ inbox[r[1]].attempts = r[2]

Holding(d) ==
  /\ desktop[d].at \in {"working", "finishing"}
  /\ Leased(desktop[d].item, desktop[d].token, 0)

(* The messages before m that a claim can take or find taken, apart from    *)
(* those whose row appeared only after m was claimed.                       *)
Overtaken(m) ==
  {n \in Messages : n < m /\ inbox[n].status \in {"pending", "processing"}} \ since[m]

(* Desktops take turns: however their claims, late calls and lost leases    *)
(* interleave with the passes and with rows that come late, no two hold a   *)
(* running lease on one message, and none holds a message while an earlier  *)
(* one waits that was there when it was claimed.                            *)
DesktopsTakeTurns ==
  \A d \in Desktops : Holding(d) =>
    /\ \A e \in Desktops \ {d} : Holding(e) => desktop[e].item # desktop[d].item
    /\ Overtaken(desktop[d].item) = {}

(* Whatever came is answered or given up in the end, if a desktop polls now *)
(* and then: nothing is left waiting behind a lease that somebody lost.     *)
InboxEmpties == []<>(With("pending") \cup With("processing") = {})
=============================================================================
