--------------------------- MODULE ChannelDelivery ---------------------------
(***************************************************************************)
(* The deliveries to one chat (table channel_deliveries), from the post to *)
(* the provider (worker-rs/src/routes_channels.rs and delivery.rs).  Every *)
(* call of deliver_channel_message claims one delivery under a lease, sends*)
(* it and settles it under the claim's token.  Calls come from the route   *)
(* that posted it and from the cron (deliver_due_channel_messages); they   *)
(* overlap: the DeliveryCoordinator they go through awaits the provider,   *)
(* and holds no lock meanwhile.                                            *)
(*                                                                         *)
(* Abstractions: deliveries are numbered by rowid.  A claim's fresh token  *)
(* is the number of the attempt it counts.  Times are relative to now.     *)
(***************************************************************************)
EXTENDS Integers, Sequences

CONSTANTS
  Deliveries,    \* 1..n, by rowid
  MaxSends,      \* MAX_ATTEMPTS
  SendLease,     \* LEASE_MS, in ticks
  Backoff,       \* bound: the longest delay of retry_delay
  Ambiguous,     \* the channel is Telegram, whose sends have no key
  MaxLag,        \* bound: how old the now of a call is when it claims
  Deaths         \* the attempts at which the sender may die

ASSUME DeliveryAssumption ==
  /\ Deliveries \subseteq Nat
  /\ MaxSends \in Nat \ {0} /\ SendLease \in Nat \ {0} /\ Backoff \in Nat \ {0}
  /\ Ambiguous \in BOOLEAN
  /\ MaxLag \in Nat
  /\ Deaths \subseteq 1..MaxSends

VARIABLES
  rows,       \* the table
  linked,     \* the chat has a binding that is not revoked
  posting,    \* a post has read the binding, and is about to insert its row
  senders,    \* the calls that claimed, and what their requests came to
  arrivals    \* the deliveries, in the order they first came to the provider

deliveryVars == <<rows, linked, posting, senders, arrivals>>

Open == {"pending", "retry", "delivering"}
Final == {"sent", "failed", "unknown", "cancelled"}

Delivery == [state : {"absent"} \cup Open \cup Final, attempts : 0..MaxSends,
        due : Int, left : Int, token : 0..MaxSends]

NotPosted == [state |-> "absent", attempts |-> 0, due |-> 0, left |-> 0, token |-> 0]

Oldest == SendLease + MaxLag + Backoff + 1

Sender == [item : Deliveries, token : 1..MaxSends, lag : 0..Oldest,
           received : BOOLEAN, alive : BOOLEAN]

DeliveryInit ==
  /\ rows = [d \in Deliveries |-> NotPosted]
  /\ linked = TRUE
  /\ posting = FALSE
  /\ senders = {}
  /\ arrivals = <<>>

-----------------------------------------------------------------------------
(* Posting and linking                                                      *)

In(states) == {d \in Deliveries : rows[d].state \in states}

(* handle_channel_message_post reads the binding first ...                  *)
BeginPost == linked /\ ~posting /\ posting' = TRUE /\ UNCHANGED <<rows, linked, senders, arrivals>>

(* ... and inserts afterwards, whatever became of it.  A key that comes     *)
(* again finds its row, and leads to another call that may claim it.        *)
Post(d) ==
  /\ posting /\ d \in In({"absent"}) /\ \A e \in In({"absent"}) : d <= e
  /\ rows' = [rows EXCEPT ![d].state = "pending"]
  /\ posting' = FALSE
  /\ UNCHANGED <<linked, senders, arrivals>>

Cancelled ==
  [d \in Deliveries |->
     IF rows[d].state \in {"absent", "sent", "cancelled"} THEN rows[d]
     ELSE [rows[d] EXCEPT !.state = "cancelled", !.left = 0, !.token = 0]]

(* unlink_channel: one batch.                                               *)
UnlinkChat ==
  /\ linked' = FALSE
  /\ rows' = Cancelled
  /\ UNCHANGED <<posting, senders, arrivals>>

RelinkChat == ~linked /\ linked' = TRUE /\ UNCHANGED <<rows, posting, senders, arrivals>>

(* cancel_orphan_deliveries, for what was posted as the link went.          *)
CancelOrphans ==
  /\ ~linked /\ In(Open \cup {"failed", "unknown"}) # {}
  /\ rows' = Cancelled
  /\ UNCHANGED <<linked, posting, senders, arrivals>>

-----------------------------------------------------------------------------
(* One call of deliver_channel_message                                      *)

Slip_Foremost(d) == \A e \in In({"pending", "retry"}) : d <= e

(* Nothing older is still to be sent.                                       *)
Foremost(d) == \A e \in In(Open) : d <= e

Slip_Ready(d, lag) == rows[d].state \in {"pending", "retry"} /\ rows[d].due <= -lag

Slip_Unleased(d, lag) ==
  rows[d].state \in {"pending", "retry", "delivering"} /\ rows[d].due <= -lag

(* As the call sees it, whose now is a lag ago.                             *)
Ready(d, lag) ==
  \/ rows[d].state \in {"pending", "retry"} /\ rows[d].due <= -lag
  \/ rows[d].state = "delivering" /\ rows[d].left < -lag

Slip_Claim(d, lag) ==
  /\ linked /\ Foremost(d) /\ Ready(d, lag)
  /\ rows' = [rows EXCEPT ![d].state = "delivering", ![d].attempts = @ + 1,
                ![d].left = SendLease - lag, ![d].token = rows[d].attempts + 1]
  /\ senders' = senders \cup
       {[item |-> d, token |-> rows[d].attempts + 1, lag |-> lag,
         received |-> FALSE, alive |-> TRUE]}
  /\ UNCHANGED <<linked, posting, arrivals>>

Claim(d, lag) ==
  /\ linked /\ rows[d].attempts < MaxSends /\ Foremost(d) /\ Ready(d, lag)
  /\ rows' = [rows EXCEPT ![d].state = "delivering", ![d].attempts = @ + 1,
                ![d].left = SendLease - lag, ![d].token = rows[d].attempts + 1]
  /\ senders' = senders \cup
       {[item |-> d, token |-> rows[d].attempts + 1, lag |-> lag,
         received |-> FALSE, alive |-> TRUE]}
  /\ UNCHANGED <<linked, posting, arrivals>>

(* The provider has the message, now or after the call is dead.             *)
Arrive(s) ==
  /\ ~s.received
  /\ senders' = (senders \ {s}) \cup
       IF s.alive THEN {[s EXCEPT !.received = TRUE]} ELSE {}
  /\ arrivals' = IF \E i \in DOMAIN arrivals : arrivals[i] = s.item
                 THEN arrivals ELSE Append(arrivals, s.item)
  /\ UNCHANGED <<rows, linked, posting>>

Within(n) == IF n < -MaxLag THEN -MaxLag ELSE n

Slip_Settle(s, state, delay) ==
  rows' = [rows EXCEPT ![s.item].state = state, ![s.item].left = 0,
             ![s.item].token = 0, ![s.item].due = Within(delay - s.lag)]

(* Every update of the row names the state and the token.  The next attempt *)
(* is due a delay after the now of the call.                                *)
Settle(s, state, delay) ==
  IF rows[s.item].state = "delivering" /\ rows[s.item].token = s.token
  THEN rows' = [rows EXCEPT ![s.item].state = state, ![s.item].left = 0,
                  ![s.item].token = 0, ![s.item].due = Within(delay - s.lag)]
  ELSE UNCHANGED rows

Ends(s) ==
  /\ s.alive
  /\ senders' = senders \ {s}
  /\ UNCHANGED <<linked, posting, arrivals>>

Accepted(s) == s.received /\ Settle(s, "sent", 0) /\ Ends(s)

(* http_outcome of 429 and of 5xx, which the provider may answer of a       *)
(* message it has.                                                          *)
Again(s) == IF s.token < MaxSends THEN "retry" ELSE "failed"

Busy(s) == (\E w \in 1..Backoff : Settle(s, Again(s), w)) /\ Ends(s)

(* Any other answer, or no credentials to ask it with.                      *)
Rejected(s) == ~s.received /\ Settle(s, "failed", 0) /\ Ends(s)

(* network_outcome: nobody knows whether it arrived.                        *)
Unanswered(s) ==
  /\ \E w \in 1..Backoff : Settle(s, IF Ambiguous THEN "unknown" ELSE Again(s), w)
  /\ Ends(s)

(* The object goes down, or the update fails; a request on its way is not   *)
(* called back.                                                             *)
Die(s) ==
  /\ s.alive /\ s.token \in Deaths
  /\ senders' = (senders \ {s}) \cup
       IF s.received THEN {} ELSE {[s EXCEPT !.alive = FALSE]}
  /\ UNCHANGED <<rows, linked, posting, arrivals>>

Vanish(s) ==
  /\ ~s.alive
  /\ senders' = senders \ {s}
  /\ UNCHANGED <<rows, linked, posting, arrivals>>

-----------------------------------------------------------------------------

DeliveryTick ==
  /\ rows' = [d \in Deliveries |->
                [rows[d] EXCEPT
                   !.due = IF rows[d].state \in {"pending", "retry"} THEN Within(@ - 1) ELSE @,
                   !.left = IF rows[d].state # "delivering" \/ @ < -MaxLag THEN @ ELSE @ - 1]]
  /\ senders' = {[s EXCEPT !.lag = IF @ = Oldest THEN @ ELSE @ + 1] : s \in senders}
  /\ UNCHANGED <<linked, posting, arrivals>>

Answer(s) == Accepted(s) \/ Busy(s) \/ Rejected(s) \/ Unanswered(s)

DeliveryNext ==
  \/ UnlinkChat \/ RelinkChat \/ CancelOrphans \/ BeginPost \/ DeliveryTick
  \/ \E d \in Deliveries : Post(d) \/ \E lag \in 0..MaxLag : Claim(d, lag)
  \/ \E s \in senders : Arrive(s) \/ Answer(s) \/ Die(s) \/ Vanish(s)

(* Time passes, posts end, the provider answers or the call dies, and the   *)
(* cron comes round.                                                        *)
DeliverySpec ==
  /\ DeliveryInit /\ [][DeliveryNext]_deliveryVars
  /\ WF_deliveryVars(DeliveryTick)
  /\ WF_deliveryVars(\E d \in Deliveries : Post(d))
  /\ WF_deliveryVars(\E s \in senders : Answer(s) \/ Die(s))
  /\ WF_deliveryVars(CancelOrphans \/ \E d \in Deliveries : Claim(d, 0))

-----------------------------------------------------------------------------

DeliveryTypeOK ==
  /\ rows \in [Deliveries -> Delivery]
  /\ linked \in BOOLEAN /\ posting \in BOOLEAN
  /\ senders \subseteq Sender
  /\ arrivals \in Seq(Deliveries)

Inside(s) == s.alive /\ s.lag <= SendLease /\ rows[s.item].state # "cancelled"

(* Two calls are never inside their leases at once, in the whole chat,      *)
(* however old their nows: the lease and the order of the rows are a lock.  *)
(* Unlinking alone takes it from its holder.                                *)
OneAtATime == \A s, t \in senders : Inside(s) /\ Inside(t) => s = t

(* The chat sees the messages in the order of their posts, repeats apart:   *)
(* one that came after a younger one is never recorded as sent.             *)
ArrivalsInOrder ==
  \A i, j \in DOMAIN arrivals :
    i < j /\ arrivals[j] < arrivals[i] => rows[arrivals[j]].state # "sent"

FateOf(state) ==
  IF state \in {"absent", "sent"} THEN state
  ELSE IF state \in Open THEN "waiting" ELSE "dropped"

OutboxPromise ==
  INSTANCE Outbox WITH fate <- [d \in Deliveries |-> FateOf(rows[d].state)]

(* The rows are an outbox: one is sent when nothing before it waits, and    *)
(* what is settled stays settled, late answers and old tokens included.     *)
SentInTurn == OutboxPromise!Spec

(* No delivery keeps the chat waiting for ever.                             *)
Drains == []<>(In(Open) = {})
=============================================================================
