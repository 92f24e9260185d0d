# Omi: verified models of capture, admission, messages, memory and computer use

This directory holds TLA+ models of Omi, the TLC configurations that check them
and TLAPS proofs about them. It models the paths on which the program must not
lose, repeat or reorder anything: audio from the pendant to a transcript,
admission to the paid models, channel messages in and out, the account's
memory log with its replicas, and the way from an accepted card to an effect on
the user's computer. Source paths are relative to the repository;
`routes_ai.rs` and the like are in `worker-rs/src`, `capture_*.rs` in
`app/native/hub/src`.

## 1. Inventory

| Part | Where | State it keeps | Operations | Model |
|---|---|---|---|---|
| Device audio forwarder | `app/lib/device/device_audio_forwarder.dart`, `hub_capture.dart` | a session per start, its frames, a restart timer | start, stop, accept, drain, finish, recover | `DeviceAudioForwarder` |
| Capture write-ahead log | `capture_wal.rs` | segment files (`.open`, `.seg`), next sequence, open handle | open, begin, append, seal, import of ring ranges, list, read, remove, evict, close | `CaptureWal` |
| Capture service | `capture_service.rs` | the log behind a mutex, the transport, the `draining` flag | one command channel, a minute tick, one pass at a time | commands in `CaptureWal`, pass in `CaptureDrain` |
| WAL uploader, upload transport | `capture_wal_uploader.rs`, `capture_upload.rs` | a listing, the payload in flight, attempts | list, read, package, post, classify, retry, remove | `CaptureDrain` |
| Batch speech endpoint | `routes_public.rs`, `speech.rs`, migration 0027 | a D1 row per request id | reserve, admit, write the row, claim, call, settle, release | `SpeechRequests`, promise in `TranscriptionService` |
| Speech admission ledger | `stt_admission.rs`, `SttAdmissionDo` in `routes_ai.rs` | reservations of the window, one alarm | admit, claim, release, alarm | `SttAdmission`, any clients in `SttClients` |
| Managed STT WebSocket sessions | `routes_ai.rs`, migrations 0010, 0011 | a D1 row per session, a relay | create, connect, claim row and slot, relay, fail, release | `SttStreams` in `SpeechSessions` |
| FaceTime calls | `routes_facetime.rs` | a row, a bridge object per call with an alarm and a container | start, dial, bridge, tear down, settle | `FaceTimeCalls` in `SpeechSessions` |
| Assistant admission, managed AI | `assistant_admission.rs`, `managed_ai.rs`, `routes_ai.rs` | a ledger without claims, a row per request | admit, insert, stream, finalize, settle, mark, sweep | `AssistantAdmission` in `ManagedRequests` |
| Channel inbox | `glue.rs`, `routes_channels.rs`, `inbox_fallback.rs`, `conversation_controller.dart` | a row per message with a lease | receive, claim, complete, retry, reap, fallback pass | `ChannelInbox`, promise in `ReplyOnce` |
| Channel deliveries | `routes_channels.rs`, `delivery.rs`, migration 0007 | a row per delivery with a lease | post, claim, send, settle, drain, unlink, cancel orphans | `ChannelDelivery`, promise in `Outbox` |
| Memory log | `memory_log.rs`, `routes_memory.rs`, `routes_memory/wasm_glue.rs` | the log, staged events, commits, projection and its cursor | stage, append, project, acknowledge | `MemoryLog` in `MemorySync` |
| Memory replicas | `memory_sync.dart`, `memory_mirror.dart`, hub `runtime.rs` | an upload cursor, a mirror cursor, the hub's high water | upload, pull, apply | `MemoryReplicas` in `MemorySync` |
| Cards and their executions | `routes_memory/wasm_glue.rs`, migrations 0012, 0018 | a row per card, one per accepted card with its receipt | feedback, accept, approve, claim, reject, report | `CurrentExecutions` in `ComputerUse` |
| Approvals, computer use | `approval.rs`, `runtime.rs`, `computer_use.rs`, `conversation_controller.dart`, `currents_client.dart` | proposals pending and decided, active commands, generations; the app's requests, handoffs and decisions in flight | propose, decide, claim, execute, cancel, fence, configure | `ProposalRegistry` in `ComputerUse` |
| Capture gap log | `capture_gap_log.rs` | bounded list in one file | record, resume | not modelled |
| Pendant firmware | `firmware/omi/src` | ring offsets | write, read, acknowledge | not modelled |
| Authentication | `auth*.rs`, `session_token.rs`, `oauth.rs` | a row per session | exchange, refresh | not modelled |
| Hub runtime and live voice, rate limits, billing, interface, site | | | | not modelled |

How the parts interact. The phone's forwarder gives every frame to the hub's log
and then to a live stream. The hub takes its commands over one channel, so the log
sees them one after the other. The upload pass is outside that order: it takes
the log's mutex to list it once, then for every read and every removal, so
commands, evictions, re-openings and deaths fall between any two of its steps.
It posts a segment under the segment's id. The endpoint, on its own clock,
reads the row of that id, asks the ledger for a slot, writes the row, claims
the slot, calls the model, settles the row and releases the slot; each of these
is an await on a different store. Live streams and FaceTime calls ask the same
ledger; completions ask a second one. A ledger is one Durable Object, whose
requests do not overlap. A channel message waits in the inbox for a desktop or,
failing that, for the cron, and the answer is a delivery. Devices upload their
local commits to the Worker, which folds them into one log that a mirror pulls
back. The cron sweeps what handlers leave behind. A card the user accepts becomes a
chat turn in the hub, whose proposals come back to the app; what the user decides
goes to the Worker first, which issues a receipt, then to the hub, which claims the
receipt at the Worker before it acts; the app reports the outcome.

What is hard here, and what each part must get right:

- *Forwarder*: every step of a session is between two awaits. A segment must be
  one whole stretch of one session's audio, and a gap must not leave capture lying.
- *Log*: a death, a failed write or a failed rename at any point. Written audio
  must survive and keep its order; eviction must take the oldest and no more
  than it must; a sealed file must not change.
- *Uploader*: it works from a stale listing, with lost and late answers. It
  must not reorder audio, must not remove what is not transcribed, must end,
  and must get everything out in the end.
- *Endpoint*: attempts of one id interleave across three stores and die
  anywhere. One call at a time, no call after completion, no wedged id.
- *Ledgers*: tokens, deadlines, repeated and late messages, a sweep that works
  from old rows. Limits and budgets hold, one grant per token, no slot held for
  nothing, and a row that says it is settled holds none.
- *Streams and calls*: a client may create, connect and dial again. Audio is
  relayed once, a call placed once.
- *Inbox and deliveries*: leases that expire under a working holder, answers
  that come late or twice. A message is answered once; deliveries leave in order.
- *Memory*: overlapping requests of one device, projections that overtake each
  other. Nothing acknowledged is lost, the projection is a replay of the log,
  what is deleted stays deleted, a mirror skips nothing.
- *Computer use*: three processes, two of them with tables of what was decided, and
  every call between them may be lost, late or cancelled. One acceptance has at most
  one effect, the record says no more than happened, and what is approved is settled.

`PROJECT.json` lists the hazards, each at its line with the properties about it.
It keeps those that a property is about; section 6 names the others.

## 2. Modules

| Module | Role |
|---|---|
| `DeviceAudioForwarder` | sessions of the phone's forwarder |
| `CaptureWal` | the log and the commands of the service, with failures and deaths |
| `CaptureDrain` | extends `CaptureWal` with the pass and the endpoint it talks to |
| `TranscriptionService` | abstract: what the endpoint promises about one request id |
| `SttAdmission` | the speech ledger's operations, extended by its clients |
| `SttClients` | `SttAdmission` with arbitrary clients |
| `SpeechRequests` | `SttAdmission` with the endpoint's operation as its client; implements `TranscriptionService` |
| `SttStreams`, `FaceTimeCalls` | `SttAdmission` with the two other clients |
| `SpeechSessions` | both of them over one ledger; implements `SingleUse` twice |
| `SingleUse` | abstract: an id is taken once, used once at most, and stays over |
| `AssistantAdmission` | the assistant's ledger |
| `ManagedRequests` | its handlers and the cron's sweep |
| `ChannelInbox` | the inbox with desktops and passes; implements `ReplyOnce` |
| `ReplyOnce` | abstract: a message is answered once or given up, and final then |
| `ChannelDelivery` | the deliveries of one chat; implements `Outbox` |
| `Outbox` | abstract: posted in order, sent in order or dropped, and final then |
| `MemoryLog`, `MemoryReplicas` | the Worker's side and the devices' side of memory sync |
| `MemorySync` | both of them composed |
| `CurrentExecutions` | the Worker's cards and executions, a request being one batch |
| `ProposalRegistry` | operators on the hub's registry of proposals |
| `ComputerUse` | app, hub and Worker from an accepted card to a reported outcome |
| `Capture_proofs` | theorems about `CaptureWal`, `CaptureDrain` and `DeviceAudioForwarder` |
| `SpeechAdmission_proofs` | theorems about `SttClients` and `SpeechRequests` |
| `Channels_proofs` | theorems about `ChannelInbox` and `ChannelDelivery` |
| `FoldLemmas` | least and greatest naturals, folds and sums, for the proofs |
| other `*_proofs` | theorems about the module of that name |
| `MC*` | instances for TLC |

The refinement mappings are at the properties `PromiseKept`, `RelayedOnce`,
`PlacedOnce`, `AnsweredOnce` and `SentInTurn`. Operators named `Slip_X` are slips a
programmer could make in `X`; no specification uses them. Each shows that a
property would notice.

### DeviceAudioForwarder

One Dart event loop runs it, so a step is the code between two awaits. `call[g]`
is the `start()` of generation `g`: waiting for the session before it, for the
transcription stream, for the hub's new segment, or for the end of the session it
gave up. `sessions[g]` is its `_AudioSession`; the phases are the places in
`_finish`. The hub takes commands in the order they are sent, so a command does
its work where it is sent, and the step after its await is always free, as every
await on the hub has a timeout.

| Action | Code |
|---|---|
| `UserStarts`, `UserStops`, `TimerFires` | `start()` and `stop()` to their first await; the restart timer |
| `Ready`, `Refused`, `Started`, `SegmentBegun`, `Throws` | the rest of `start()`, one step per await |
| `Accept`, `Reject`, `FrameLost` | `_accept`: a frame that follows the last, any other (`_fail`), one that reaches nobody |
| `LinkDrops`, `LinkReturns`, `GraceOver` | the connection's listener and `reconnectGrace` |
| `SourceFails`, `SourceEnds` | `onError` and `onDone` of the subscriptions |
| `Takes`, `Appends` | `_drain`, around its await |
| `Drained`, `Stopped`, `Over` | `_finish`: end of stream or stop, seal, and `_recover` |

### CaptureWal

A directory is the sets `sealed`, `open` (at most one file, behind the handle)
and `orphans` (`.open` files nobody holds). A file has its sequence, id, start
time, frames and whether its header line was written. The frames are named by
their origin (`LiveFrame`, `RingFrame`), so a property can say where a frame
went; `Torn` is what a write leaves that stopped inside a frame, and
`Recovered` is what `unframe` reads of a payload.

| Action | Code |
|---|---|
| `Open`, `OpenFails` | `CaptureService::open` with `CaptureWal::open`: close, scan, seal what was left open, evict |
| `BeginSegment`, `BeginFails` | `begin_segment_with_id` |
| `AppendLive`, `AppendUnheld`, `AppendFails` | `append`: with the seal and the eviction at the cap; without an open segment; with a failing write |
| `Seal`, `Close`, `SealFails` | `seal`, `close`, and `seal_open` failing under any of its callers |
| `ImportRange`, `ImportFails` | `import_opus_range`; an import of a range that is pending changes nothing and is no action |
| `RemoveSegment` | `remove` |
| `Crash`, `CrashInBegin`, `CrashInImport` | the process dies between commands, in a begin, in an import |

Actions that evict do so in the same step, as the code does: `Evict` is the
whole of `evict`, age and size, and leaves unreadable files alone because
`sealed_segments` does not list them.

History: `owed` is the live frames that an append wrote and that were neither
evicted nor removed. `session` is the client's rule that it appends between a
begun segment and its seal, which `DeviceAudioForwarder` keeps
(`SegmentsHaveTheirSession`, proved).

### CaptureDrain

`pass` is where `drain` is; `idle` is `draining = false`. `queue` is the listing
taken at the start, `payload` the audio read for its head. `status` and
`stored` are the endpoint as `TranscriptionService` promises it, which may
complete or fail a request after the phone has given up. Its request hash
compares lengths, as `plan_transcription` hashes the length of the audio and
not the audio.

### SttAdmission and SttClients

Times are relative: a slot has an age and the time left to its claim deadline,
and the alarm is the time left until it is due. `Live` is `retain` at the top
of `admit`; every operation ends in `Save`, which is `save_and_schedule`.
`SttClients` lets clients know `<<session, token>>` pairs, claim and release in
any order and more than once, lose answers and vanish: more than the callers in
`routes_ai.rs`, `routes_public.rs` and `routes_facetime.rs` do. A token may be
released while work under it goes on, as `fail_and_release_stt` does for a second
socket of a session and `reserve_speech` for the holder of a stale row; the history
`outlived` has the tokens of such work.

### SpeechRequests

One attempt is one run of `transcribe_audio_operation`; every await is a step.
`same` says whether the row is still the one the attempt read (the
`updated_at = ?11` of the upsert), `reclaims` is `Fresh { reclaims }`. A read
that ends in a replay or a refusal changes nothing and is no action. An attempt
may take any time. `late` is history: the ids of which an attempt was still at work
when the row it had written turned stale. `TranscriptionService` promises nothing
of these from that tick on (`Lapse`), and of every other id all it promises.

### SttStreams, FaceTimeCalls, SpeechSessions

A handler of a stream writes its row, checks it, claims row and slot, relays,
and releases (`Creates`, `Writes`, `Connects`, `ClaimsRow`, `ClaimsSlot`,
`RelayEnds`, `Leaves`; the ways out are `TurnedAway`, `Rejected`, `Outrun`,
`SlotDenied`, `Fails`, `Dies`). A post to the ledger or an update of the row may
take effect and its answer be lost. A dialer of a call admits, inserts its row,
dials and starts the bridge, whose object then answers, fails, is stopped, is
woken by its alarm or sees its container exit, and settles; the cron may sweep
the row in between (`Swept`). Tokens are fresh: `Fresh` draws one that was never used.
`relayed` and `placed` are history.

### AssistantAdmission and ManagedRequests

A handler admits, inserts its row, asks the model, streams, finalizes the row,
settles in the ledger and marks the row settled; recordings and voice tokens
take no reservation (`Called`). A sweep's entry is one row it read as stale or
unsettled, with the usage it read (`SweepReads`), which it finalizes, settles
and marks, each in a call of its own that may come to nothing. The usage is any of
`Usages`, more or less than the estimate, since `settle` records what it is given.
`reserved`, `spent` and `told` are history: what a request reserved, what the
upstream used for it, and whose usage the ledger was told.

### ChannelInbox

Messages are numbered as a claim orders them, by `received_at` and id.
`enqueue_channel_message` stamps a message (`Receive`, "arriving") before it awaits
the batch that inserts the row (`Insert`, "pending"), so rows appear in any order;
the history `since` has the earlier messages that came to the table after a message
was last claimed. A claim's token is the number of the attempt it counts. `desktop` is one
installation with its one active item, `pass` one run of
`respond_to_stale_inbox_items` with its listing and the age of its clock (`lag`),
`calls` the completions that have read the row (`SendDone`) and have not run
their batch (`CallEnds`, which is `Reply` and the answer to whoever still waits).
`Reaped` is the first statement of `handle_inbox_claim`, `ClaimHead` the second.

### ChannelDelivery

`senders` are calls of `deliver_channel_message` that claimed a row and await the
provider, with the age of their lease and whether the request arrived (`Arrive`).
`Claim(d, lag)` is `CLAIM_SQL` under a clock that is `lag` ticks old, as the drain
reads one clock for up to 25 rows. `Accepted`, `Busy`, `Rejected` and
`Unanswered` are the outcomes; each is written only under the claim's token.
`arrivals` is the order in which deliveries first came to the provider.

### MemoryLog, MemoryReplicas, MemorySync

Every database call of `handle_zkr_sync` is a step: `Ensures` (the projection at the
start of a request), `Stages`, `Checks` and `Appends` of
each complete commit, `ReadsCursor`, `ReadsRows`, `Folds`, `Views`, `Saves` of
the projection, `Marks`. Two handlers run side by side. A device waits for one request and may give it up
and send it again while it runs. The mirror fetches a page, has the hub apply
it, and saves its cursor; the hub compares with a high water it loses at a
restart.

### CurrentExecutions, ProposalRegistry, ComputerUse

App and hub are one process with a queue each way (`commands`, `events`); the
Worker's rows live on when it dies. `call[d]` is where one call of `decide()`
is and what the Worker answered it: it awaits `approve`, `reject` or the report of a
withdrawal (`Decide`, `ServeCall`, `FailCall`), and goes on by `Dispatch`,
`DispatchReject`, `Withdraw`, or into its `catch` (`GiveUp`, `FailDecide`), whatever
was cancelled or fenced meanwhile. `posts` are the reports nobody awaits.

| Action | Code |
|---|---|
| `Accept`, `Chat`, `CancelChat`, `CancelDecision`, `Fence`, `SendConfiguration` | the user: `handoff`, `send`, `cancel`, and `fence` with the next session's `configureMemory` |
| `TakeProposal`, `TakeTurnEnd`, `TakeAck`, `TakeDecisionEnd` | `_acceptEvent` |
| `TakeMessage`, `TakeDecision`, `TakeCancel`, `TakeConfigure`, `ConfigureAssistant` | one turn of `CommandDispatcher::run` |
| `Propose`, `TurnStops` | a provider's tool call, and the end of the turn |
| `DecisionCancelled`, `DecisionRefused`, `DecisionRejected`, `DecisionApproved` | `decide_approval` under the state's lock |
| `ServeClaim`, `ClaimGranted`, `ClaimFailed` | the claim, at the Worker and at the hub |
| `Perform`, `EngineStops` | the engine: the effect, and what it says of it |
| `RowStep`, `ProposalOverdue`, `Crash` | time, settings, and the death of the process |

`generations` keeps apart what the code keeps apart: the loop counts a new
configuration before it tries to activate it, the state after. `performed` and
`dropped` are history: the effects that took place, and the decisions the app
forgot before the hub answered or whose report was lost.

## 3. Runs

| Run | Shows | States | Time |
|---|---|---|---|
| `CaptureWal` | order of names, survival of written audio, immutability of sealed files, eviction order and bounds, over all interleavings with deaths and failing file operations | 521k | 160 s |
| `CaptureDrain` | live audio reaches the endpoint in order; what is removed as uploaded is transcribed; passes end; the log drains | 145k | 120 s |
| `SttClients` | limits of whoever works under a token that was not released, budgets, single grants; an unclaimed slot is freed | 233k | 115 s |
| `SpeechRequests` | the endpoint implements `TranscriptionService` (whose promise lapses for an id with late work), beside a slot an earlier request left behind; a dead attempt does not wedge its id | 86k | 145 s |
| `ChannelInbox` | a message is answered once, by its last claimant; desktops take turns; the inbox empties | 662k | 140 s |
| `ChannelDelivery` | one send at a time, arrivals in order, an outbox, nothing open for ever | 188k | 40 s |
| `ManagedRequests` | limits, and budgets that overruns may exceed but not evade, with a sweep that works from old rows; every row is settled | 2.57M | 200 s |
| `SpeechSessions` | a stream is relayed once, a call placed once, a claimed slot has its row | 567k | 115 s |
| `MemorySync` | the projection replays the log, deletions stay, acknowledged events are kept, the mirror skips nothing and catches up | 769k | 110 s |
| `DeviceAudioForwarder` | a segment is one whole stretch of a session, marked after a gap; a gap is recovered from | 494k | 50 s |
| `ComputerUse` | a card has one effect at most, the record tells the truth, what is settled stays, what is dispatched is settled | 382k | 80 s |
| `MemorySyncReplay` | *violation*: a repeated upload puts an earlier revision behind a later one | | |

Times are with two workers. No run lists a type invariant that is proved.

### Bounds

- `CaptureWal`: three sequences, two live segments and frames, one ring range
  of two frames, two ticks, files and directory of two frames, an age bound of
  one tick, every failure allowed. That is enough for a full segment next to a
  short one, for eviction by age and by size together, for a re-opening after a
  death with files in all three states, for a frame appended behind a torn one,
  and for a range that is evicted and imported again.
- `CaptureDrain`: three sequences, two live segments, one range, two attempts
  in a pass: a queue with something behind the head, a retry and a give-up. Time
  stands still (`MaxNow = 0`), so eviction is by size; eviction by age is the
  business of `CaptureWal`. Storage works (`Faults = FALSE`), every segment has words.
- `SttClients`: two sessions of one account and one of another, three tokens, a
  window of three ticks and a deadline of two, so that a deadline may lie in a
  later window than the admission and budgets may free one session at a time.
- `SpeechRequests`: one id, two attempts, which may reclaim one stale row that
  an earlier, dead one left together with its slot; two tokens, as many as can
  be in use; a claim deadline of one tick under a stale window of two, so that a
  slot is lost to the alarm within one attempt's life. Ids that compete for
  capacity are the theorem's business, which has any number of them.
- `ChannelInbox`: two messages, so that one waits behind another or its row appears
  behind a claim of the other; two desktops
  and one pass, three claimants of different kinds; two attempts; leases of two
  ticks and one, and a completion that takes up to one (`CallTime`), so that a
  lease ends between its two calls.
- `ChannelDelivery`: two deliveries, two attempts, a lease of one tick claimed
  under a clock up to one tick old. `Deaths = EarlyDeaths`: a call dies in any
  attempt but the last (section 5). The channel repeats sends (`Ambiguous = FALSE`); the
  proofs cover Telegram's too.
- `ManagedRequests`: two requests of one account that compete for one slot, with
  estimates of 1 and 2, usages of 0 and 3 and a budget of 2: two small ones fit one
  after the other, and one that overran leaves no room for another. A
  window of two ticks, a stale age of one, one sweep's entry at a time and one
  post or update of it that comes to nothing.
- `SpeechSessions`: one stream and one call of one account with one slot, three
  handlers (a create, and two connections), one dialer, two tokens.
- `MemorySync`: a phone with a source and its deletion in one commit, a Mac with
  another source; two handlers; pages of two; one fault. `MemorySyncReplay` has two
  revisions of one source in two commits.
- `DeviceAudioForwarder`: three acts of the user, four frames, room for two
  pending, one restart in a row: a start that overtakes a start, a full buffer, a gap
  followed by a restart that runs into another gap.

Handlers and tokens are interchangeable and are declared symmetric in
`SpeechSessions`, which checks no liveness.

- `ComputerUse`: one card and a chat of the user's own, which may propose as well;
  two proposals and two decisions, so that both of a card's proposals are decided,
  or one of them twice; a table of two pending and one decided, so that a decision
  finds its proposal forgotten; two departures from the straight course
  (`MaxExtras`): a cancel and a lost answer, say, or a second proposal and a deadline.

### Fairness

- `CaptureDrain`, `LivingSpec`: weak fairness of the pass's steps and of the
  start of a pass (tokio runs its tasks; the ticker fires every minute) and of
  the client's opening of the log, and deaths stop in the end: a process that is
  killed again and again uploads nothing. `LogDrains`
  assumes `Served` besides, strong fairness of the endpoint being reached and of
  its answer arriving in time: "the phone is online in the end".
- `SttClients`: the clock goes on and the platform runs a due alarm.
- `SpeechRequests`, `Persistent`: the client retries (the uploader keeps the
  segment and posts it at every pass), and the attempts do not all die at the same
  step for ever. Releases may be lost for ever: the alarm and the window free the slot.
- `ChannelInbox`: time passes, a completion is over within `CallTime` (the
  platform limits a request), passes go on (a scheduled event), desktops poll
  (`_inboxPollTimer`), their hub answers and they let go of a lease that is over.
  Hubs that never answer are in section 5.
  An insertion has no fairness: a webhook's batch may never run.
- `ChannelDelivery`: time passes, posts end, the provider answers or the call
  dies, and the cron comes round.
- `ManagedRequests`: time passes, the cron comes round and goes on with what it read.
- `MemorySync`: the mirror's pump goes on (`Timer.periodic`). `MirrorCatchesUp`
  has the premise `InTime`, that the hub applies no page after the store has
  given up waiting.
- `ComputerUse`: while the process lives both queues are read and every task of the
  hub goes on, as its waits have timeouts; a report that was sent arrives or is lost.
  The user, the model and the Worker's answers to `decide()` are under no fairness.
- `DeviceAudioForwarder`: the event loop runs what is due; every wait of it has a
  timeout.

## 4. Proofs

All theorems hold for every value of the constants under the assumptions of the
modules, which TLC evaluates for its instances.

### Folds and sums

The models sum over finite sets with the operators of the community modules, which
choose a recursive function over the subsets. The library's induction theorems take
an operator as a parameter and cannot be used, so `FoldLemmas` argues by a least
counterexample: a set of naturals has a least member (`LeastNatural`, from
`NatLessThanWellFounded`), hence a size at which a fold first fails to exist, and
there it is built from the folds of one member less (`FoldExists`). A sum takes out
whichever member `CHOOSE` picks; that the order does not matter is `SumsTakeOut`. What
the proofs cite is `SumTakesOut` (a sum is one member's weight and the rest's sum) and
`SumGrows` (a sum over more, or of more, is no less).

### The log

`Capture_proofs`, from `BoundsAssumption` and `RangeAssumption`:

- `TypeCorrect` and `SequenceOrderHolds`: the types, and that names order the
  files, whatever fails or dies;
- `SealedNeverChangesHolds`: no step changes the audio behind a sealed name;
- `WrittenFramesSurviveHolds`: no frame that was written so that it could be
  read back is lost but to eviction or removal, with failing file operations
  too.

The inductive invariant `IInv` is the type invariant with `SequenceOrder`. Two
of its parts are there for the induction: at most one file is open, without
which sealing "the" open file could create two files of one sequence; and every
file is at most `nextSeq` even while no log is held, without which the scan of
the next opening could collide with the file a dying command was writing.
`AfterScan` is a maximum; `MaxOfNaturals` has it from `FoldLemmas`.

Immutability (`SealedNeverChanges`) follows from where the files of a next
state come from (`FileOrigins`): from an old file unchanged, from the open file
grown, or new with a sequence above all. Survival is proved for
`SurvivalInv == IInv /\ WrittenFramesSurvive`: what is recovered of a file
grows with the file even when it grows by a torn frame (`GrownRecovers`,
`GrownKeeps`), so only an eviction or a removal takes frames from the directory,
and it takes at least as much from `owed` (`EvictionReleases`).

`EvictionIsOrderlyHolds`, that eviction takes the oldest and makes enough room, adds
to `IInv` that the directory is finite and that no file is both sealed and an orphan
(`Apart`; otherwise a failing rename could take a young file out of the listing
with nothing evicted). A command evicts from the old files and at most one new one,
above them all (`FilesStep`). Then it is a matter of sums: what stays with a file
stays with every newer one (`OldestGo`), and the oldest of what is kept has
everything kept above it, hence within the bound (`EvictMakesRoom`).

### The uploader

`Capture_proofs`: `DrainTypes`; `UploadsWereTranscribed`, that what is removed as
uploaded was transcribed; `LiveAudioArrivesInOrderHolds`, that live audio arrives in
order, for storage that works (`~Faults`; section 5 says what happens otherwise).
Whatever is uploaded, the log behaves as the log (`DrainKeepsTheLog`), so its
invariants hold under a pass. The listing is a `CHOOSE` of an ordered enumeration of
the readable sealed files; `ListingSorts` shows that there is one, by the rank of a file.

A pass works from an old listing, and a file can have left the directory, and the next
sequence can have been handed out again, before it reaches it. What saves it is that
a live id is minted once: live files are ordered by their ids (`NamesInv`), so a live file
under a listed name is the listed file, still sealed (`QueueInv`), and what the endpoint
holds under a live id is the audio of that file (`TakenInv`). A ring id comes back with
every import. There the argument is that with working storage every file of a range is a prefix of it
(`WholeInv`), of which the length, which the endpoint's hash covers, tells which
(`RangeFacts`, `SameAudio`). Order rests on two facts about
the listing: whatever is older than a listed live segment was taken by the endpoint or is
listed before it (`OlderFirst`), and of a segment that was overtaken no file and no entry
is left (`OvertakenGone`). A pass goes past a head only once its file is gone
(`PassedIsGone`), a new listing has everything older since an opened log leaves no file behind,
and a reservation of the head overtakes nobody.

### The speech ledger

`SpeechAdmission_proofs`, for every value of the limits, window and deadline and
every finite set of sessions, from `LimitsAssumption` and `SessionsAssumption`:

- `CoveredWithinLimitsHolds`: workers of the window whose token nobody released keep
  to both limits;
- `GrantedOnceHolds`: a claim is granted only while nobody works under its token;
- `AlarmCoversHolds`: the alarm is never later than the earliest deadline;
- `BudgetRememberedHolds`: the audio admitted in a window keeps to both budgets
  whether its slots are released, expired or lost;
- `TypeCorrect`.

Neither of the first two is inductive: the code keeps no record of who works. The
invariant `IInv` ties workers to slots. Behind each worker of the window whose token was not
released stands a slot in flight whose claim was granted under the worker's token
(`WorkersSupported`), nobody works under a token whose claim is still awaited
(`PendingIsIdle`), who works knows its token (`WorkersHold`, so that a token
that is fresh to the clients is fresh to the workers), and the slots themselves
are within the limits (`Capacity`), because an admission happens below them and
every other operation only frees (`OnlyFrees`). Distinct workers stand on
distinct slots, so workers are no more than slots (`WorkersAreBusy`). Every
operation leaves a granted slot of the window alone (`Stays`) but the release
under its own token, after which the work is over or among the `outlived`. A claim is
never granted again under such a token, so `GrantedOnceHolds` covers that work too.

`BudgetInv` adds that what was admitted in the window still has its reservation, as
old as the admission (`Remembers`), and that the reservations of the window, of
whatever state, sum to no more than the budgets (`WithinBudgets`), which only an
admission can raise and which it checks.

### The batch endpoint

`SpeechAdmission_proofs`: `RequestTypes`, and `RequestsKeepThePromise`, that the
endpoint implements `TranscriptionService`, however long attempts take. The
inductive invariant `AloneInv` says, of ids that are not late, that a running attempt is
younger than the stale window (`InTime`, by the definition of `late`), and that its row
is started and exactly as old as it is (`RunsItsRow`), hence never stale under it; of
all ids, that a row which an attempt may still reclaim is stale (`ReclaimsStale`), so
no attempt in time stands behind it; and so that attempts of one id that is not late run
alone (`RunsAlone`). The step-wise refinement maps the write of the row to the
start of a call, its settlement to the end, the tick at which work turns late to the
lapse of its ids, and every other step to a stutter.

### Streams and calls

`SpeechSessions_proofs`: `SessionTypes`, `ClaimedSlotsHaveRows`,
`StreamsAreRelayedOnce`, `CallsArePlacedOnce`. The invariant is the types with
`StreamsInv` and `CallsInv`: a handler that took the row and has yet to claim the
slot is the only one, its session is past ready under its token and not yet
relayed (`ClaimersAlone`); a row that is not past ready was not relayed
(`ReadyIsUnused`); every claimed slot is a stream's whose row is past ready and names
the token (`ClaimedByItsRow`); and the like for dialers (`DiallersAlone`, `AbsentIsUnplaced`).
What the ledger does on its own leaves claims alone (`ClaimsNothing`), which is all
the induction needs of it.

### Managed requests

`ManagedRequests_proofs`: `RequestTypes`; `SettledRowsAreFree`, a settled row holds no
slot; `WorkingKeepsToTheLimits`, requests at work keep to the limits in flight if
`Stale <= Window`. The window is configurable and one hour by default, the stale
age is two minutes. `SettledInv` adds to the property that whoever is about to
mark a row has freed the slot (`MarkersAreFree`) and that nothing is known of a
request that has not begun (`NewIsUnknown`). `WorkingInv` has the slots within the
limits (`WithinLimits`) and every request at work `Protected`: it holds its slot, its
row is open and no older than its reservation, and no entry of the sweep is for it.

`SpendingKeepsToTheBudgets` is what the ledger is for. A request may use more than it
reserved, so the budgets are no bound on what is used. What holds is that as far as
they had reserved it the requests of a window use no more than the budgets, and that
a request is admitted only if its estimate fits beside everything the ledger was told
the others used, overruns included. `BudgetInv` says that a request is charged what it
reserved until the ledger is told, and what it used from then on (`Charged`): a usage
noted in a row, a handler or an entry of the sweep is the one there was, of a request
that is done at the provider (`Truthful`), so no settlement, however late or repeated,
changes it again. An admission that fits beside the charges then fits beside the usage
(`AdmissionFits`), and the least of what was reserved and used, which only an admission
can raise, stays within the budgets (`Bounded`, `WithinBudgets`).

### The inbox

`Channels_proofs`: `InboxTypes`, `RepliesAreTheLastClaimants`,
`LeasesAreInTurn`, `InboxAnswersOnce` (the refinement of `ReplyOnce`), for any
messages, desktops, passes, leases and delays. The invariant says
of the rows that a claimed one names its last attempt (`Started`), of desktops that each
holds what was the head when it claimed, with everything before it settled, not in the
table yet, or inserted since (`HeadsClaimed`), under a token of its own (`Apart`). Each step either leaves
the rows alone, moves them on without settling (`Quiet`), or replies under a running
lease.

### The deliveries

`Channels_proofs`: `DeliveryTypes`, `LeasesExclude`, `ArrivalsAreInOrder`,
`DeliveriesAreAnOutbox` (the refinement of `Outbox`), for any number of deliveries and
calls and any lag of the clocks. The heart is `Locked`: until its lease is over,
the row of a live call is delivering under its token, with exactly the lease's
rest, or was cancelled. With `SendersInTurn` (everything before a claimed row is
final) two calls inside their leases are the same, and first arrivals are in order
(`CameInTurn`, `SentCame`).

### The forwarder

`Capture_proofs`: `ForwarderTypes`, `SegmentsKeepTheirSession`,
`SegmentsStayWhole`. The invariant `SessionsInv` says where each `start()` is when its session is
in a given phase (`CallsAgree`), that the open segment is the current session's from its begin
to its seal (`SessionsAgree`), and that the last frame of the segment, the frame
carried and the frames pending are one stretch up to the last accepted
(`Stretches`), which the properties of a step then read off.

### The memory log

`MemorySync_proofs`: `TypeCorrect`, `RecordsAreAReplay`, `DeletedStaysGone`,
`AcknowledgedEventsAreKept`, `MirrorHasItAll`, for any devices with any local logs,
any pages, any number of requests side by side and any number of faults. The
assumptions are that of the types, that no request is called `"none"`, and that
the events of a commit follow one another in a device's log, which
`parse_commit` asks of a page: its records are a window of the commit
(`routes_memory.rs:344-366`).

The projection is where the difficulty lies. Projections run side by side, each
folds from the cursor it read, and the table one folds into may be ahead of it.
A table is `Sound` for a prefix if it has what every entry of the prefix says
and nothing after. A sound table absorbs an entry it has (`Absorbed`), the next
entry makes it sound for one more (`FoldedSound`), and so folding entries
`a + 1` to `b` into the replay of any longer prefix gives the replay of a prefix
(`Refolded`). That is `Projected`: the rows are the replay of some prefix that
reaches every cursor in use and the saved one.

The rest of the invariant says what a request may count on (`Kept`): the events
its page has passed are staged, and in the log where their commit is complete;
past the append, so is the commit it is at. Logs only grow (`Extends`), so what is
kept stays kept, and an acknowledgement hands it to the device's cursor. `GoneAll`
has a deleted source out of the view once a projection past its deletion has
written it, even while that projection has yet to save; `MirroredAll` says what is held
up to each of the mirror's cursors, and up to the position a pull has reached.

The projection of a stretch of the log and the append of a commit are folds over sets:
`FoldRun` and `AppendsAll` unfold what `FoldExists` of `FoldLemmas` says exists.

### Approvals and computer use

`ComputerUse_proofs`: `AtMostOneEffect`, `TheRecordIsTrue`, `TheLastWord`, for any
cards, chats, proposals, decisions, capacities and departures from the straight
course. The argument is one of ownership. The Worker approves a card's
execution once, so one decision holds the approval (`HoldersAgree`); it holds it
from the answer to the last trace of its decision, and the order in which a
decision is in the app, in the hub's queue, in a task, at the Worker and in the
engine (`InOrder`) leaves one place at a time where it can go on to an effect
(`EffectsAgree`). `RowAgrees` says what the row of a card says of an effect is what its
holder did, `PostsAgree` that what is reported is what happened. What makes the induction
long is that everything else in the system (other decisions, chats, cancels,
fences, configurations) adds nothing to a decision in flight.

### Only model-checked

- All liveness, which this prover does not do: `PassEnds`, `LogDrains`,
  `UnclaimedIsFreed`, `NotWedged`, `InboxEmpties`, `Drains`, `AllSettled`,
  `MirrorCatchesUp`, `LossIsRecovered`, `DispatchedSettles`.

## 5. Disagreements

`MemorySyncReplay` is one between the code and its documentation, and
`PROJECT.json` quotes both under "findings". The following have no run; the models
contain the behaviour or name the assumption that excludes it.

Capture:

- `capture_wal.rs:3` has every frame appended to the log. When a segment reaches
  its cap, `append` seals it and opens none (392-416), and the client begins one
  per session: later frames of the session are answered without an error and written nowhere.
- A segment without words is answered 502 each time (`routes_public.rs:390`),
  which is retried for ever and keeps every later segment in the log, which
  `capture_upload.rs:45-46` wants to avoid. `LogDrains` is about audio with words.
- A ring import cut off by a death leaves a prefix under the range's own id
  (`capture_wal.rs:372`), which is uploaded under it, against 427-429; the whole range
  is later refused as a conflict and dropped.
- `remove` "drops `segment` after a confirmed upload" (443) by its name, and both
  parts of the name of a ring import can come back: the id is the range's own and
  an opening counts on from the files it finds (237). When the log is emptied by eviction
  and opened again while a cut-off import is uploaded, and the whole range is
  imported under the same sequence, the pass removes the whole range of which a
  prefix was transcribed. `UploadedMeansTranscribed` therefore promises all of a
  file for live audio only; the bounds of `CaptureDrain.cfg` do not reach the case.
- A live segment whose seal failed keeps its `.open` name, is not listed, and
  later segments are uploaded before it (`capture_wal.rs:491`): with
  `Faults = TRUE` in `CaptureDrain.cfg`, `LiveAudioArrivesInOrder` fails.
- Beginning a segment seals the last one without evicting
  (`capture_wal.rs:298`), so disk use exceeds the documented
  `max_bytes + max_segment_bytes` until the next step that evicts.
- The forwarder continues a stream and its segment over a brief disconnect though
  frames are missing (`device_audio_forwarder.dart:261-266`), against "audio either
  side of a gap is never spliced into one stream" (119-120).
- A stop that is not acknowledged overwrites `lastError` (596-634) before `_recover`
  reads it (552), so a packet gap on a connected link is not restarted after.
- The end of the frame stream ends capture without an abort (254), and a
  restart that finds no hub or relay returns with nothing (186-190): nobody is told,
  against `onCaptureStopped` (130-131).
- A `stop()` during `beginSegment` or `recordResume` ends the session; `start()` goes
  on and subscribes for it (246), and nothing cancels that subscription.

Speech:

- Nothing bounds the upstream call (`routes_public.rs:260`), against
  `speech.rs:189-192`: a row may be reclaimed while its call runs. Then the
  model is called twice for one id, and the attempt overtaken settles its row
  afterwards whatever the row holds (241), so that a complete request can lose its result.
  For such an id the promise lapses (`late`).
- A token may be released while work under it goes on: a second socket of a session
  that fails its checks releases the first one's (`routes_ai.rs:1333-1336`, 1356-1358,
  1444-1461), and the reclaim of a stale row that of an attempt which may still run
  (`routes_public.rs:185-191`). More work than the limits can then be under way;
  `CoveredWithinLimits` does not count it.
- `reserve_speech` looks at the status of a claim alone and goes on without a
  slot when the ledger answers `claimed: false` (218; compare the test
  `late_claim_rejected_and_stale_release_ignored`, `stt_admission.rs:544-563`).
- The request hash is compared before admission only (163-176) and the upsert
  neither compares nor updates it (202): two requests with one id and different
  audio may both pass, against `speech.rs:682-683`.
- A FaceTime call never claims its slot, so the claim alarm frees it while the call
  runs (`routes_facetime.rs:198`); `docs/ai-and-observability.md:141-146` lists the
  alarm among the releases.

Managed AI:

- A reservation whose request dies before its row is inserted is not swept, a
  client that hangs up takes the settlement with it, and a settlement that failed is
  not tried three times (`docs/agent-harnesses.md:178-186`; `routes_ai.rs:728`,
  840-881). The cron catches those that have a row.
- `mark_streaming` has no guard on `finalized_at` (900-909): a row the cron finalized says
  streaming again. It is settled all the same (`AllSettled`).
- `do_post(..).is_ok()` counts every response of the ledger as settled, refusals too.

- A settlement above the reservation is recorded as it is (`assistant_admission.rs:3-6`,
  and the test `settles_to_overrun_and_blocks_dense_traffic`, 369-405), so a window may
  use more than its budget by what was overrun. An overrun nobody reports (a
  usage that is missing, a client that hangs up) is in no budget.
- A usage that was known may never be told: a sweep that read the row before the handler
  finalized it settles with a release and marks it (`routes_ai.rs:1639-1682`), and no
  later pass looks at the row if the handler dies before its own post.

Messages:

- A message whose row appears after a later one was claimed is the head for the next
  claim (`glue.rs:1401`, 1245, 2432): two desktops then hold two messages, the
  later one first.
- A call that dies in the last attempt leaves its row delivering for ever, since
  the claim asks for fewer attempts than the maximum, and blocks every younger
  delivery of the chat, against `routes_channels.rs:1741`. `Drains` therefore has
  `EarlyDeaths`.
- The drain takes leases of 30 seconds for up to 25 rows from one clock (1846), one
  send after the other, so a later row's lease may be over when its send begins.
- `scheduleInboxPoll` does nothing while an item is active
  (`conversation_controller.dart:400`): a hub that never answers blocks the inbox
  of that desktop. `InboxEmpties` has hubs that answer or fail.
- Unlinking cancels a delivery whose request is on its way (1636); it may arrive after.

Memory:

- A hub that applies a page after the store's thirty seconds raises its high water,
  and the retry of the page is refused until the hub restarts
  (`memory_mirror.dart:189`, `runtime.rs:698-724`), against `memory_mirror.dart:328-331`.
  `InTime` excludes it.
- `handle_source_delete` tombstones `memory_sources` directly (`wasm_glue.rs:1349-1390`)
  and the next projection shows the source again, against
  `docs/memory-authority.md:196-200`. The web's own writes are not modelled.

Computer use:

- The loop counts its `authority_generation` up for a `ConfigureMemory` (`runtime.rs:1935`)
  before the command can be refused, `configuration_generation` only once it is active
  (2000-2010): after a refusal every approval decision is answered as cancelled (5304).
- `docs/agent-harnesses.md:105` has a parent's proposals invalidated when it ends;
  the code does so on `Cancel` and on a new configuration only (1899-1938).
- The comment at 5151-5155 has live voice's proposals decided like a chat's;
  `ConversationController` drops a proposal whose request it does not know.
- An approval whose answer is lost leaves the execution approved: the card's proposal
  can then be neither approved nor rejected again (409), and the receipt runs out.
- Cancelling the chat turn of a card that was handed off, or losing the answer to
  `accept`, leaves its execution awaiting an approval and the card accepted for ever.
- `current_feedback` is unique per card: a card that was snoozed once can later be
  neither dismissed nor snoozed again (409) until it is accepted.
- `docs/computer-use.md:28-30` has actions on macOS, Windows and Linux; off macOS
  `execute_bound_computer_use` answers that the target is unavailable (`runtime.rs:5015-5023`).

## 6. Limits

### Hazards without a property

Not in `PROJECT.json`, since no property is about them:

- `stt_admission.rs:152`: `retain` forgets reservations older than the window while they
  are in flight. With sessions of 900 s and a window of 3600 s it does not arise.
- `routes_ai.rs:1741`: a storage read that fails loads an empty ledger, which the next
  save makes permanent.
- `routes_ai.rs:1466`: an early return of `bridge_sockets` leaves the row streaming
  and the slot in flight until the window forgets it; there is no sweep of sessions.
- `routes_ai.rs:1637`: a stream longer than the stale age is swept as dead while it runs.
- `routes_facetime.rs:396`: a bridge evicted between storing its session and setting
  its alarm never settles; the alarm of the ledger and the sweep do it.
- `capture_service.rs:410`, `414`: a drain command during a pass is dropped; a pass
  keeps the transport of its start when the account changes.
- `capture_gap_log.rs:114`: the list is rewritten in place.
- `ring_backlog.dart:115`: the pendant's ring is acknowledged after import;
  `ImportRange` covers the repetition. Nothing in the app calls `RingBacklogClient`.

### Not modelled

- *Capture*: loss of power (`fsync` ordering), a death in the middle of an eviction, a
  `remove` that fails, unreadable files of other kinds than a missing header line,
  a clock that goes backwards, several accounts over one log, permanent refusals
  other than a conflict (a segment the endpoint calls too long is dropped like
  one), the gap log and the alerts, the capture coordinator, the firmware.
- *Ledgers*: failing storage and alarms of the Durable Objects; seconds and cost, tokens
  and cost as separate budgets.
- *Speech and calls*: a stored result that no longer parses, two attempts that
  read the same millisecond; the frames inside a relay and its deadline; the
  container, the provider's audio and its tokens.
- *Messages*: webhook parsing, link codes, the providers' formats; two different
  texts under one claim; the cron's other duties.
- *Memory*: web reads and writes, the other record kinds and read tables, embeddings, search,
  the 409 answers to a replay that diverged.
- *Authentication, rate limits, billing*: rows and counters written by one request
  each, and calls to external services with their parsing.
- *Approvals and computer use*: how cards are generated, live voice's proposals, the
  memory writes of a turn, what an action checks on the screen before it acts, the
  formats validators ask for.
- *Hub runtime otherwise, live voice, meetings*: pipelines and prompts around platform
  services inside one process; the parts of `runtime.rs` that keep shared state are
  the mirror's and the approvals', which are modelled.
- *Interface, site*: presentation.
