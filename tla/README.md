# A verification project for OhMySerial

OhMySerial (`src/`, Rust) owns serial ports and shares each of them: several programs (TCP, RFC 2217,
PTY, WebSocket, HTTP) read what the device sends and take turns writing to it, under leases and
policies, while everything that happens goes to a ledger that clients page through, stream and
export.  The modules here are TLA+ translations of the code that carries those promises, with
TLC runs on small instances and TLAPS proofs for every size.

To run: `tlc -config <cfg> <MC module>` and `tlapm <module>`, in this directory.

## 1. The system

| component | source | state it keeps | operations |
|---|---|---|---|
| broker, transmit side | `broker.rs`, `policy.rs` | clients, lease, handoff record, port status, connection epoch; the bounded `serial_tx` channel; per write its outcome | `client_tx`, `client_tx_atomic`, `api_write`, `acquire_lock`, `renew_lock`, `release_lock`, `register_client`, `unregister_client`, `validate_device_write`, `on_device_tx_*` |
| serial owner thread | `serial.rs` | the handle, the position in its loop, its own handoff deadline, the settings for the next open | open, reconnect, settings and control lines, write, read, handoff, stop, drain |
| port handoff | `broker.rs`, `serial.rs` | the broker's record, the owner's deadline, the request in between | `begin_handoff`, `resume_handoff`, `expire_handoff`, `abort_handoff`, `wait_handoff` |
| broker, receive side | `broker.rs` | a bounded queue per client, history ring, counters | `on_device_rx`, `enqueue`, `recv`, `blocking_recv`, `close` |
| RFC 2217 endpoint | `client/rfc2217.rs` | per connection a decoder, a copy of the settings, the request it makes | `TelnetDecoder::feed`, `handle_connection`, `configure_with_lease`, `control_with_lease` |
| policy framing | `policy.rs` | a partial frame per client | `FrameAssembler::push` |
| hub and supervisor | `hub.rs`, `supervisor.rs` | tasks, owner threads and ledgers of every profile, and their order | `validate_profiles`, `start`, `run_hub`, roll back, `stop_gracefully`, drop |
| segment store | `ledger/store.rs` | the open segment, sealed segments, chain hash, session lock | `open`, `append`, rotation, `checkpoint`, `seal`, recovery |
| event ledger | `ledger/mod.rs` | ring, sequence numbers, live channel, degradation | `append`, `query`, `subscribe`, `checkpoint`, `seal` |
| event API | `client/api.rs` | one request each | `/v1/events`, `/v1/events/stream`, `/v1/events/export` |
| workflow runner | `workflow/mod.rs` | active and completed request ids, a cursor per run | `run`, `run_inner`, `expect_bytes`, `consume_event` |
| replay | `replay/mod.rs` | a position in a verified list | verify, replay |
| other endpoints | `client/tcp.rs`, `client/pty.rs`, `client/api.rs`, `bridge.rs` | sockets | accept, copy |
| rest | `config.rs`, `observe.rs`, `main.rs`, `static_ui.rs` | none | parsing, logging, files |

How they meet.  Endpoint tasks call the broker, whose `BrokerState` is behind one mutex; what they
write goes through a bounded channel to the owner thread, which validates again, under the same mutex, just
before `write_all`.  Control requests go through a second channel and come back on a one-shot
channel, with a timeout on the caller's side.  What the owner reads goes, on the owner's own thread, to the ledger
and into every client's queue.  The ledger has its own mutex and a broadcast channel that
subscribers (the stream API and workflows) may fall behind on.  A supervisor starts one hub per profile, in
order, and stops them in reverse.

What is hard: a write is admitted, waits, is queued and is written in four critical sections,
between which leases, epochs and handoffs change; two clocks run for one handoff; callers time out,
are cancelled or leave while the owner still holds their write or their settings; shutdown drains channels whose
senders are waiting for it; a slow reader must neither stall nor falsify the stream; reads cut a Telnet stream
anywhere; a start may fail at any of its tasks; a process may
die between any two file operations; a client's page, its stream and its export are answered from a ring and
from files while both change; duplicate workflow requests look at two maps under two locks.

What makes each component correct, in a sentence:

- transmit: every admitted write has exactly one fate, over the connection and under the authority it was admitted with, and its caller is told nothing that is not so;
- handoff: hub and tool never both hold the port, and the window ends;
- receive: each reader gets the device's bytes in order, and what it missed is counted and named;
- RFC 2217: what arrives is what the peer sent, each request has its reply, and what a peer was told is in force is in force;
- hubs: the device is opened last, a failed start or a stop leaves no owner, no task that goes on and no ledger that stays open,
  whatever its peers do, and evidence is sealed after its owner;
- store: the sealed segments are one unbroken chain, and nothing acknowledged and flushed disappears;
- events: a client has exactly the matching events up to its cursor, and gets them all in the end;
- workflow: a passed `expect` is evidence, and one request id is one run.

`PROJECT.json` lists all components with their status and every hazard at its line.

## 2. The modules

| module | models | state and actions |
|---|---|---|
| `TxPolicy` | `WriteLock`, `admit_write` | operators only: who may write in which mode |
| `Broker` | transmit side, leases, control requests | one variable per field of `BrokerState`; `call` is one `client_tx_inner` each (`StreamWrite`/`ApiWrite` admit, `Reserve`, `Recheck`, `Send`, `Answered`, `AnswerTimesOut`, `Cancel`), `op` one control-plane request each, which its peer's going away may drop at an await (`OpCancel`) |
| `SerialHub` | `Broker` composed with `serial_thread` | `ownerPc` is where the thread is; one action per branch of the connection loop, `io_loop`, `wait_handoff`, `close_pending_writes` |
| `DeviceAccess` | what the transmit path promises, abstractly | a `fate` per frame, what each caller was `told`, who holds the port: no queue, slot, deadline, lease or thread |
| `SerialHubRefinement` | the refinement mapping from `SerialHub` to `DeviceAccess` | `ImplementsDeviceAccess`, and `RefInv`, what the simulation needs beyond `IInv` |
| `ClientFanout` | `on_device_rx`, `ClientFanout`, `ClientRx` | `owner` holds the locals of `on_device_rx`, `queue` the per-client queue, `reader` the waiting side, with Tokio's `Notify` and the condition variable modelled by what they do |
| `Telnet` | `TelnetDecoder`, negotiation, escaping, `FrameAssembler` | operators: the byte-by-byte machines of the code, and references that read a whole stream by tokens |
| `Rfc2217` | `handle_connection` with broker and owner | EXTENDS `Telnet`; `conn` is each connection's decoder, settings and request; `control` the channel; `port`, `line`, `config` what the owner has; `scenario` what the peers send |
| `HubLifecycle` | `Supervisor`, `run_hub`, `HubHandle`, endpoint tasks | `sup`/`at` is the supervisor's place, `stage` each hub's, `ep`, `conn`, `owner`, `ledger` what runs in it |
| `SegmentStore` | `SegmentStore`, recovery, `read_session` | `sealed`, `open`, `preserved` are the files; `proc` is each process's store, one step per file operation |
| `EventLedger` | `Ledger` | the log, where the ring starts, how much is stored and how much a checkpoint has made readable |
| `EventFollower` | the event API and a client of it | EXTENDS `EventLedger`; `follower` is each client's request and what it knows |
| `Workflow` | `WorkflowRunner` | EXTENDS `EventLedger`; `run` is each call, `active` and `completed` the two maps, `link`/`owner`/`control` whoever appends events |
| `*Proofs` | theorems about the module of that name | section 5 |

Components that TLC checks have an `MC` module and one `.cfg` per run.  Every abstraction is deliberate:

- **Mutex sections are actions**; an await, a channel operation or a system call separates two
  actions.  Deadlines are the time they have left, counted down by `Tick`.
- **The owner's order inside `io_loop`** (stop, then controls, then writes, then read) is not
  imposed: `IoStop`, `TakeControl`, `TakeWrite` and `ReadFails` are all possible whenever their
  guards hold.  That allows more than the code does, so what holds here holds there.
- `Stopped` is the end of the thread, `drop_pending_controls`, `abort_handoff` and
  `detach_serial_control` in one step: between them the owner does nothing else and the connection
  is already down.
- In `SerialHub` the bytes of a frame, client names and addresses, and the wording of errors are left out, a
  stream write is the number of frames the assembler completes, given as an input, and a control
  request is one kind of command.  Bytes, frames and what a request does to the line are `Telnet`'s and `Rfc2217`'s.
- `Rfc2217`: lease tokens are numbers in the order they were granted; a lease can expire, or go to
  somebody else, at any time; the owner applies the four settings and `control` lines in the code's
  order and each may fail.  Bytes are numbers, of which only those that mean something to
  Telnet, RFC 2217 or the framing are told apart.
- `HubLifecycle`: a device is its USB serial number, a selector is one or the wildcard; an endpoint has one connection at a
  time, and any number one after the other; aborting a task and its future's being dropped are two steps.
- `ClientFanout` leaves out clients with `can_read = false`, byte counters and the
  `rx_broadcast` channel (only tests subscribe to it); chunks are numbers.
- `SegmentStore`: a process can die and any operation fail, the operating system cannot: power
  loss, which `fsync` is for, is outside the model.  A hash is the thing hashed.
- `EventLedger`: the ring's byte limit appears as up to `ByteEvictions` evictions more than the count
  asks for.  Persistence-gap events are appended like any other.  `wait_for_newer_than` is used by tests only.
- `Workflow`: `"rxgap"` stands for every gap whose scope is not `client_delivery`; captures and
  size limits are left out, and what `validate` refuses is an assumption on the definitions; a step that may fail
  (deadline, refusal, cancellation) may fail at any time; a future can be dropped only where it awaits.

## 3. The runs

| run | what it shows | bounds, and why they are enough |
|---|---|---|
| `hub_tx` | The transmit path implements `DeviceAccess` (`ImplementsDeviceAccess`): every frame has one fate, frames of a call go out in order, over their own connection, only while the hub holds the port.  Every admitted write is somewhere exactly once (`NoWriteLost`), goes out beside somebody else's lease only if that lease was granted after the owner validated it (`ForeignWriteOnlyIfEarlier`), starts only for a live caller (`NoOrphanWrite`); definite answers are true (`DefiniteAnswers`) | one HTTP write and a two-frame stream write (so frames of one call overtake another's), queue of two (full and not full), one lease, two connections |
| `hub_live` | From acknowledgement to end of a handoff the handle is closed, nothing is in hand, and no lease is live (`HandoffExclusive`); at shutdown every request is answered (`StoppedIsQuiescent`); every write call returns and a stop ends the owner (`NothingHangs`), the owner leaves every handoff (`OwnerReturns`) | two requests (begin against resume, command or another begin) with a control channel of one, an HTTP write that a begin must drain, exclusive mode, one connection; ticks of one, because only the order of deadlines matters |
| `handoff_ttl` | finding 1 | one begin request that nobody resumes |
| `fanout` | Streams are in order and without a hole from the history on, drops are counted exactly, gaps name exactly the victims, one chunk stalls the thread at most `slow_block_ms`, no wake-up is lost | two readers that block, or one that awaits (its wake-ups concern no other client), queues of two, three chunks (fills and overflows a queue), all four policies |
| `remote` | However reads cut a stream, payload, frames and replies are those of the reference (`DecodesExactly`, `RepliesMatch`); what a peer was told is in force is in force (`ConfirmedInForce`); no lease taken for a request is kept (`LeaseComesBack`) | every stream of up to four of seven symbols (data, delimiter, IAC, WILL, SB, SE, the option), every subnegotiation tail of up to four of four, cut anywhere; two requests in a row, valid and invalid, or a command of 200 and then an option, with two faults (port lost, lease taken, owner late, setting failing); two connections with one fault; frames of two bytes, a control channel of one |
| `stale_control` | finding 4 | one control line, one lost port |
| `lifecycle` | The device is opened after every endpoint is bound (`DeviceLast`), after a failed start or a stop no owner is left, every task was told to end, stopped hubs are sealed, and the connections left were told to end or are those only a peer ends (`WhatAStopLeaves`); ledgers are sealed after their owner (`EvidenceOutlivesOwner`) and with every PTY's leaving in them (`PtyEvidenceKept`), no device has two owners (`OneOwnerPerDevice`), every shutdown ends, or waits for ever for an HTTP peer that stands still, and for nothing else; after it everything ends but what such peers keep (`ShutdownEnds`) | three profiles that between them have every kind of endpoint, so that a failing third rolls two back; four choices of selectors (distinct, wildcard first or in the middle, equal) |
| `store` | The chain stays linked whoever writes, crashes cost only what was not flushed, a checkpoint seals everything acknowledged | two processes, segments of two, flush every second event, five events, three crashes or I/O errors: two segments and a half, a crash in the recovery of a crash |
| `store_recovery` | finding 2 | three events, two crashes |
| `events` | A client has exactly the matching events up to its cursor, `has_more = false` is true, an export is complete, and the client catches up (`Follows`) | ring of two, channel of one, pages of one, snapshot of two, four events: eviction, lag, 410 and paging from files all happen |
| `expect` | A passed `expect` rests on its bytes within one connection and no gap, none overlooks a match, one run per request id at a time | two runs of one key, patterns with a self-overlap, chunks that split them, two connections, a channel of two |
| `workflow_once` | finding 3 | two requests with one id |

`CHECK_DEADLOCK FALSE` is set where the system may stop for good: the thread has ended, the device is silent, every
request is answered, the peers are gone, the supervisor has stopped.

### Fairness

- `hub_live` and `handoff_ttl` use `FairSpec` of `SerialHub`: weak fairness of each started call and request, of the
  owner thread and of the clock.  Tokio polls a ready task and the operating system runs the thread; `write_all`
  returns because the handle has a timeout.  Nothing makes a port open, a client write, a lease expire
  late or a resume arrive.
- `FairSpec` of `EventFollower` has weak fairness of a request that was
  sent, and strong fairness of a client that keeps asking: between two of its steps it may be
  exporting or disconnected, but not for ever (`MaxFaults` bounds the connections lost).  Catching up
  is claimed only if the store stays active.
- `FairSpec` of `HubLifecycle`: the runtime polls ready tasks and drops aborted ones, the owner thread runs, and
  whoever lets go of a broker last drops it.  Peers owe nothing: none has to finish a request, take an answer or go
  away, and nobody has to press Ctrl+C.  axum's graceful shutdown waits for every HTTP request without a limit
  (`api.rs:178-180`), so `ShutdownEnds` has the case that it waits for ever (`HeldByPeer`).
- `FairSpec` of `Rfc2217`: a connection that can go on does (`Proceeds`).  The owner, the port and the
  peers owe nothing, and the peer need not take a reply.

## 4. Findings

1. `handoff_ttl`: HANDOFF.md:18-19 promises the owner resumes at the TTL boundary, and HANDOFF.md:14 limits
   refusals to the active window.  The broker restarts its `expires_at` after it has received the
   acknowledgement (`broker.rs:645`), later than the owner's deadline (`serial.rs:346`).  At the
   owner's deadline `expire_handoff` (`broker.rs:736`) still sees time left and keeps the record, and
   writes, leases and controls are refused until someone calls resume.
2. `store_recovery`: recovery renames the source away before it writes the copy (`store.rs:820`);
   a crash or a full disk in between leaves acknowledged events in a file nothing reads (EVENTS.md:253).
3. `workflow_once`: `run` looks at `completed` and `active` under separate locks and removes from
   one before inserting into the other (`workflow/mod.rs:540-553`), so a duplicate can execute a second time (WORKFLOWS.md:51).
4. `stale_control`: a request for a control line or for settings carries no epoch.  It is checked under the lock and
   sent after it (`broker.rs:788`, `797`, `879`); if the port is lost, the channel emptied
   (`serial.rs:114`) and the port opened in between, the request is carried out on the new device, against the
   comment at `serial.rs:110-112`.

Observed, and not stated as a run of its own (in parentheses: where a reader can see it):

- transmit and control: a lease is checked when a control request is admitted and not when it is carried out
  (comment at `broker.rs:753-756`); a partial frame is kept across a reconnect (`policy.rs:96`, against
  README.md:694 for queued bytes); a frame too long takes with it what was completed before it in
  the same push (`policy.rs:97`); `*_rejected` is recorded for a request that times out and is
  applied afterwards; a resume message names no window (`serial.rs:353`);
- receive: a `not_delivered` gap under `drop_oldest` carries the new chunk, which the client then receives, and
  not the evicted one (`broker.rs:1219`, EVENTS.md:198); a WebSocket client registers before it reads
  the history and may get one chunk twice (`api.rs:1252`);
- RFC 2217: the reply to a command from 155 on has number 255, unescaped (`rfc2217.rs:342`), which the peer reads as the
  start of an escape: the frame does not end where it should and swallows what follows, an answer to an option included, which is why
  `RepliesMatch` speaks of peers that ask for no such command; the echo of an unsupported parity
  (3, 4) looks like success; every connection sends its own copy of all settings, and so takes
  another's change back (`rfc2217.rs:260`); payload is handled before the requests of the same
  read;
- store: if segment 0 dies before its header, the reopened session writes segment 1 first and `read_session`
  refuses it after a successful checkpoint (`store.rs:392`); a reopened session's `mono_us` starts again, which replay
  rejects (hubs never reopen one for writing);
- workflow: an abandoned run keeps its request id in `active`, and retries get
  `RequestInProgress` until the process ends; `completed` is never trimmed; the rest of an RX
  event after a match is dropped, so whether two expects both pass depends on how reads cut the stream; an
  expect after a send also consumes what arrived before the send;
- handoff: a begin request whose HTTP peer goes away is dropped at its await and leaves its record behind, with a
  token nobody was given (`broker.rs:619-634` has no guard that clears it): if the request had not entered the channel yet,
  writes and leases are refused until somebody calls resume after the record has expired; if it had, the owner lets go of the port
  while the old lease stays live;
- lifecycle: RFC 2217 connections are spawned detached (`rfc2217.rs:65`) and outlive a stop, while README.md:696 promises that
  none leaves detached workers and the comment at `hub.rs:90-91` that registration guards were waited for.  TCP connections (aborted by
  their `JoinSet` and not awaited) and WebSockets (not among what axum waits for, against the comment at
  `api.rs:67-68`) end soon after, but their guards too may run after the seal, and their `client_left` events are then refused.
  An event stream that waits for its peer to read does not watch the shutdown token (`api.rs:775-800`) and may
  stay for ever.  `WhatAStopLeaves` states exactly this remainder; README.md:696 also says that a shutdown closes client fan-out, and
  nothing closes a queue but its client's leaving (`broker.rs:264`, `1101`);
- lifecycle: an HTTP peer that sends half a request, or does not read its answer, holds up the graceful stop before the owner is
  stopped and the ledger sealed (`hub.rs:103-104`, `api.rs:178-180`), without a time limit and for all hubs that are still to
  be stopped; the synchronous shutdown loses `client_left` events (`hub.rs:74`).

## 5. Proofs

All proofs rest on the named assumptions of the modules only: bounds are positive, an HTTP write is neither a
stream write nor a peer, `None` is no name, policies and endpoint kinds are those of the code, and a workflow
definition is one that `WorkflowDefinition::validate` lets pass: it has steps, and each `expect` a pattern.  Streams, what is
forwarded and the server's name are sequences of bytes (`StreamAssumption`).

**`SerialHubProofs`**, for any sets of clients, calls and requests and any capacities,
deadlines and modes: `TypeCorrect`, `Invariance` (`IInv`), `NothingLost`, `NothingStale`,
`LeaseExcludes`, `AnswersAreDefinite`, `ShutdownIsClean`, `HandoffIsExclusive`, `NoOrphans`.
None of the properties is inductive by itself, so `IInv` joins them to what they need:

- `OwnerInv`: which of the owner's variables are set at which place of the thread;
- `CallInv`: a call that has not returned has no result, and a frame not yet sent has no outcome
  (without it `Send` could put a frame into the queue a second time);
- `ApiInv`, `StreamInv`: an HTTP write is one frame of a client of its own, which is what ties an
  answer to a frame;
- `LeaseInv`: tokens are granted in order, so "granted later" is a comparison of numbers;
- `ControlInv`: each request the owner owes an answer is in the channel once or is being served, and
  each waiting request is owed one, so none is left hanging at shutdown;
- `HandoffInv`: an acknowledged handoff record belongs to a begin request and finds no live lease.

Types come first (`TypeNext`), because every other step needs them.  Then there is one lemma per action
or group of actions with one effect, and one fact per conjunct that the action disturbs; effects that
recur (dropping the queue, taking its head, refusing every request) are lemmas of their own.
`InvNext` splits `Next`; the temporal theorems follow from it.  `IInv` and `NoStaleEpochWrite` are proved
and no longer in a run: `hub_tx` was chosen for what TLC adds.

Its last part is `Refinement`, `Spec => ImplementsDeviceAccess`, for every size.  The mapping reads a frame's
fate off its outcome, the queue and the owner's hand.  `IInv` says that a frame is in at most one place; what it does not say
is that the frames of one call leave in order, so `OrderInvariance` adds it (`RefInv`): a call's frames are numbered as they were
sent, in the queue and against the owner's hand.  Each lemma takes one kind of step and shows
both that it keeps this order and which abstract step, or stutter, it is.  That the hub holds the handle whenever a
frame starts is `PortInv`; that the frame's epoch is the current one is a fact of `IInv`.

**`HubLifecycleProofs`**, for any list of profiles and any selectors: `TypeCorrect`, `LifeInvariance`, `DeviceIsLast`,
`LeftoversAreKnown` (`WhatAStopLeaves`), `EvidenceIsKept`, `PtyEvidenceIsKept`, `OwnersAreApart`.  The properties speak of final states; `LifeInv`
ties them to where each hub is: `SupInv` gives the stages of the hubs before and behind the supervisor's place, `StageInv` what a
stage says of owner and ledger, `EndpointInv` what it says of endpoints, `ConnInv` that a connection has its task up, was told to end or is its peer's, and that no server has ended
beside an HTTP request, and `SelInv` that nothing is started past
a collision.

**`TelnetProofs`**, about the wire format alone, for every sequence of bytes: `DecodesAsReference` (the byte-by-byte decoder and the
reference that reads the whole stream by tokens agree on data and frames), `ReadsMayCutAnywhere` (a decoder carried from read to read
yields what each read's bytes add to the stream), `EscapedIsRead` (what `escape_iac` writes is read as what it was given) and
`ReplyIsRead` (a reply to a command below 155 is read as one frame, its own).  The first goes along the tokens.
`ReadToken` shows that a decoder that takes data where a token begins takes data again where the reference ends it,
and has yielded the token's body; the hard case is a subnegotiation, where the reference looks for the first IAC
that is not one of a pair and the decoder counts pairs as it goes (`StaysInside`).  `RestFrom` adds the
tokens up, from the last to the first.  The other three follow from what one byte adds
to a stream (`LeadsFromData` and its siblings).

**`Rfc2217Proofs`**, for any number of connections, any streams, any cuts and any faults.

- The requests: `RequestInvariance`, `TypeCorrect`, `ConfirmationsHold`.  A token names one request; the
  invariant follows it from its lease to the channel, where one entry at most carries it, to the owner, after which none does.  So a
  request that was given up and applied later cannot pass for a confirmed one.
- The bytes: `WireInvariance`, `DecodingIsExact` (`DecodesExactly`), `ConversationMatches` (`RepliesMatch`).  Both properties speak of
  a connection between two reads; `WireInv` says what holds in the middle of one.  `Read`: the decoder is where the bytes
  taken so far leave it, and of the last read's yield what was not handed on yet is still there.
  `Framing`: the frames and the partial frame are what was admitted, no frame is too long, and the partial frame has no
  delimiter.  `Talk`: an `Exchange` of the options and requests handled so far was written, that is, a decoder fed with it is back between
  tokens and has found the offer, the answers and the replies, in order, and the device's bytes; the rest is pending.  An exchange that ended
  inside a token could not be continued, which is what the reply to a command from 155 on does; so this part has the
  property's hypothesis.

**`ClientFanoutProofs`**, for any number of readers, any capacities and policies: `StallIsBounded` (the time spent and the
deadline of a wait are within the budget), `NoWakeupLost` (`WakeInv`: in which places of `recv` a wake-up can have been
handed over, and that only awaiting readers look before they sleep; a permit alone would not do), and, from `FanoutInv`,
`FanoutTyped`, `StreamIsFaithful`, `DropsAreExact` and `GapsAreExact`.  What a client received or lost is in no
variable by itself: it is spread over history, queue, the owner's locals and what the reader has taken.  `FanoutInv` relates them:

- `BaseInv`: what `on_device_rx` has in hand at each of its places, and that the history ring is the last chunks settled;
- `StreamInv`: what a client took and what waits for it rise, were offered to it, and hold nothing it gave up or is still due;
- `JoinInv`: from the first chunk of the history a client was given, every chunk was given or offered to it;
- `AccountInv`: the drop counter, with what the owner is about to add, is the number of (client, chunk) pairs lost for good, and who lost
  something, and nobody else, is named by a gap no older than the loss or is about to be.

**`EventFollowerProofs`**, for any number of clients, any ring, pages, channel and snapshot: `Followed`
(`LedgerInv /\ FollowInv`), `EventsTyped`, `FollowersMissNothing` (`FollowsExactly`), `NoMoreIsTheTruth`
(`NoMoreMeansNoMore`) and `ExportsAreWhole` (`ExportComplete`).  `LedgerInv` says that a store that works has the whole log, which makes a page read after a
checkpoint complete.  `FollowInv` says what each client has (every event it wants up to its cursor) and, by the place of its
request, that a stream leaves nothing out between cursor, what the server sent and the place in the live channel.  Pages are the
first so many matches in rising order; that such a listing exists is a lemma.

**`SegmentStoreProofs`**, for any processes, segment sizes, flush intervals and numbers of crashes: `Stored` (`StoreInv`), `SegmentsTyped`,
`ChainAlwaysLinked`, `EvidenceIsKept`, `CheckpointsSeal`.  `StoreInv` joins:

- `FilesInv`: what an open or preserved file may hold;
- `ProcsInv`: what a process has in hand at each of its places, that the lock keeps processes apart, and (`Backed`) that a file and its
  writer's buffer differ by less than a flush, which is what makes a loss countable;
- `ChainInv`: there are a first index, a next index (`base`, `top`) and a first sequence number for each segment (`start`), such that the sealed
  segments are a chain and whoever writes or rebuilds continues it.  `base` is not always 0 (a session whose
  first file has a bad header goes on with index 1), and no process reads such a session;
- `LossInv`: of the acknowledged events, fewer are in no file and no buffer than a flush for each fault.

**`WorkflowProofs`**, for any number of calls and ids: `RunsAreAlone`.  A call that executes has its id in `active`; the converse is
false, because an abandoned call leaves its id behind, and is not needed.  And for any valid definitions, any bytes and any
split of them into events: `Matched` (`MatchInv`), `RunsTyped`, `PassedExpectsAreEvidence` (`ExpectSound`) and `NoMatchIsMissed`
(`ExpectMissesNothing`).  The argument has two halves:

- about the functions: `Fall` gives the longest shorter match that goes on with a byte, so `PrefixTable` has the longest border of
  each beginning of the pattern (`PrefixTableOK`), so `Feed` keeps `Waiting`: the pattern does not occur in what was consumed, and
  `matched` is its longest beginning that ends it, until the byte that completes it (`FeedWaiting`);
- about the runs: `LedgerInv` and `LinkInv` are the types; `RunsInv` ties a run to its place.  An `expect` under way is `Waiting`
  over the bytes of every event from its start to its cursor, all of the run's epoch and none of them a break; a step starts at the
  cursor of the step before; the receiver stands right behind the cursor; and evidence once kept is evidence of the longer log.

Induction over data.  The induction theorems of the library take an operator as a parameter, which the installed provers
cannot instantiate, so no proof cites them.  Where a fact about every number or every sequence is needed, it is put as a set: one that
is closed under the step has them all.  `Least` gives the least element of a set of numbers, from the well-foundedness of
strict inclusion of finite sets; from it follow `UpFrom` and `DownFrom` for numbers and `Longer` for sequences, by their length.
The recursion of the model is in recursive functions; each is shown to exist with the same sets (`CanBeFed`, `CanBeGathered`,
`CanBePushed`), and is then what `CHOOSE` says it is.

Left to TLC: the five properties under fairness (`NothingHangs`, `OwnerReturns`, `Follows`, `LeaseComesBack`, `ShutdownEnds`), which are
out of the prover's reach.  Every other property of a passing run is a theorem.

## 6. Not modelled

- Small things, each of which the properties do not depend on: an empty HTTP write returns Ok and one that is too large an error before
  any check (`broker.rs:1436-1442`), and a stream read may be empty or overflow its frame, without a branch in
  `Broker` (`Telnet` has the overflow); leaving and the closing of the queue are one step in `ClientFanout`; a
  seal that failed may have renamed its segment, while `EventLedger` leaves it unreadable; a process that dies between footer and rename may
  lose more of the buffer in `SegmentStore` than it would; a snapshot is delivered whole in `EventFollower`; the send of a
  workflow call that was dropped is not recorded later; `Rfc2217` has the two framing modes, admission in
  the others is `Broker`'s.
- Replay is one pass over an immutable list: its checks are a conjunction, nothing interleaves with them, and
  its only state is a position.  What the files hold when it reads them is `SegmentStore`'s.
- Bridge (two blocking copies), observation log, static files, argument parsing, the parsing and validation of the
  configuration file (only `SerialSettings::validate`, what the owner keeps, and the profiles' claims are modelled).
- The socket loops of TCP, PTY and WebSocket appear as writers of `Broker`, readers of `ClientFanout` and
  tasks of `HubLifecycle`.  A TCP connection that waits for a device slot does not read its own
  queue, which under `block` the owner may be waiting for; the two halves are checked apart, each with the other's delay
  as a choice: the owner waits no longer than its budget for a reader that never reads (`StallBounded`), and a write call
  returns if the owner goes on (`NothingHangs`).
- Lifecycle: cancelling the future of `Supervisor::start` itself, dropping the runtime at exit, two selectors that
  name one device as a path and as a USB identity.
- Power loss, and what `fsync` is for.
- Workflow captures and limits, and how a definition is validated (that it is, is assumed); a workflow's lease is a step that passes or fails.

## 7. What could come next

In order of importance:

1. `Rfc2217`'s requests inside `SerialHub` instead of beside it, so that a handoff and a change of settings meet.
2. The TCP loop over `Broker` and `ClientFanout` in one state space, and the WebSocket adapter's history duplicate.
