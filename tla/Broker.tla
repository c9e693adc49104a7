------------------------------- MODULE Broker -------------------------------
(***************************************************************************)
(* The broker of src/broker.rs on the transmit side: client registration,  *)
(* write leases, the admission of a write and its way through the bounded  *)
(* device queue, and the requests (control lines, handoff, resume) sent to *)
(* the thread that owns the serial handle.                                 *)
(*                                                                         *)
(* BrokerState is behind one mutex, so every action that reads or writes   *)
(* client, lock, handoff, connected or epoch is one critical section of    *)
(* the code; what happens between two critical sections of one call (an    *)
(* await, a channel operation) is a step of its own.                       *)
(*                                                                         *)
(* Time is kept as the time each deadline has left, counted down by Tick:  *)
(* "now >= deadline" in the code is "left = 0" here.                       *)
(***************************************************************************)
EXTENDS TxPolicy, Sequences, FiniteSets

CONSTANTS
  Peers,         \* stream connections (TCP, PTY, WebSocket, RFC 2217)
  Primaries,     \* peers eligible as, and named as, tx.primary
  ReadOnly,      \* peers registered with can_write = false
  Apis,          \* HTTP writes; each registers a client of its own
  Streams,       \* writes made by peers
  Ops,           \* control-plane requests
  MaxFrames,     \* frames one stream write can complete
  QueueCap,      \* capacity of the serial_tx channel
  ControlCap,    \* capacity of the serial_control channel
  WriteTimeout,  \* write_timeout_ms in ticks
  HandoffTTL,    \* duration_ms of a handoff in ticks
  MaxLeases,     \* bound: leases granted in a behaviour
  None

Calls   == Apis \cup Streams
Clients == Peers \cup Apis
Frames  == 1..MaxFrames
Tokens  == NoToken..MaxLeases

ASSUME BoundsAssumption ==
  /\ {MaxFrames, QueueCap, ControlCap, WriteTimeout, HandoffTTL} \subseteq Nat \ {0}
  /\ MaxLeases \in Nat
ASSUME NamesAssumption ==
  /\ Apis \cap (Streams \cup Peers) = {}
  /\ Primaries \subseteq Peers \ ReadOnly
  /\ None \notin Clients \cup Ops
ASSUME FiniteAssumption == IsFiniteSet(Calls)

VARIABLES
  client,     \* BrokerState.clients: a ClientId registers once and leaves once
  lock,       \* BrokerState.lock
  leases,     \* number of leases granted so far, the last token drawn
  handoff,    \* BrokerState.handoff: the op that began it and its TTL
  connected,  \* BrokerState.port.connected
  epoch,      \* BrokerState.connection_epoch
  queue,      \* the serial_tx channel of DeviceWrites
  open,       \* the receiver of serial_tx has not been closed
  call,       \* one client_tx_inner invocation each
  outcome,    \* what became of each frame of each call
  control,    \* the serial_control channel
  attached,   \* the owner thread still holds the other end of it
  op          \* one begin_handoff / resume_handoff / serial_control each

brokerVars == <<client, lock, leases, handoff, connected, epoch, queue, open,
                call, outcome, control, attached, op>>

NewCall == [pc |-> "new", client |-> None, token |-> NoToken, epoch |-> 0,
            frame |-> 1, frames |-> 1, left |-> 0, result |-> "none"]
NewOp   == [pc |-> "new", kind |-> "none", left |-> 0, ack |-> "none", result |-> "none"]

BrokerInit ==
  /\ client = [c \in Clients |-> "new"]
  /\ lock = NoLease /\ leases = 0
  /\ handoff = None
  /\ connected = FALSE /\ epoch = 0
  /\ queue = << >> /\ open = TRUE
  /\ call = [k \in Calls |-> NewCall]
  /\ outcome = [k \in Calls |-> [f \in Frames |-> "none"]]
  /\ control = << >> /\ attached = TRUE
  /\ op = [o \in Ops |-> NewOp]

-----------------------------------------------------------------------------
(* Registration                                                            *)

\* register_client, by a stream adapter accepting a connection.
Register(c) ==
  /\ client[c] = "new"
  /\ client' = [client EXCEPT ![c] = "live"]
  /\ UNCHANGED <<lock, leases, handoff, connected, epoch, queue, open, call,
                 outcome, control, attached, op>>

\* unregister_client: leases are bearer credentials and stay as they are.
Unregister(c) ==
  /\ client[c] = "live"
  /\ client' = [client EXCEPT ![c] = "left"]
  /\ UNCHANGED <<lock, leases, handoff, connected, epoch, queue, open, call,
                 outcome, control, attached, op>>

-----------------------------------------------------------------------------
(* Write leases                                                            *)

leaseRest == <<client, handoff, connected, epoch, queue, open, call, outcome,
               control, attached, op>>

AcquireLockLongTTL ==
  /\ handoff = None
  /\ ~Active(lock)
  /\ leases < MaxLeases
  /\ leases' = leases + 1
  /\ lock' = [token |-> leases + 1, left |-> LockTTL + 1]
  /\ UNCHANGED leaseRest

\* acquire_lock: refused during a handoff and while another lease is live.
AcquireLock ==
  /\ handoff = None
  /\ ~Active(lock)
  /\ leases < MaxLeases
  /\ leases' = leases + 1
  /\ lock' = [token |-> leases + 1, left |-> LockTTL]
  /\ UNCHANGED leaseRest

\* renew_lock: an expired lease is removed, a live one runs its full TTL again.
RenewLock(token) ==
  /\ lock # NoLease
  /\ Active(lock) => Authorizes(lock, token)
  /\ lock' = IF Active(lock) THEN [lock EXCEPT !.left = LockTTL] ELSE NoLease
  /\ UNCHANGED <<leases, leaseRest>>

\* release_lock: a live lease needs its token, an expired one is just removed.
ReleaseLock(token) ==
  /\ lock # NoLease
  /\ Active(lock) => Authorizes(lock, token)
  /\ lock' = NoLease
  /\ UNCHANGED <<leases, leaseRest>>

-----------------------------------------------------------------------------
(* A write: admission, a queue slot, the check under the slot, the send    *)

PrimaryConnected == \E p \in Primaries : client[p] = "live"

CanWrite(c) == client[c] = "live" /\ c \notin ReadOnly

\* The gate of the first critical section of client_tx_inner.
Admissible(c, token) ==
  /\ handoff = None
  /\ connected
  /\ CanWrite(c)
  /\ AdmitWrite(lock, token, c \in Primaries, PrimaryConnected)

\* validate_device_write, for a write of call k with `left` time to its deadline.
\* The mutant loses the lease.
ValidateWithoutLease(k, left) ==
  handoff = None /\ connected /\ call[k].epoch = epoch /\ left > 0 /\ CanWrite(call[k].client)

ValidateDeviceWrite(k, left) ==
  /\ handoff = None
  /\ connected
  /\ call[k].epoch = epoch
  /\ left > 0
  /\ CanWrite(call[k].client)
  /\ call[k].token # NoToken => Authorizes(lock, call[k].token)
  /\ AdmitWrite(lock, call[k].token, call[k].client \in Primaries, PrimaryConnected)

\* The call returns.  An HTTP write drops its ClientRegistration with it.
FinishKeepingClient(k, result) ==
  /\ call' = [call EXCEPT ![k].pc = "done", ![k].result = result, ![k].left = 0]
  /\ UNCHANGED client

Finish(k, result) ==
  /\ call' = [call EXCEPT ![k].pc = "done", ![k].result = result, ![k].left = 0]
  /\ client' = IF k \in Apis THEN [client EXCEPT ![k] = "left"] ELSE client

writeRest == <<leases, handoff, connected, epoch, open, control, attached, op>>

\* client_tx_inner up to the first await: purge an expired lease, then deny the
\* write, return at once because the payload completes no frame (a partial line),
\* or remember the epoch the write was admitted in.
Purged(lease) == IF Active(lease) THEN lease ELSE NoLease

Admitted(c, token, n) ==
  [pc |-> "reserve", client |-> c, token |-> token, epoch |-> epoch, frame |-> 1,
   frames |-> n, left |-> WriteTimeout, result |-> "none"]

Returns(c, token, result) ==
  [pc |-> "done", client |-> c, token |-> token, epoch |-> 0, frame |-> 1,
   frames |-> 1, left |-> 0, result |-> result]

\* client_tx_with_lease on a registered stream client.
StreamWrite(k, c, token, n) ==
  /\ call[k].pc = "new"
  /\ client[c] # "new"
  /\ lock' = Purged(lock)
  /\ call' = [call EXCEPT ![k] =
       CASE ~Admissible(c, token)         -> Returns(c, token, "denied")
         [] Admissible(c, token) /\ n = 0 -> Returns(c, token, "ok")
         [] Admissible(c, token) /\ n > 0 -> Admitted(c, token, n)]
  /\ UNCHANGED <<writeRest, client, queue, outcome>>

\* api_write_with_lease: registers a client, never the primary, for this request
\* alone and writes one atomic frame.
ApiWrite(k, token) ==
  LET allowed == handoff = None /\ connected /\ AdmitWrite(lock, token, FALSE, PrimaryConnected)
  IN /\ call[k].pc = "new"
     /\ lock' = Purged(lock)
     /\ client' = [client EXCEPT ![k] = IF allowed THEN "live" ELSE "left"]
     /\ call' = [call EXCEPT ![k] = IF allowed THEN Admitted(k, token, 1) ELSE Returns(k, token, "denied")]
     /\ UNCHANGED <<writeRest, queue, outcome>>

\* Callers that hold a slot of the channel they have not used yet.
Permits == {k \in Calls : call[k].pc \in {"permit", "send"}}

\* serial_tx.reserve() returns a slot.
Reserve(k) ==
  /\ call[k].pc = "reserve"
  /\ open
  /\ Len(queue) + Cardinality(Permits) < QueueCap
  /\ call' = [call EXCEPT ![k].pc = "permit"]
  /\ UNCHANGED <<writeRest, client, lock, queue, outcome>>

\* The deadline passes, or the receiver is closed, before there is a slot.
ReserveFails(k) ==
  /\ call[k].pc = "reserve"
  /\ call[k].left = 0 \/ ~open
  /\ Finish(k, "not_queued")
  /\ UNCHANGED <<writeRest, lock, queue, outcome>>

RecheckRetries(k) ==
  /\ call[k].pc = "permit"
  /\ IF ValidateDeviceWrite(k, call[k].left)
       THEN call' = [call EXCEPT ![k].pc = "send"]
       ELSE UNCHANGED call
  /\ UNCHANGED <<writeRest, client, lock, queue, outcome>>

\* A mutant that goes on with the next frame of a refused write.
RecheckSkips(k) ==
  /\ call[k].pc = "permit"
  /\ IF ValidateDeviceWrite(k, call[k].left)
       THEN call' = [call EXCEPT ![k].pc = "send"] /\ UNCHANGED client
       ELSE IF call[k].frame < call[k].frames
         THEN call' = [call EXCEPT ![k].pc = "reserve", ![k].frame = @ + 1] /\ UNCHANGED client
         ELSE Finish(k, "not_queued")
  /\ UNCHANGED <<writeRest, lock, queue, outcome>>

\* The second validation, made with the slot in hand; a refusal drops the slot.
Recheck(k) ==
  /\ call[k].pc = "permit"
  /\ IF ValidateDeviceWrite(k, call[k].left)
       THEN call' = [call EXCEPT ![k].pc = "send"] /\ UNCHANGED client
       ELSE Finish(k, "not_queued")
  /\ UNCHANGED <<writeRest, lock, queue, outcome>>

\* permit.send: an HTTP write then waits for the owner's completion, a stream
\* write goes on to its next frame.
Send(k) ==
  /\ call[k].pc = "send"
  /\ queue' = Append(queue, [call |-> k, frame |-> call[k].frame, left |-> call[k].left])
  /\ outcome' = [outcome EXCEPT ![k][call[k].frame] = "queued"]
  /\ \/ /\ k \in Apis
        /\ call' = [call EXCEPT ![k].pc = "await"] /\ UNCHANGED client
     \/ /\ k \in Streams /\ call[k].frame < call[k].frames
        /\ call' = [call EXCEPT ![k].pc = "reserve", ![k].frame = @ + 1,
                                ![k].left = WriteTimeout]
        /\ UNCHANGED client
     \/ /\ k \in Streams /\ call[k].frame = call[k].frames
        /\ Finish(k, "ok")
  /\ UNCHANGED <<writeRest, lock>>

AnswerOptimistic(result) ==
  IF result = "written" THEN {"ok"} ELSE {"not_attempted"}

\* What the completion of a resolved write may tell the caller: a frame that was
\* written and could not be recorded is "device write succeeded, but".
Answer(result) ==
  CASE result = "written"     -> {"ok", "unknown"}
    [] result = "failed"      -> {"unknown"}
    [] result = "not_written" -> {"not_attempted"}

Answered(k) ==
  /\ call[k].pc = "await"
  /\ outcome[k][call[k].frame] \in {"written", "failed", "not_written"}
  /\ \E r \in Answer(outcome[k][call[k].frame]) : Finish(k, r)
  /\ UNCHANGED <<writeRest, lock, queue, outcome>>

\* The acknowledgement deadline passes: "outcome may be unknown".
AnswerTimesOut(k) ==
  /\ call[k].pc = "await"
  /\ call[k].left = 0
  /\ Finish(k, "unknown")
  /\ UNCHANGED <<writeRest, lock, queue, outcome>>

\* The task is dropped at an await (the HTTP peer or the connection is gone).
Cancel(k) ==
  /\ call[k].pc \in {"reserve", "await"}
  /\ Finish(k, "cancelled")
  /\ UNCHANGED <<writeRest, lock, queue, outcome>>

-----------------------------------------------------------------------------
(* Requests to the owner thread                                            *)

opRest == <<client, leases, connected, epoch, queue, open, call, outcome, attached>>

Requested(o, kind) == [op EXCEPT ![o].pc = "send", ![o].kind = kind, ![o].left = WriteTimeout]
Returned(o, result) == [op EXCEPT ![o].pc = "done", ![o].result = result, ![o].left = 0]

\* What begin_handoff, serial_control and serial_configure check under the mutex.
ControlAllowed(token) ==
  handoff = None /\ connected /\ Authorizes(lock, token) /\ attached

\* begin_handoff: the record is written before the owner is asked.
BeginHandoff(o, token) ==
  /\ op[o].pc = "new"
  /\ ControlAllowed(token)
  /\ handoff' = [token |-> o, left |-> HandoffTTL]
  /\ op' = Requested(o, "begin")
  /\ UNCHANGED <<opRest, lock, control>>

\* resume_handoff: an expired record is removed and the call fails, otherwise
\* the token must be the record's.
ResumeHandoff(o, token) ==
  /\ op[o].pc = "new"
  /\ handoff # None
  /\ IF handoff.left = 0
       THEN /\ handoff' = None
            /\ op' = [Returned(o, "err") EXCEPT ![o].kind = "resume"]
       ELSE /\ handoff.token = token /\ attached
            /\ op' = Requested(o, "resume")
            /\ UNCHANGED handoff
  /\ UNCHANGED <<opRest, lock, control>>

\* serial_control and serial_configure.
Command(o, token) ==
  /\ op[o].pc = "new"
  /\ ControlAllowed(token)
  /\ op' = Requested(o, "command")
  /\ UNCHANGED <<opRest, lock, handoff, control>>

\* The request enters the channel; the acknowledgement has its own deadline.
SendControl(o) ==
  /\ op[o].pc = "send"
  /\ attached /\ Len(control) < ControlCap
  /\ control' = Append(control, o)
  /\ op' = [op EXCEPT ![o].pc = "wait", ![o].left = WriteTimeout]
  /\ UNCHANGED <<opRest, lock, handoff>>

\* clear_handoff_if: only the record this call wrote.
ClearOwnHandoff(o) ==
  IF op[o].kind = "begin" /\ handoff # None /\ handoff.token = o THEN None ELSE handoff

\* The channel is closed or full past the deadline, the owner refuses, or it
\* does not answer in time (its request may then still be in the channel).
OpFails(o) ==
  /\ \/ op[o].pc = "send" /\ ~attached
     \/ op[o].pc = "send" /\ op[o].left = 0 /\ Len(control) >= ControlCap
     \/ op[o].pc = "wait" /\ op[o].ack = "err"
     \/ op[o].pc = "wait" /\ op[o].ack = "none" /\ op[o].left = 0
  /\ op' = Returned(o, "err")
  /\ handoff' = ClearOwnHandoff(o)
  /\ UNCHANGED <<opRest, lock, control>>

\* The future of a request is dropped while it awaits (the HTTP peer is gone).  Its
\* envelope stays in the channel, its handoff record where it is.
OpCancel(o) ==
  /\ op[o].pc \in {"send", "wait"}
  /\ op' = Returned(o, "cancelled")
  /\ UNCHANGED <<opRest, lock, handoff, control>>

OpSucceedsKeepingLease(o) ==
  /\ op[o].pc = "wait" /\ op[o].ack = "ok"
  /\ op' = Returned(o, "ok")
  /\ handoff' = IF op[o].kind = "resume" THEN None ELSE handoff
  /\ UNCHANGED <<opRest, lock, control>>

\* The owner acknowledged.  begin_handoff restarts the TTL of whatever record it
\* finds and takes the lease; resume_handoff removes the record.
OpSucceeds(o) ==
  /\ op[o].pc = "wait" /\ op[o].ack = "ok"
  /\ op' = Returned(o, "ok")
  /\ handoff' = CASE op[o].kind = "begin" /\ handoff # None ->
                       [handoff EXCEPT !.left = HandoffTTL]
                  [] op[o].kind = "resume" -> None
                  [] OTHER -> handoff
  /\ lock' = IF op[o].kind = "begin" THEN NoLease ELSE lock
  /\ UNCHANGED <<opRest, control>>

=============================================================================
