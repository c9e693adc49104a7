----------------------------- MODULE SerialHub ------------------------------
(***************************************************************************)
(* The whole transmit path: the broker of Broker.tla composed with the     *)
(* thread of src/serial.rs that owns the serial handle.  The thread opens  *)
(* the port, applies control requests, validates and writes queued writes, *)
(* reconnects, releases the handle for a handoff and drains everything on  *)
(* shutdown.                                                               *)
(***************************************************************************)
EXTENDS Broker

CONSTANTS
  Reconnect,  \* cfg.reconnect
  MaxEpoch    \* bound: connections opened in a behaviour

ASSUME OwnerAssumption == Reconnect \in BOOLEAN /\ MaxEpoch \in Nat \ {0}
ASSUME NoneAssumption == None \notin [call : Calls, frame : Frames, seen : Tokens]

VARIABLES
  ownerPc,    \* where serial_thread is
  hand,       \* the write inside write_all, with the leases granted when it was validated
  ownerLeft,  \* time to the owner's own handoff deadline
  serving,    \* the begin request whose handoff the owner is in
  stop        \* StopSignal

ownerVars == <<ownerPc, hand, ownerLeft, serving, stop>>
vars == <<brokerVars, ownerVars>>

\* "top": top of the connection loop.  "opening": queues drained, about to open.
\* "io": inside io_loop.  "writing": inside write_all.  "lost": io_loop returned
\* Reconnect.  "releasing": io_loop returned Handoff.  "handoff": wait_handoff.
\* "stopping": left the loop.  "draining": close_pending_writes.  "stopped": gone.
OwnerPcs == {"top", "opening", "io", "writing", "lost", "releasing", "handoff",
             "stopping", "draining", "stopped"}

Init ==
  /\ BrokerInit
  /\ ownerPc = "top" /\ hand = None /\ ownerLeft = 0 /\ serving = None
  /\ stop = FALSE

-----------------------------------------------------------------------------
(* What the owner reports back                                             *)

\* on_device_tx_not_written for every write of ws: refused before any host write.
NotWritten(ws) ==
  [k \in Calls |-> [f \in Frames |->
     IF \E i \in DOMAIN ws : ws[i].call = k /\ ws[i].frame = f
       THEN "not_written" ELSE outcome[k][f]]]

\* drop_pending_writes, and its mutant that forgets to answer what it drops.
DropSilently == queue' = << >> /\ UNCHANGED outcome

DropPendingWrites == queue' = << >> /\ outcome' = NotWritten(queue)

\* An acknowledgement reaches the caller if it is still waiting for it.
Acknowledge(os, a) ==
  [o \in Ops |-> IF o \in os /\ op[o].pc = "wait" THEN [op[o] EXCEPT !.ack = a] ELSE op[o]]

RefuseNone(controls) == op

\* drop_pending_controls: every request still queued is refused.
Refused(controls) == Acknowledge({controls[i] : i \in DOMAIN controls}, "err")

\* set_port_status: a new epoch on the way from disconnected to connected only.
SetPort(up) ==
  /\ connected' = up
  /\ epoch' = IF up /\ ~connected THEN epoch + 1 ELSE epoch

-----------------------------------------------------------------------------
(* The connection loop                                                     *)

rest == <<client, leases, call>>

\* Nothing accepted for an earlier connection survives into the next one.
LoopTop ==
  /\ ownerPc = "top"
  /\ IF stop
       THEN ownerPc' = "stopping" /\ UNCHANGED <<queue, outcome, control, op>>
       ELSE /\ ownerPc' = "opening"
            /\ DropPendingWrites
            /\ op' = Refused(control) /\ control' = << >>
  /\ UNCHANGED <<rest, lock, handoff, connected, epoch, open, attached, hand,
                 ownerLeft, serving, stop>>

OpenSucceeds ==
  /\ ownerPc = "opening"
  /\ epoch < MaxEpoch
  /\ SetPort(TRUE)
  /\ ownerPc' = "io"
  /\ UNCHANGED <<rest, lock, handoff, queue, open, outcome, control, attached, op,
                 hand, ownerLeft, serving, stop>>

\* The open fails; the backoff is over when the loop starts again.
OpenFails ==
  /\ ownerPc = "opening"
  /\ SetPort(FALSE)
  /\ ownerPc' = IF Reconnect THEN "top" ELSE "stopping"
  /\ UNCHANGED <<rest, lock, handoff, queue, open, outcome, control, attached, op,
                 hand, ownerLeft, serving, stop>>

\* io_loop returned Reconnect: until this step the broker still says connected.
LinkLost ==
  /\ ownerPc = "lost"
  /\ SetPort(FALSE)
  /\ ownerPc' = IF Reconnect THEN "top" ELSE "stopping"
  /\ UNCHANGED <<rest, lock, handoff, queue, open, outcome, control, attached, op,
                 hand, ownerLeft, serving, stop>>

-----------------------------------------------------------------------------
(* io_loop                                                                 *)

IoStop ==
  /\ ownerPc = "io" /\ stop
  /\ ownerPc' = "stopping"
  /\ UNCHANGED <<brokerVars, hand, ownerLeft, serving, stop>>

\* One request from the channel.  A command is applied or refused by the device,
\* a begin drains the queued writes and leaves the loop, a resume is out of place.
TakeControl ==
  /\ ownerPc = "io" /\ control # << >>
  /\ control' = Tail(control)
  /\ LET o == Head(control)
     IN \/ /\ op[o].kind = "command"
           /\ \E a \in {"ok", "err"} : op' = Acknowledge({o}, a)
           /\ UNCHANGED <<queue, outcome, ownerPc, serving>>
        \/ /\ op[o].kind = "begin"
           /\ DropPendingWrites
           /\ ownerPc' = "releasing" /\ serving' = o
           /\ UNCHANGED op
        \/ /\ op[o].kind = "resume"
           /\ op' = Acknowledge({o}, "err")
           /\ UNCHANGED <<queue, outcome, ownerPc, serving>>
  /\ UNCHANGED <<rest, lock, handoff, connected, epoch, open, attached, hand,
                 ownerLeft, stop>>

\* One write from the channel: refused when stopping or when it no longer passes
\* validation, otherwise handed to write_all.
TakeWrite ==
  /\ ownerPc = "io" /\ queue # << >>
  /\ queue' = Tail(queue)
  /\ LET w == Head(queue)
     IN IF ~stop /\ ValidateDeviceWrite(w.call, w.left)
          THEN /\ hand' = [call |-> w.call, frame |-> w.frame, seen |-> leases]
               /\ ownerPc' = "writing"
               /\ UNCHANGED outcome
          ELSE /\ outcome' = [outcome EXCEPT ![w.call][w.frame] = "not_written"]
               /\ ownerPc' = IF stop THEN "stopping" ELSE "io"
               /\ UNCHANGED hand
  /\ UNCHANGED <<rest, lock, handoff, connected, epoch, open, control, attached, op,
                 ownerLeft, serving, stop>>

\* write_all and flush returned: on_device_tx_written / on_device_tx_failed.
HostWriteReturns(result, pc) ==
  /\ ownerPc = "writing"
  /\ outcome' = [outcome EXCEPT ![hand.call][hand.frame] = result]
  /\ hand' = None
  /\ ownerPc' = pc
  /\ UNCHANGED <<rest, lock, handoff, connected, epoch, queue, open, control,
                 attached, op, ownerLeft, serving, stop>>

HostWriteOk   == HostWriteReturns("written", "io")
HostWriteFails == HostWriteReturns("failed", "lost")

ReadFails ==
  /\ ownerPc = "io"
  /\ ownerPc' = "lost"
  /\ UNCHANGED <<brokerVars, hand, ownerLeft, serving, stop>>

-----------------------------------------------------------------------------
(* Handoff                                                                 *)

\* Drop the handle, publish "handoff", acknowledge, start the owner's deadline.
ReleasePort ==
  /\ ownerPc = "releasing"
  /\ SetPort(FALSE)
  /\ op' = Acknowledge({serving}, "ok")
  /\ ownerPc' = "handoff" /\ ownerLeft' = HandoffTTL
  /\ UNCHANGED <<rest, lock, handoff, queue, open, outcome, control, attached,
                 hand, serving, stop>>

\* wait_handoff serves the channel: a resume ends the wait, the rest is refused.
HandoffControl ==
  /\ ownerPc = "handoff" /\ control # << >>
  /\ control' = Tail(control)
  /\ LET o == Head(control)
         resumed == op[o].kind = "resume"
     IN /\ op' = Acknowledge({o}, IF resumed THEN "ok" ELSE "err")
        /\ IF resumed
             THEN ownerPc' = "top" /\ ownerLeft' = 0 /\ serving' = None
             ELSE UNCHANGED <<ownerPc, ownerLeft, serving>>
  /\ UNCHANGED <<rest, lock, handoff, connected, epoch, queue, open, outcome,
                 attached, hand, stop>>

HandoffExpiresWithRecord ==
  /\ ownerPc = "handoff" /\ ownerLeft = 0
  /\ handoff # None /\ handoff.left = 0
  /\ handoff' = None
  /\ ownerPc' = "top" /\ serving' = None
  /\ UNCHANGED <<rest, lock, connected, epoch, queue, open, outcome, control,
                 attached, op, hand, ownerLeft, stop>>

\* The owner's deadline: expire_handoff removes the broker's record only if the
\* record's own, later deadline has passed too.
HandoffExpires ==
  /\ ownerPc = "handoff" /\ ownerLeft = 0
  /\ handoff' = IF handoff # None /\ handoff.left = 0 THEN None ELSE handoff
  /\ ownerPc' = "top" /\ serving' = None
  /\ UNCHANGED <<rest, lock, connected, epoch, queue, open, outcome, control,
                 attached, op, hand, ownerLeft, stop>>

HandoffStop ==
  /\ ownerPc = "handoff" /\ stop
  /\ ownerPc' = "stopping" /\ ownerLeft' = 0 /\ serving' = None
  /\ UNCHANGED <<brokerVars, hand, stop>>

-----------------------------------------------------------------------------
(* Shutdown                                                                *)

StopRequested ==
  /\ ~stop
  /\ stop' = TRUE
  /\ UNCHANGED <<brokerVars, ownerPc, hand, ownerLeft, serving>>

\* Status "stopped", then write_rx.close(): no further slot is handed out.
StopPort ==
  /\ ownerPc = "stopping"
  /\ SetPort(FALSE)
  /\ open' = FALSE
  /\ ownerPc' = "draining"
  /\ UNCHANGED <<rest, lock, handoff, queue, outcome, control, attached, op, hand,
                 ownerLeft, serving, stop>>

\* blocking_recv: what is queued, or still arrives through an outstanding slot.
DrainWrite ==
  /\ ownerPc = "draining" /\ queue # << >>
  /\ queue' = Tail(queue)
  /\ outcome' = NotWritten(<<Head(queue)>>)
  /\ UNCHANGED <<rest, lock, handoff, connected, epoch, open, control, attached, op,
                 ownerVars>>

\* The channel is empty and every slot is used or returned.
Drained == ownerPc = "draining" /\ queue = << >> /\ Permits = {}

\* Refuse the queued requests, abort_handoff, detach_serial_control.
Stopped ==
  /\ Drained
  /\ op' = Refused(control) /\ control' = << >>
  /\ handoff' = None
  /\ attached' = FALSE
  /\ ownerPc' = "stopped"
  /\ UNCHANGED <<rest, lock, connected, epoch, queue, open, outcome, hand, ownerLeft,
                 serving, stop>>

-----------------------------------------------------------------------------
(* Time                                                                    *)

Dec(n) == IF n > 0 THEN n - 1 ELSE 0

TimersRunning ==
  \/ Active(lock) \/ ownerLeft > 0
  \/ handoff # None /\ handoff.left > 0
  \/ \E k \in Calls : call[k].left > 0
  \/ \E o \in Ops : op[o].left > 0
  \/ \E i \in DOMAIN queue : queue[i].left > 0

Tick ==
  /\ TimersRunning
  /\ lock' = [lock EXCEPT !.left = Dec(@)]
  /\ handoff' = IF handoff = None THEN None ELSE [handoff EXCEPT !.left = Dec(@)]
  /\ call' = [k \in Calls |-> [call[k] EXCEPT !.left = Dec(@)]]
  /\ op' = [o \in Ops |-> [op[o] EXCEPT !.left = Dec(@)]]
  /\ queue' = [i \in DOMAIN queue |-> [queue[i] EXCEPT !.left = Dec(@)]]
  /\ ownerLeft' = Dec(ownerLeft)
  /\ UNCHANGED <<client, leases, connected, epoch, open, outcome, control, attached,
                 ownerPc, hand, serving, stop>>

-----------------------------------------------------------------------------
\* The steps a started call, a started request and the owner take by themselves.
CallStep(k) ==
  /\ \/ Reserve(k) \/ ReserveFails(k) \/ Recheck(k) \/ Send(k)
     \/ Answered(k) \/ AnswerTimesOut(k)
  /\ UNCHANGED ownerVars

OpStep(o) ==
  (SendControl(o) \/ OpFails(o) \/ OpSucceeds(o)) /\ UNCHANGED ownerVars

OwnerStep ==
  \/ LoopTop \/ OpenSucceeds \/ OpenFails \/ LinkLost
  \/ IoStop \/ TakeControl \/ TakeWrite \/ HostWriteOk \/ HostWriteFails
  \/ ReleasePort \/ HandoffControl \/ HandoffExpires \/ HandoffStop
  \/ StopPort \/ DrainWrite \/ Stopped

Next ==
  \/ \E c \in Peers : (Register(c) \/ Unregister(c)) /\ UNCHANGED ownerVars
  \/ AcquireLock /\ UNCHANGED ownerVars
  \/ \E t \in 1..leases : RenewLock(t) /\ UNCHANGED ownerVars
  \/ \E t \in 1..leases : ReleaseLock(t) /\ UNCHANGED ownerVars
  \/ \E k \in Streams, c \in Peers, t \in 0..leases, n \in 0..MaxFrames :
       StreamWrite(k, c, t, n) /\ UNCHANGED ownerVars
  \/ \E k \in Apis, t \in 0..leases : ApiWrite(k, t) /\ UNCHANGED ownerVars
  \/ \E k \in Calls : CallStep(k) \/ (Cancel(k) /\ UNCHANGED ownerVars)
  \/ \E o \in Ops, t \in 1..leases : BeginHandoff(o, t) /\ UNCHANGED ownerVars
  \/ \E o \in Ops, t \in 1..leases : Command(o, t) /\ UNCHANGED ownerVars
  \/ \E o, h \in Ops : ResumeHandoff(o, h) /\ UNCHANGED ownerVars
  \/ \E o \in Ops : OpStep(o) \/ (OpCancel(o) /\ UNCHANGED ownerVars)
  \/ OwnerStep \/ ReadFails
  \/ StopRequested
  \/ Tick

Spec == Init /\ [][Next]_vars

\* What the scheduler gives: tasks that can run do, the owner thread runs until it
\* has stopped, and the clock advances.  Nobody has to open a connection, start a
\* request, hold or release a lease, resume a handoff or stop the hub.
Fairness ==
  /\ \A k \in Calls : WF_vars(CallStep(k))
  /\ \A o \in Ops : WF_vars(OpStep(o))
  /\ WF_vars(OwnerStep)
  /\ WF_vars(Tick)

FairSpec == Spec /\ Fairness

-----------------------------------------------------------------------------
(* Properties                                                              *)

CallPcs == {"new", "reserve", "permit", "send", "await", "done"}
Results == {"none", "ok", "denied", "not_queued", "not_attempted", "unknown", "cancelled"}
Write   == [call : Calls, frame : Frames, left : 0..WriteTimeout]
Fates   == {"none", "queued", "written", "failed", "not_written"}

OpPcs    == {"new", "send", "wait", "done"}
OpKinds  == {"none", "begin", "resume", "command"}
Verdicts == {"none", "ok", "err"}

CallRecord == [pc : CallPcs, client : Clients \cup {None}, token : Tokens,
               epoch : 0..MaxEpoch, frame : Frames, frames : 0..MaxFrames,
               left : 0..WriteTimeout, result : Results]
OpRecord   == [pc : OpPcs, kind : OpKinds, left : 0..WriteTimeout,
               ack : Verdicts, result : Verdicts \cup {"cancelled"}]

\* The types of the state: what each variable of the broker and the owner holds.
TypeOK ==
  /\ client \in [Clients -> {"new", "live", "left"}]
  /\ leases \in 0..MaxLeases
  /\ lock \in [token : Tokens, left : 0..LockTTL]
  /\ handoff \in [token : Ops, left : 0..HandoffTTL] \cup {None}
  /\ connected \in BOOLEAN /\ open \in BOOLEAN /\ attached \in BOOLEAN /\ stop \in BOOLEAN
  /\ epoch \in 0..MaxEpoch
  /\ queue \in Seq(Write)
  /\ call \in [Calls -> CallRecord]
  /\ outcome \in [Calls -> [Frames -> Fates]]
  /\ control \in Seq(Ops)
  /\ op \in [Ops -> OpRecord]
  /\ ownerPc \in OwnerPcs
  /\ hand \in [call : Calls, frame : Frames, seen : Tokens] \cup {None}
  /\ ownerLeft \in 0..HandoffTTL
  /\ serving \in Ops \cup {None}

Queued(i, k, f) == queue[i].call = k /\ queue[i].frame = f
InHand(k, f)    == hand # None /\ hand.call = k /\ hand.frame = f

\* Every admitted write has exactly one fate.  A frame that was sent is in the
\* queue, once, or in the owner's hand, and not both, until it is resolved; so no
\* reconnect, handoff or shutdown loses one, and none is written twice.
NoWriteLost ==
  /\ \A k \in Calls, f \in Frames :
       outcome[k][f] = "queued" <=> InHand(k, f) \/ \E i \in DOMAIN queue : Queued(i, k, f)
  /\ \A i, j \in DOMAIN queue :
       queue[i].call = queue[j].call /\ queue[i].frame = queue[j].frame => i = j
  /\ \A i \in DOMAIN queue : ~InHand(queue[i].call, queue[i].frame)

\* README: writes admitted while connected carry a connection epoch.  A write that
\* reaches the device does so over the connection it was admitted on, however long
\* it waited and whatever was reopened in between.
NoStaleEpochWrite ==
  hand # None => connected /\ call[hand.call].epoch = epoch

\* A write without the live lease's token can be on its way to the device only if
\* that lease was granted after the owner had already validated the write.
ForeignWriteOnlyIfEarlier ==
  hand # None /\ Active(lock) /\ call[hand.call].token # lock.token
    => lock.token > hand.seen

\* What a caller is told agrees with the device, then and ever after: success of an
\* HTTP write means written, and "denied", "not queued" or "not attempted" means
\* that no byte of the frame was or will be written.
DefiniteAnswers ==
  \A k \in Calls : call[k].pc = "done" =>
    /\ call[k].result = "ok" /\ k \in Apis => outcome[k][1] = "written"
    /\ call[k].result \in {"denied", "not_queued", "not_attempted"} =>
         \A f \in call[k].frame..MaxFrames :
           outcome[k][f] \in {"none", "not_written"} /\ ~InHand(k, f)

\* broker.rs on api_write: "queued commands cannot outlive their authority".  An
\* HTTP write starts on the wire only while its request is still waiting.
NoOrphanWrite ==
  [][hand = None /\ hand' # None =>
       /\ client[call[hand'.call].client] = "live"
       /\ hand'.call \in Apis => call[hand'.call].pc = "await"]_vars

\* Shutdown leaves nothing behind: once the owner is gone nothing is queued, no
\* caller holds a slot it could still fill, and no handoff record blocks the hub.
StoppedIsQuiescent ==
  ownerPc = "stopped" =>
    /\ queue = << >> /\ control = << >> /\ Permits = {} /\ ~connected /\ handoff = None
    /\ \A k \in Calls, f \in Frames : outcome[k][f] # "queued"
    /\ \A o \in Ops : op[o].pc = "wait" => op[o].ack # "none"

\* HANDOFF.md 2-3: from the acknowledgement until the owner's deadline the hub has
\* no handle and writes nothing, and once the caller has its answer no lease is
\* live for as long as the broker keeps the record.
HandoffExclusive ==
  \A o \in Ops : serving = o /\ "ok" \in {op[o].ack, op[o].result} =>
    /\ ~connected /\ hand = None
    /\ op[o].result = "ok" /\ handoff # None /\ handoff.token = o => ~Active(lock)

\* HANDOFF.md 4: if the tool does not resume, the owner does so by itself.
OwnerReturns == ownerPc = "handoff" ~> ownerPc # "handoff"

\* HANDOFF.md 3-4 as written: the broker rejects TX and leases while the window is
\* active and the owner resumes at the TTL boundary, so every window that a caller was
\* given ends for the broker too.  (It need not: see README.md, findings.)
HandoffWindowCloses ==
  handoff # None /\ op[handoff.token].result = "ok" ~> handoff = None

\* Every write call returns, whatever the device, the queue and the hub do, and a
\* requested stop ends the owner thread: neither a handoff, nor callers holding slots,
\* nor a failing device keeps close_pending_writes waiting for ever.
NothingHangs ==
  /\ \A k \in Calls : call[k].pc # "new" ~> call[k].pc = "done"
  /\ stop ~> ownerPc = "stopped"

-----------------------------------------------------------------------------
(* The inductive invariant                                                 *)

\* Where the owner's variables may differ from their idle values.
OwnerInv ==
  /\ hand # None <=> ownerPc = "writing"
  /\ serving # None <=> ownerPc \in {"releasing", "handoff"}
  /\ ownerPc \in {"handoff", "draining", "stopped"} => ~connected
  /\ ownerPc \in {"draining", "stopped"} => ~open
  /\ ownerPc = "stopped" => /\ queue = << >> /\ control = << >> /\ Permits = {}
                            /\ ~attached /\ handoff = None

\* The call has not sent its current frame, and never will if it was refused.
Unsent(k) == \/ call[k].pc \in {"new", "reserve", "permit", "send"}
             \/ call[k].result \in {"denied", "not_queued"}

\* What the program counter and the answer of a call say of its frames.
CallInv ==
  \A k \in Calls :
    /\ call[k].pc = "new" => call[k].frame = 1
    /\ call[k].pc # "done" => call[k].result = "none"
    /\ Unsent(k) => \A f \in call[k].frame..MaxFrames : outcome[k][f] = "none"

\* An HTTP write has one frame and a client of its own that leaves when it returns.
ApiInv ==
  \A k \in Apis :
    /\ call[k].frame = 1 /\ call[k].frames <= 1
    /\ call[k].pc # "new" => call[k].client = k
    /\ call[k].pc = "done" => client[k] = "left"
    /\ \A f \in 2..MaxFrames : outcome[k][f] = "none"
    /\ call[k].pc = "await" => outcome[k][1] # "none"
    /\ call[k].result = "ok" => outcome[k][1] = "written"
    /\ call[k].result = "not_attempted" => outcome[k][1] = "not_written"

\* Only an HTTP write waits for the device and learns what became of its frame.
StreamInv ==
  \A k \in Streams : call[k].pc # "await" /\ call[k].result # "not_attempted"

\* Tokens are granted in order; a write is in hand under the lease it was seen with.
LeaseInv ==
  /\ lock.token <= leases
  /\ hand # None => hand.seen <= leases

\* The owner still owes request o an answer.
Owed(o) == \/ \E i \in DOMAIN control : control[i] = o
           \/ ownerPc = "releasing" /\ serving = o

\* A request is in the channel or in the owner's hands once, and unanswered there.
ControlInv ==
  /\ \A i, j \in DOMAIN control : control[i] = control[j] => i = j
  /\ \A i \in DOMAIN control : ~(ownerPc = "releasing" /\ serving = control[i])
  /\ \A o \in Ops :
       /\ Owed(o) => op[o].pc \in {"wait", "done"} /\ op[o].ack = "none" /\ op[o].result # "ok"
       /\ op[o].pc = "wait" /\ op[o].ack = "none" => Owed(o)
       /\ op[o].pc \in {"new", "send"} => op[o].ack = "none"
       /\ op[o].pc # "done" => op[o].result = "none"

\* The record is that of a begin request; once that was granted, no lease is live.
HandoffInv ==
  handoff # None =>
    /\ op[handoff.token].kind = "begin" /\ op[handoff.token].pc # "new"
    /\ op[handoff.token].result = "ok" => ~Active(lock)

\* SerialHubProofs shows that every step preserves this conjunction.
IInv ==
  /\ TypeOK /\ OwnerInv /\ NoWriteLost /\ CallInv /\ ApiInv /\ StreamInv
  /\ LeaseInv /\ NoStaleEpochWrite /\ ForeignWriteOnlyIfEarlier
  /\ ControlInv /\ HandoffInv

=============================================================================
