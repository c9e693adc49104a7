-------------------------- MODULE SerialHubProofs ---------------------------
(***************************************************************************)
(* What holds of SerialHub for any number of clients, calls and requests   *)
(* and any capacities and deadlines, with its proof.  Types come first     *)
(* (TypeNext).  None of the properties is inductive alone: that a queued   *)
(* frame is answered once needs to know which call sent it, that an answer *)
(* is true needs to know what the owner still holds, that a handoff finds  *)
(* no lease needs to know what every pending request may still become.     *)
(* IInv of SerialHub joins these parts; one lemma per action, or per group *)
(* of actions with the same effect, shows that the action preserves all of *)
(* them (InvNext), and theorems read the properties off.                   *)
(*                                                                         *)
(* The last part shows that SerialHub implements DeviceAccess.  Each lemma *)
(* there takes one kind of step and shows two things of it: that it keeps  *)
(* RefInv, the order of the frames of a call, and which step of            *)
(* DeviceAccess it is under the refinement mapping.                        *)
(***************************************************************************)
EXTENDS SerialHubRefinement, TLAPS

\* What the assumptions say of the constants, as facts.
LEMMA Constants ==
  /\ MaxFrames \in Nat \ {0} /\ QueueCap \in Nat \ {0} /\ ControlCap \in Nat \ {0}
  /\ WriteTimeout \in Nat \ {0} /\ HandoffTTL \in Nat \ {0}
  /\ MaxLeases \in Nat /\ LockTTL \in Nat \ {0} /\ MaxEpoch \in Nat \ {0}
  /\ Apis \cap Streams = {} /\ Apis \cap Peers = {}
  BY BoundsAssumption, LockTTLAssumption, OwnerAssumption, NamesAssumption

\* The members of the enumerations, so that the steps can leave those unexpanded.
LEMMA Members ==
  /\ "new" \in CallPcs /\ "reserve" \in CallPcs /\ "permit" \in CallPcs
  /\ "send" \in CallPcs /\ "await" \in CallPcs /\ "done" \in CallPcs
  /\ "none" \in Results /\ "ok" \in Results /\ "denied" \in Results
  /\ "not_queued" \in Results /\ "not_attempted" \in Results
  /\ "unknown" \in Results /\ "cancelled" \in Results
  /\ "none" \in Fates /\ "queued" \in Fates /\ "written" \in Fates
  /\ "failed" \in Fates /\ "not_written" \in Fates
  /\ "new" \in OpPcs /\ "send" \in OpPcs /\ "wait" \in OpPcs /\ "done" \in OpPcs
  /\ "none" \in OpKinds /\ "begin" \in OpKinds /\ "resume" \in OpKinds /\ "command" \in OpKinds
  /\ "none" \in Verdicts /\ "ok" \in Verdicts /\ "err" \in Verdicts
  BY DEF CallPcs, Results, Fates, OpPcs, OpKinds, Verdicts

\* The boundary values of clocks, frames, tokens and epochs lie in their ranges.
LEMMA Numbers ==
  /\ 0 \in 0..WriteTimeout /\ WriteTimeout \in 0..WriteTimeout
  /\ 0 \in 0..HandoffTTL /\ HandoffTTL \in 0..HandoffTTL
  /\ 0 \in 0..LockTTL /\ LockTTL \in 0..LockTTL
  /\ 0 \in 0..MaxFrames /\ 1 \in 0..MaxFrames /\ 1 \in Frames /\ 0 \in 0..MaxEpoch
  /\ NoToken \in Tokens /\ NoToken = 0
  BY Constants DEF Frames, Tokens, NoToken

\* Taking the first element of a queue keeps the type of the rest.
LEMMA HeadTail ==
  \A S : /\ << >> \in Seq(S)
         /\ \A s \in Seq(S) : s # << >> => Head(s) \in S /\ Tail(s) \in Seq(S)
  OBVIOUS

-----------------------------------------------------------------------------
(* Types                                                                   *)

\* A call and a request that were never made are records of their types.
LEMMA NewTypes == NewCall \in CallRecord /\ NewOp \in OpRecord
  BY Constants DEF NewCall, NewOp, CallRecord, OpRecord, NoToken, Tokens, Frames, CallPcs, Results,
     OpPcs, OpKinds, Verdicts

\* The initial state is well typed.
LEMMA TypeInit == Init => TypeOK
<1> SUFFICES ASSUME Init PROVE TypeOK
  OBVIOUS
<1> USE DEF Init, BrokerInit
<1>1. call \in [Calls -> CallRecord]
  BY NewTypes
<1>2. op \in [Ops -> OpRecord]
  BY NewTypes
<1>3. lock \in [token : Tokens, left : 0..LockTTL] /\ leases \in 0..MaxLeases
  BY Constants DEF NoLease, NoToken, Tokens
<1>4. queue \in Seq(Write) /\ control \in Seq(Ops)
  OBVIOUS
<1>5. epoch \in 0..MaxEpoch /\ ownerLeft \in 0..HandoffTTL
  BY Constants
<1> QED
  BY <1>1, <1>2, <1>3, <1>4, <1>5 DEF TypeOK, OwnerPcs, Fates

\* A call that returns stays a call, and a client that leaves stays a client.
LEMMA FinishType ==
  ASSUME TypeOK, NEW k \in Calls, NEW r \in Results, Finish(k, r)
  PROVE  call' \in [Calls -> CallRecord] /\ client' \in [Clients -> {"new", "live", "left"}]
<1>1. ASSUME NEW c \in CallRecord
      PROVE  [c EXCEPT !.pc = "done", !.result = r, !.left = 0] \in CallRecord
  BY Members, Numbers DEF CallRecord
<1>2. call \in [Calls -> CallRecord]
  BY DEF TypeOK
<1>3. call' = [call EXCEPT ![k] = [@ EXCEPT !.pc = "done", !.result = r, !.left = 0]]
  BY <1>2 DEF Finish
<1>4. call' \in [Calls -> CallRecord]
  BY <1>1, <1>2, <1>3
<1>5. client' \in [Clients -> {"new", "live", "left"}]
  BY DEF TypeOK, Finish
<1> QED BY <1>4, <1>5

\* What the owner reports for dropped writes and answers to requests has the types.
LEMMA ReportType ==
  ASSUME TypeOK, NEW ws
  PROVE  NotWritten(ws) \in [Calls -> [Frames -> Fates]]
  BY DEF TypeOK, NotWritten, Fates

\* A request stays a request when the owner answers it or not.
LEMMA AcknowledgeType ==
  ASSUME TypeOK, NEW os, NEW a \in Verdicts
  PROVE  Acknowledge(os, a) \in [Ops -> OpRecord]
<1>1. ASSUME NEW r \in OpRecord PROVE [r EXCEPT !.ack = a] \in OpRecord
  BY DEF OpRecord
<1> QED BY <1>1 DEF TypeOK, Acknowledge

\* A status the owner publishes keeps the epoch in its range while it may grow.
LEMMA SetPortType ==
  ASSUME TypeOK, NEW up \in BOOLEAN, SetPort(up), up => epoch < MaxEpoch
  PROVE  connected' \in BOOLEAN /\ epoch' \in 0..MaxEpoch
  BY Constants DEF TypeOK, SetPort

\* Granting, renewing, releasing and revoking a lease keep its type.
LEMMA LeaseType ==
  ASSUME TypeOK,
         AcquireLock \/ (\E t \in 1..leases : RenewLock(t) \/ ReleaseLock(t))
  PROVE  /\ lock' \in [token : Tokens, left : 0..LockTTL]
         /\ leases' \in 0..MaxLeases
<1>1. lock \in [token : Tokens, left : 0..LockTTL] /\ leases \in 0..MaxLeases
  BY DEF TypeOK
<1>2. NoLease \in [token : Tokens, left : 0..LockTTL]
  BY Numbers DEF NoLease
<1>3. CASE AcquireLock
  <2>1. leases + 1 \in 0..MaxLeases /\ leases + 1 \in Tokens
    BY <1>1, <1>3, Constants DEF AcquireLock, Tokens, NoToken
  <2> QED BY <1>3, <2>1, Numbers DEF AcquireLock
<1>4. ASSUME NEW t \in 1..leases, RenewLock(t) \/ ReleaseLock(t)
      PROVE  lock' \in [token : Tokens, left : 0..LockTTL] /\ leases' = leases
  <2>1. [lock EXCEPT !.left = LockTTL] \in [token : Tokens, left : 0..LockTTL]
    BY <1>1, Numbers
  <2> QED BY <1>2, <1>4, <2>1 DEF RenewLock, ReleaseLock
<1> QED BY <1>1, <1>3, <1>4

\* A lease that may have lapsed is a lease or none.
LEMMA PurgedType ==
  ASSUME TypeOK
  PROVE  Purged(lock) \in [token : Tokens, left : 0..LockTTL]
  BY Constants DEF TypeOK, Purged, NoLease, NoToken, Tokens

\* What admission grants or refuses keeps the types of call and outcome.
LEMMA AdmissionType ==
  ASSUME TypeOK, NEW c \in Clients, NEW t \in 0..leases
  PROVE  /\ \A n \in 1..MaxFrames : Admitted(c, t, n) \in CallRecord
         /\ \A r \in Results : Returns(c, t, r) \in CallRecord
<1>1. t \in Tokens /\ epoch \in 0..MaxEpoch
  BY Constants DEF TypeOK, Tokens, NoToken
<1>2. ASSUME NEW n \in 1..MaxFrames PROVE Admitted(c, t, n) \in CallRecord
  BY <1>1, Constants, Members, Numbers DEF Admitted, CallRecord
<1>3. ASSUME NEW r \in Results PROVE Returns(c, t, r) \in CallRecord
  BY <1>1, Members, Numbers DEF Returns, CallRecord
<1> QED BY <1>2, <1>3

\* The calls: what a step of a write does to the call, the queue and the fates.
LEMMA CallType ==
  ASSUME TypeOK, NEW k \in Calls,
         Reserve(k) \/ ReserveFails(k) \/ Recheck(k) \/ Send(k) \/ Answered(k)
           \/ AnswerTimesOut(k) \/ Cancel(k)
  PROVE  /\ call' \in [Calls -> CallRecord]
         /\ client' \in [Clients -> {"new", "live", "left"}]
         /\ queue' \in Seq(Write) /\ outcome' \in [Calls -> [Frames -> Fates]]
         /\ UNCHANGED <<writeRest, lock>>
<1> USE DEF writeRest
<1>0. /\ call \in [Calls -> CallRecord] /\ client \in [Clients -> {"new", "live", "left"}]
      /\ queue \in Seq(Write) /\ outcome \in [Calls -> [Frames -> Fates]]
  BY DEF TypeOK
<1>1. ASSUME NEW pc \in CallPcs PROVE [call EXCEPT ![k].pc = pc] \in [Calls -> CallRecord]
  <2>1. [call[k] EXCEPT !.pc = pc] \in CallRecord
    BY <1>0 DEF CallRecord
  <2>2. [call EXCEPT ![k].pc = pc] = [call EXCEPT ![k] = [@ EXCEPT !.pc = pc]]
    BY <1>0
  <2> QED BY <1>0, <2>1, <2>2
<1>2. CASE Reserve(k)
  BY <1>0, <1>1, <1>2, Members DEF Reserve
<1>3. CASE ReserveFails(k)
  BY <1>0, <1>3, FinishType, Members DEF ReserveFails
<1>4. CASE Recheck(k)
  BY <1>0, <1>1, <1>4, FinishType, Members DEF Recheck
<1>5. CASE Send(k)
  <2>1. [call |-> k, frame |-> call[k].frame, left |-> call[k].left] \in Write
    BY <1>0 DEF CallRecord, Write
  <2>2. queue' \in Seq(Write)
    BY <1>0, <1>5, <2>1 DEF Send
  <2>3. outcome' \in [Calls -> [Frames -> Fates]]
    BY <1>0, <1>5, Members DEF Send, CallRecord
  <2>4. ASSUME call[k].frame < call[k].frames
        PROVE  [call EXCEPT ![k].pc = "reserve", ![k].frame = @ + 1, ![k].left = WriteTimeout]
                 \in [Calls -> CallRecord]
    <3>1. call[k].frame + 1 \in Frames
      BY <1>0, <2>4, Constants DEF CallRecord, Frames
    <3>2. ASSUME NEW f \in Frames
          PROVE  [call[k] EXCEPT !.pc = "reserve", !.frame = f, !.left = WriteTimeout] \in CallRecord
      BY <1>0, Members, Numbers DEF CallRecord
    <3>3. [call EXCEPT ![k].pc = "reserve", ![k].frame = @ + 1, ![k].left = WriteTimeout]
          = [call EXCEPT ![k] = [call[k] EXCEPT !.pc = "reserve", !.frame = call[k].frame + 1,
                                                !.left = WriteTimeout]]
      BY <1>0
    <3> QED BY <1>0, <3>1, <3>2, <3>3
  <2>5. CASE k \in Apis /\ call' = [call EXCEPT ![k].pc = "await"] /\ UNCHANGED client
    BY <1>0, <1>1, <1>5, <2>2, <2>3, <2>5, Members DEF Send
  <2>6. CASE /\ call[k].frame < call[k].frames /\ UNCHANGED client
             /\ call' = [call EXCEPT ![k].pc = "reserve", ![k].frame = @ + 1,
                                     ![k].left = WriteTimeout]
    BY <1>0, <1>5, <2>2, <2>3, <2>4, <2>6 DEF Send
  <2>7. CASE Finish(k, "ok")
    BY <1>0, <1>5, <2>2, <2>3, <2>7, FinishType, Members DEF Send
  <2> QED BY <1>5, <2>5, <2>6, <2>7 DEF Send
<1>6. CASE Answered(k)
  <2>1. PICK r \in Answer(outcome[k][call[k].frame]) : Finish(k, r)
    BY <1>6 DEF Answered
  <2>2. r \in Results
    BY <1>6, <2>1, Members DEF Answered, Answer
  <2> QED BY <1>0, <1>6, <2>1, <2>2, FinishType DEF Answered
<1>7. CASE AnswerTimesOut(k)
  BY <1>0, <1>7, FinishType, Members DEF AnswerTimesOut
<1>8. CASE Cancel(k)
  BY <1>0, <1>8, FinishType, Members DEF Cancel
<1> QED BY <1>2, <1>3, <1>4, <1>5, <1>6, <1>7, <1>8

\* The control requests.
LEMMA OpType ==
  ASSUME TypeOK, NEW o \in Ops,
         SendControl(o) \/ OpFails(o) \/ OpCancel(o) \/ OpSucceeds(o)
           \/ (\E t \in 1..leases : BeginHandoff(o, t) \/ Command(o, t))
           \/ (\E h \in Ops : ResumeHandoff(o, h))
  PROVE  /\ op' \in [Ops -> OpRecord] /\ control' \in Seq(Ops)
         /\ handoff' \in [token : Ops, left : 0..HandoffTTL] \cup {None}
         /\ lock' \in [token : Tokens, left : 0..LockTTL]
         /\ UNCHANGED opRest
<1>0. /\ op \in [Ops -> OpRecord] /\ control \in Seq(Ops)
      /\ handoff \in [token : Ops, left : 0..HandoffTTL] \cup {None}
      /\ lock \in [token : Tokens, left : 0..LockTTL]
  BY DEF TypeOK
<1>1. ASSUME NEW r \in Verdicts \cup {"cancelled"}
      PROVE  /\ Returned(o, r) \in [Ops -> OpRecord]
             /\ [Returned(o, r) EXCEPT ![o].kind = "resume"] \in [Ops -> OpRecord]
  <2>1. Returned(o, r) \in [Ops -> OpRecord]
    BY <1>0, Numbers, Members DEF Returned, OpRecord
  <2>2. ASSUME NEW f \in [Ops -> OpRecord]
        PROVE  [f EXCEPT ![o].kind = "resume"] \in [Ops -> OpRecord]
    BY Members DEF OpRecord
  <2> QED BY <2>1, <2>2
<1>2. ASSUME NEW kind \in OpKinds
      PROVE  Requested(o, kind) \in [Ops -> OpRecord]
  BY <1>0, Numbers, Members DEF Requested, OpRecord
<1>3. NoLease \in [token : Tokens, left : 0..LockTTL]
  BY Numbers DEF NoLease
<1>4. CASE SendControl(o)
  <2>1. op' \in [Ops -> OpRecord]
    BY <1>0, <1>4, Numbers, Members DEF SendControl, OpRecord
  <2> QED BY <1>0, <1>4, <2>1 DEF SendControl
<1>5. CASE OpFails(o)
  BY <1>0, <1>1, <1>5, Members DEF OpFails, ClearOwnHandoff
<1>5a. CASE OpCancel(o)
  BY <1>0, <1>1, <1>5a DEF OpCancel
<1>6. CASE OpSucceeds(o)
  <2>1. handoff # None => [handoff EXCEPT !.left = HandoffTTL] \in [token : Ops, left : 0..HandoffTTL]
    BY <1>0, Numbers
  <2> QED BY <1>0, <1>1, <1>3, <1>6, <2>1, Members DEF OpSucceeds
<1>7. ASSUME NEW t \in 1..leases, BeginHandoff(o, t) \/ Command(o, t)
      PROVE  /\ op' \in [Ops -> OpRecord] /\ UNCHANGED <<control, lock, opRest>>
             /\ handoff' \in [token : Ops, left : 0..HandoffTTL] \cup {None}
  BY <1>0, <1>2, <1>7, Numbers, Members DEF BeginHandoff, Command
<1>8. ASSUME NEW h \in Ops, ResumeHandoff(o, h)
      PROVE  /\ op' \in [Ops -> OpRecord] /\ UNCHANGED <<control, lock, opRest>>
             /\ handoff' \in [token : Ops, left : 0..HandoffTTL] \cup {None}
  <2>1. [Returned(o, "err") EXCEPT ![o].kind = "resume"] \in [Ops -> OpRecord]
    BY <1>1, Members
  <2> QED BY <1>0, <1>2, <1>8, <2>1, Members DEF ResumeHandoff
<1> QED BY <1>0, <1>4, <1>5, <1>5a, <1>6, <1>7, <1>8

\* Every step of the owner thread keeps the types.
LEMMA OwnerType ==
  ASSUME TypeOK, OwnerStep \/ ReadFails
  PROVE  TypeOK'
<1> USE DEF TypeOK, OwnerPcs, rest, brokerVars, ownerVars
<1>0. DropPendingWrites => queue' \in Seq(Write) /\ outcome' \in [Calls -> [Frames -> Fates]]
  BY ReportType DEF DropPendingWrites
<1>1. CASE LoopTop
  <2>1. Refused(control) \in [Ops -> OpRecord]
    BY AcknowledgeType, Members DEF Refused
  <2>2. << >> \in Seq(Ops)
    BY HeadTail
  <2> QED BY <1>0, <1>1, <2>1, <2>2 DEF LoopTop
<1>2. CASE OpenSucceeds
  BY <1>2, SetPortType DEF OpenSucceeds
<1>3. CASE OpenFails
  BY <1>3, SetPortType DEF OpenFails
<1>4. CASE LinkLost
  BY <1>4, SetPortType DEF LinkLost
<1>5. CASE IoStop
  BY <1>5 DEF IoStop
<1>6. CASE TakeControl
  <2>1. Head(control) \in Ops /\ Tail(control) \in Seq(Ops)
    BY <1>6, HeadTail DEF TakeControl
  <2>2. \A a \in Verdicts : Acknowledge({Head(control)}, a) \in [Ops -> OpRecord]
    BY AcknowledgeType
  <2> QED BY <1>0, <1>6, <2>1, <2>2, Members DEF TakeControl
<1>7. CASE TakeWrite
  <2>1. Head(queue) \in Write /\ Tail(queue) \in Seq(Write)
    BY <1>7, HeadTail DEF TakeWrite
  <2>2. /\ Head(queue).call \in Calls /\ Head(queue).frame \in Frames
        /\ leases \in Tokens
    BY <2>1, Constants DEF Write, Tokens, NoToken
  <2>3. [outcome EXCEPT ![Head(queue).call][Head(queue).frame] = "not_written"]
          \in [Calls -> [Frames -> Fates]]
    BY <2>2, Members
  <2>4. [call |-> Head(queue).call, frame |-> Head(queue).frame, seen |-> leases]
          \in [call : Calls, frame : Frames, seen : Tokens]
    BY <2>2
  <2> QED BY <1>7, <2>1, <2>3, <2>4 DEF TakeWrite
<1>8. ASSUME NEW r \in Fates, NEW pc \in OwnerPcs, HostWriteReturns(r, pc) PROVE TypeOK'
  <2>1. outcome' \in [Calls -> [Frames -> Fates]]
    BY <1>8 DEF HostWriteReturns
  <2> QED BY <1>8, <2>1 DEF HostWriteReturns
<1>9. CASE HostWriteOk \/ HostWriteFails
  BY <1>8, <1>9, Members DEF HostWriteOk, HostWriteFails
<1>10. CASE ReadFails
  BY <1>10 DEF ReadFails
<1>11. CASE ReleasePort
  BY <1>11, SetPortType, AcknowledgeType, Members, Numbers DEF ReleasePort
<1>12. CASE HandoffControl
  <2>1. Tail(control) \in Seq(Ops)
    BY <1>12, HeadTail DEF HandoffControl
  <2> QED BY <1>12, <2>1, AcknowledgeType, Members, Numbers DEF HandoffControl
<1>13. CASE HandoffExpires
  BY <1>13 DEF HandoffExpires
<1>14. CASE HandoffStop
  BY <1>14, Numbers DEF HandoffStop
<1>15. CASE StopPort
  BY <1>15, SetPortType DEF StopPort
<1>16. CASE DrainWrite
  <2>1. Tail(queue) \in Seq(Write)
    BY <1>16, HeadTail DEF DrainWrite
  <2> QED BY <1>16, <2>1, ReportType DEF DrainWrite
<1>17. CASE Stopped
  <2>1. << >> \in Seq(Ops) /\ Refused(control) \in [Ops -> OpRecord]
    BY HeadTail, AcknowledgeType, Members DEF Refused
  <2> QED BY <1>17, <2>1 DEF Stopped
<1> QED
  BY <1>1, <1>2, <1>3, <1>4, <1>5, <1>6, <1>7, <1>9, <1>10, <1>11, <1>12, <1>13, <1>14,
     <1>15, <1>16, <1>17 DEF OwnerStep

\* The clock: every deadline loses a tick and none leaves its range.
LEMMA TickType ==
  ASSUME TypeOK, Tick
  PROVE  TypeOK'
<1>1. ASSUME NEW n \in Nat, NEW x \in 0..n PROVE Dec(x) \in 0..n
  BY DEF Dec
<1>2. ASSUME NEW r \in CallRecord PROVE [r EXCEPT !.left = Dec(@)] \in CallRecord
  <2>1. Dec(r.left) \in 0..WriteTimeout
    BY <1>1, Constants DEF CallRecord
  <2> QED BY <2>1 DEF CallRecord
<1>3. call' \in [Calls -> CallRecord]
  BY <1>2 DEF TypeOK, Tick
<1>4. ASSUME NEW r \in OpRecord PROVE [r EXCEPT !.left = Dec(@)] \in OpRecord
  <2>1. Dec(r.left) \in 0..WriteTimeout
    BY <1>1, Constants DEF OpRecord
  <2> QED BY <2>1 DEF OpRecord
<1>5. op' \in [Ops -> OpRecord]
  BY <1>4 DEF TypeOK, Tick
<1>6. ASSUME NEW w \in Write PROVE [w EXCEPT !.left = Dec(@)] \in Write
  <2>1. Dec(w.left) \in 0..WriteTimeout
    BY <1>1, Constants DEF Write
  <2> QED BY <2>1 DEF Write
<1>7. queue' \in Seq(Write)
  <2>1. queue \in Seq(Write) /\ \A i \in DOMAIN queue : queue[i] \in Write
    BY DEF TypeOK
  <2>2. queue' = [i \in 1..Len(queue) |-> [queue[i] EXCEPT !.left = Dec(@)]]
    BY <2>1 DEF Tick
  <2>3. \A i \in 1..Len(queue) : [queue[i] EXCEPT !.left = Dec(@)] \in Write
    BY <1>6, <2>1
  <2> QED BY <2>1, <2>2, <2>3
<1>8. lock' \in [token : Tokens, left : 0..LockTTL]
  BY <1>1, Constants DEF TypeOK, Tick
<1>9. handoff' \in [token : Ops, left : 0..HandoffTTL] \cup {None}
  BY <1>1, Constants DEF TypeOK, Tick
<1>10. ownerLeft' \in 0..HandoffTTL
  BY <1>1, Constants DEF TypeOK, Tick
<1> QED
  BY <1>3, <1>5, <1>7, <1>8, <1>9, <1>10 DEF TypeOK, Tick

\* Registration and the first step of a write.
LEMMA EntryType ==
  ASSUME TypeOK,
         \/ \E c \in Peers : Register(c) \/ Unregister(c)
         \/ \E k \in Streams, c \in Peers, t \in 0..leases, n \in 0..MaxFrames : StreamWrite(k, c, t, n)
         \/ \E k \in Apis, t \in 0..leases : ApiWrite(k, t)
  PROVE  /\ client' \in [Clients -> {"new", "live", "left"}]
         /\ call' \in [Calls -> CallRecord]
         /\ lock' \in [token : Tokens, left : 0..LockTTL]
         /\ UNCHANGED <<writeRest, queue, outcome>>
<1>0. /\ call \in [Calls -> CallRecord] /\ client \in [Clients -> {"new", "live", "left"}]
      /\ lock \in [token : Tokens, left : 0..LockTTL] /\ leases \in Nat
  BY Constants DEF TypeOK
<1>1. ASSUME NEW c \in Peers, Register(c) \/ Unregister(c)
      PROVE  /\ client' \in [Clients -> {"new", "live", "left"}]
             /\ UNCHANGED <<call, lock, writeRest, queue, outcome>>
  BY <1>0, <1>1 DEF Register, Unregister, writeRest
<1>2. ASSUME NEW k \in Streams, NEW c \in Peers, NEW t \in 0..leases, NEW n \in 0..MaxFrames,
             StreamWrite(k, c, t, n)
      PROVE  call' \in [Calls -> CallRecord] /\ UNCHANGED <<client, writeRest, queue, outcome>>
             /\ lock' = Purged(lock)
  <2>1. c \in Clients /\ k \in Calls
    BY DEF Clients, Calls
  <2>2. Returns(c, t, "denied") \in CallRecord /\ Returns(c, t, "ok") \in CallRecord
    BY <2>1, AdmissionType, Members
  <2>3. n > 0 => Admitted(c, t, n) \in CallRecord
    BY <2>1, AdmissionType, Constants
  <2>4. n = 0 \/ n > 0
    BY Constants
  <2> QED BY <1>0, <1>2, <2>1, <2>2, <2>3, <2>4 DEF StreamWrite
<1>3. ASSUME NEW k \in Apis, NEW t \in 0..leases, ApiWrite(k, t)
      PROVE  /\ call' \in [Calls -> CallRecord] /\ client' \in [Clients -> {"new", "live", "left"}]
             /\ UNCHANGED <<writeRest, queue, outcome>> /\ lock' = Purged(lock)
  <2>1. k \in Clients /\ k \in Calls
    BY DEF Clients, Calls
  <2>2. Returns(k, t, "denied") \in CallRecord /\ Admitted(k, t, 1) \in CallRecord
    BY <2>1, AdmissionType, Members, Constants
  <2> QED BY <1>0, <1>3, <2>1, <2>2 DEF ApiWrite
<1> QED BY <1>0, <1>1, <1>2, <1>3, PurgedType

\* Types are inductive: each action by its lemma above.
LEMMA TypeNext == TypeOK /\ [Next]_vars => TypeOK'
<1> SUFFICES ASSUME TypeOK, [Next]_vars PROVE TypeOK'
  OBVIOUS
<1> USE DEF ownerVars, brokerVars
<1>1. ASSUME UNCHANGED ownerVars,
             \/ \E c \in Peers : Register(c) \/ Unregister(c)
             \/ \E k \in Streams, c \in Peers, t \in 0..leases, n \in 0..MaxFrames :
                  StreamWrite(k, c, t, n)
             \/ \E k \in Apis, t \in 0..leases : ApiWrite(k, t)
      PROVE  TypeOK'
  BY <1>1, EntryType DEF TypeOK, writeRest
<1>2. ASSUME UNCHANGED ownerVars,
             AcquireLock \/ (\E t \in 1..leases : RenewLock(t) \/ ReleaseLock(t))
      PROVE  TypeOK'
  <2>1. UNCHANGED leaseRest
    BY <1>2 DEF AcquireLock, RenewLock, ReleaseLock
  <2> QED BY <1>2, <2>1, LeaseType DEF TypeOK, leaseRest
<1>3. ASSUME NEW k \in Calls, CallStep(k) \/ (Cancel(k) /\ UNCHANGED ownerVars) PROVE TypeOK'
  <2>1. UNCHANGED ownerVars
    BY <1>3 DEF CallStep
  <2> QED BY <1>3, <2>1, CallType DEF CallStep, TypeOK, writeRest
<1>4. ASSUME NEW o \in Ops, UNCHANGED ownerVars,
             SendControl(o) \/ OpFails(o) \/ OpCancel(o) \/ OpSucceeds(o)
               \/ (\E t \in 1..leases : BeginHandoff(o, t) \/ Command(o, t))
               \/ (\E h \in Ops : ResumeHandoff(o, h))
      PROVE  TypeOK'
  BY <1>4, OpType DEF TypeOK, opRest
<1>5. CASE StopRequested
  BY <1>5 DEF StopRequested, TypeOK
<1>6. CASE UNCHANGED vars
  BY <1>6 DEF vars, TypeOK
<1> QED
  BY <1>1, <1>2, <1>3, <1>4, <1>5, <1>6, OwnerType, TickType DEF Next, OpStep

\* Type correctness: every variable of the broker and of the owner keeps its type.
THEOREM TypeCorrect == Spec => []TypeOK
  BY TypeInit, TypeNext, PTL DEF Spec

-----------------------------------------------------------------------------
(* The inductive invariant                                                 *)

\* The invariant holds initially: nothing is queued, held, owed or leased.
LEMMA InvInit == Init => IInv
<1> SUFFICES ASSUME Init PROVE IInv
  OBVIOUS
<1> USE DEF Init, BrokerInit, NewCall, NewOp
<1>1. TypeOK
  BY TypeInit
<1>2. queue = << >> /\ control = << >> /\ DOMAIN queue = {} /\ DOMAIN control = {}
  OBVIOUS
<1>3. OwnerInv
  BY <1>2 DEF OwnerInv
<1>4. NoWriteLost
  BY <1>2 DEF NoWriteLost, InHand
<1>5. CallInv /\ StreamInv
  BY Constants DEF CallInv, Unsent, StreamInv, Frames, Calls
<1>6. ApiInv
  BY Constants DEF ApiInv, Frames, Calls
<1>7. LeaseInv /\ ForeignWriteOnlyIfEarlier /\ NoStaleEpochWrite
  BY DEF LeaseInv, NoLease, NoToken, ForeignWriteOnlyIfEarlier, NoStaleEpochWrite
<1>8. ControlInv /\ HandoffInv
  BY <1>2 DEF ControlInv, Owed, HandoffInv
<1> QED
  BY <1>1, <1>3, <1>4, <1>5, <1>6, <1>7, <1>8 DEF IInv


\* The parts of the invariant that are not its types.
Parts == /\ OwnerInv /\ NoWriteLost /\ CallInv /\ ApiInv /\ StreamInv
         /\ LeaseInv /\ NoStaleEpochWrite /\ ForeignWriteOnlyIfEarlier
         /\ ControlInv /\ HandoffInv

\* Clients come and go: only the HTTP clients are mentioned, and they are not Peers.
LEMMA InvRegistration ==
  ASSUME IInv, NEW c \in Peers, Register(c) \/ Unregister(c), UNCHANGED ownerVars
  PROVE  Parts'
<1> USE DEF IInv, Register, Unregister, ownerVars
<1>1. OwnerInv' /\ NoWriteLost' /\ CallInv' /\ StreamInv'
  BY DEF OwnerInv, Permits, NoWriteLost, Queued, InHand, CallInv, Unsent, StreamInv
<1>2. LeaseInv' /\ NoStaleEpochWrite' /\ ForeignWriteOnlyIfEarlier' /\ ControlInv' /\ HandoffInv'
  BY DEF LeaseInv, NoStaleEpochWrite, ForeignWriteOnlyIfEarlier, ControlInv, Owed, HandoffInv, Active
<1>3. ApiInv'
  BY DEF ApiInv, TypeOK, Clients, Calls
<1> QED BY <1>1, <1>2, <1>3 DEF Parts

\* Leases: a new one is granted only without a handoff record, and later than
\* whatever the owner holds.
LEMMA InvLease ==
  ASSUME IInv, UNCHANGED ownerVars,
         AcquireLock \/ (\E t \in 1..leases : RenewLock(t) \/ ReleaseLock(t))
  PROVE  Parts'
<1> USE DEF IInv, ownerVars, leaseRest
<1>1. UNCHANGED leaseRest
  BY DEF AcquireLock, RenewLock, ReleaseLock
<1>2. OwnerInv' /\ NoWriteLost' /\ CallInv' /\ StreamInv' /\ ApiInv'
  BY <1>1 DEF OwnerInv, Permits, NoWriteLost, Queued, InHand, CallInv, Unsent, StreamInv, ApiInv
<1>3. NoStaleEpochWrite' /\ ControlInv'
  BY <1>1 DEF NoStaleEpochWrite, ControlInv, Owed
<1>4. leases \in Nat /\ lock \in [token : Tokens, left : 0..LockTTL]
  BY Constants DEF TypeOK
<1>5. CASE AcquireLock
  <2>1. leases' = leases + 1 /\ lock' = [token |-> leases + 1, left |-> LockTTL] /\ handoff = None
    BY <1>5 DEF AcquireLock
  <2>2. hand # None => hand.seen \in Nat
    BY Constants DEF TypeOK, Tokens, NoToken
  <2> QED
    BY <1>1, <1>2, <1>3, <1>4, <2>1, <2>2
    DEF Parts, LeaseInv, ForeignWriteOnlyIfEarlier, HandoffInv
<1>6. ASSUME NEW t \in 1..leases, RenewLock(t) \/ ReleaseLock(t)
      PROVE  /\ leases' = leases
             /\ \/ lock' = NoLease
                \/ Active(lock) /\ lock' = [token |-> lock.token, left |-> LockTTL]
  BY <1>4, <1>6 DEF RenewLock, ReleaseLock
<1>7. CASE lock' = NoLease /\ leases' = leases
  BY <1>1, <1>2, <1>3, <1>4, <1>7
  DEF Parts, LeaseInv, ForeignWriteOnlyIfEarlier, HandoffInv, NoLease, NoToken, Active
<1>8. CASE leases' = leases /\ Active(lock) /\ lock' = [token |-> lock.token, left |-> LockTTL]
  BY <1>1, <1>2, <1>3, <1>4, <1>8
  DEF Parts, LeaseInv, ForeignWriteOnlyIfEarlier, HandoffInv, Active
<1> QED BY <1>5, <1>6, <1>7, <1>8

\* What the owner holds was sent by a call that was started.
LEMMA HandIsQueued ==
  ASSUME IInv, hand # None
  PROVE  /\ hand.call \in Calls /\ hand.frame \in Frames
         /\ outcome[hand.call][hand.frame] = "queued"
         /\ ~Unsent(hand.call) \/ hand.frame < call[hand.call].frame
<1>1. hand.call \in Calls /\ hand.frame \in Frames
  BY DEF IInv, TypeOK
<1>2. outcome[hand.call][hand.frame] = "queued"
  BY <1>1 DEF IInv, NoWriteLost, InHand
<1>3. call[hand.call].frame \in Frames
  BY <1>1 DEF IInv, TypeOK, CallRecord
<1>4. Unsent(hand.call) => hand.frame \notin call[hand.call].frame..MaxFrames
  BY <1>1, <1>2 DEF IInv, CallInv
<1> QED BY <1>1, <1>2, <1>3, <1>4, Constants DEF Frames

\* The call whose write the owner holds is not a call that was never made.
LEMMA HandIsStarted ==
  ASSUME IInv, hand # None
  PROVE  call[hand.call].pc # "new"
  BY HandIsQueued, Constants DEF Unsent, IInv, CallInv, Frames

\* A write is admitted or refused: no frame of it was sent before.
LEMMA InvEntry ==
  ASSUME IInv, UNCHANGED ownerVars,
         \/ \E k \in Streams, c \in Peers, t \in 0..leases, n \in 0..MaxFrames : StreamWrite(k, c, t, n)
         \/ \E k \in Apis, t \in 0..leases : ApiWrite(k, t)
  PROVE  Parts'
<1> USE DEF ownerVars, writeRest
<1>0. /\ call \in [Calls -> CallRecord] /\ client \in [Clients -> {"new", "live", "left"}]
      /\ lock \in [token : Tokens, left : 0..LockTTL] /\ leases \in Nat
      /\ Apis \subseteq Calls /\ Streams \subseteq Calls /\ Apis \cap Streams = {}
      /\ Apis \subseteq Clients
  BY Constants DEF IInv, TypeOK, Calls, Clients
<1> DEFINE Entry(k, c, t, r) ==
        /\ call[k].pc = "new" /\ call' = [call EXCEPT ![k] = r]
        /\ lock' = Purged(lock) /\ UNCHANGED <<writeRest, queue, outcome>>
        /\ \/ r = Returns(c, t, "denied")
           \/ r = Returns(c, t, "ok") /\ k \in Streams
           \/ \E n \in 1..MaxFrames : r = Admitted(c, t, n) /\ (k \in Apis => n = 1)
        /\ k \in Apis => c = k /\ (r.pc = "done" => client'[k] = "left")
        /\ \A j \in Clients : j # k => client'[j] = client[j]
      Entered == \E k \in Calls, c \in Clients, t \in 0..leases, r \in CallRecord : Entry(k, c, t, r)
<1>1. Entered
  <2>1. ASSUME NEW k \in Streams, NEW c \in Peers, NEW t \in 0..leases, NEW n \in 0..MaxFrames,
               StreamWrite(k, c, t, n)
        PROVE  /\ k \in Calls /\ c \in Clients /\ k \notin Apis /\ call[k].pc = "new"
               /\ lock' = Purged(lock) /\ UNCHANGED <<writeRest, queue, outcome, client>>
               /\ \/ call' = [call EXCEPT ![k] = Returns(c, t, "denied")]
                  \/ call' = [call EXCEPT ![k] = Returns(c, t, "ok")]
                  \/ n \in 1..MaxFrames /\ call' = [call EXCEPT ![k] = Admitted(c, t, n)]
    <3>1. n = 0 \/ n \in 1..MaxFrames
      BY Constants
    <3>2. c \in Clients /\ k \in Calls /\ k \notin Apis
      BY <1>0 DEF Clients
    <3>3. CASE ~Admissible(c, t)
      BY <1>0, <2>1, <3>2, <3>3 DEF StreamWrite
    <3>4. CASE Admissible(c, t) /\ n = 0
      BY <1>0, <2>1, <3>2, <3>4 DEF StreamWrite
    <3>5. CASE Admissible(c, t) /\ n \in 1..MaxFrames
      <4>1. n > 0 /\ n # 0
        BY <3>5, Constants
      <4> QED BY <1>0, <2>1, <3>2, <3>5, <4>1 DEF StreamWrite
    <3> QED BY <3>1, <3>3, <3>4, <3>5
  <2>2. ASSUME NEW k \in Apis, NEW t \in 0..leases, ApiWrite(k, t)
        PROVE  /\ call[k].pc = "new" /\ lock' = Purged(lock) /\ UNCHANGED <<writeRest, queue, outcome>>
               /\ \/ call' = [call EXCEPT ![k] = Returns(k, t, "denied")] /\ client'[k] = "left"
                  \/ call' = [call EXCEPT ![k] = Admitted(k, t, 1)]
               /\ \A j \in Clients : j # k => client'[j] = client[j]
    BY <1>0, <2>2 DEF ApiWrite
  <2>3. \A x \in Clients, t \in 0..leases :
          /\ Returns(x, t, "denied") \in CallRecord /\ Returns(x, t, "ok") \in CallRecord
          /\ \A n \in 1..MaxFrames : Admitted(x, t, n) \in CallRecord
    BY AdmissionType, Members DEF IInv
  <2>4. \A x, t : \A n : Admitted(x, t, n).pc = "reserve"
    BY DEF Admitted
  <2>5. ASSUME NEW k \in Streams, NEW c \in Peers, NEW t \in 0..leases, NEW n \in 0..MaxFrames,
               StreamWrite(k, c, t, n)
        PROVE  Entered
    <3>1. ASSUME NEW r \in CallRecord, call' = [call EXCEPT ![k] = r],
                 \/ r = Returns(c, t, "denied") \/ r = Returns(c, t, "ok")
                 \/ \E m \in 1..MaxFrames : r = Admitted(c, t, m)
          PROVE  Entered
      BY <1>0, <2>1, <2>5, <3>1
    <3> QED BY <2>1, <2>3, <2>5, <3>1
  <2>6. ASSUME NEW k \in Apis, NEW t \in 0..leases, ApiWrite(k, t)
        PROVE  Entered
    <3>1. CASE call' = [call EXCEPT ![k] = Returns(k, t, "denied")] /\ client'[k] = "left"
      BY <1>0, <2>2, <2>3, <2>6, <3>1
    <3>2. CASE call' = [call EXCEPT ![k] = Admitted(k, t, 1)]
      <4>1. 1 \in 1..MaxFrames /\ Admitted(k, t, 1) \in CallRecord
        BY <1>0, <2>3, Constants
      <4>2. Entry(k, k, t, Admitted(k, t, 1))
        BY <1>0, <2>2, <2>4, <2>6, <3>2, <4>1
      <4> QED BY <1>0, <4>1, <4>2
    <3> QED BY <2>2, <2>6, <3>1, <3>2
  <2> QED BY <2>5, <2>6
<1>e. PICK k \in Calls, c \in Clients, t \in 0..leases, r \in CallRecord : Entry(k, c, t, r)
  BY <1>1
<1>2. /\ r.frame = 1 /\ r.client = c
      /\ r.pc \in {"reserve", "done"} /\ r.result \in {"none", "ok", "denied"}
      /\ r.result = "ok" => k \in Streams
      /\ r.pc = "reserve" => r.result = "none"
      /\ k \in Apis => r.frames <= 1
  BY <1>0, <1>e, Constants DEF Returns, Admitted
<1>3. /\ call'[k] = r /\ \A j \in Calls : j # k => call'[j] = call[j]
      /\ \A f \in Frames : outcome[k][f] = "none"
  BY <1>0, <1>e, Constants DEF IInv, CallInv, Unsent, Frames
<1>4. Permits' = Permits
  BY <1>e, <1>2, <1>3 DEF Permits
<1>5. OwnerInv' /\ NoWriteLost' /\ ControlInv'
  BY <1>e, <1>4 DEF IInv, OwnerInv, NoWriteLost, Queued, InHand, ControlInv, Owed
<1>6. CallInv' /\ StreamInv'
  BY <1>0, <1>e, <1>2, <1>3, Constants DEF IInv, CallInv, Unsent, StreamInv, Frames
<1>7. ApiInv'
  <2> SUFFICES ASSUME NEW j \in Apis
      PROVE  /\ call'[j].frame = 1 /\ call'[j].frames <= 1
             /\ call'[j].pc # "new" => call'[j].client = j
             /\ call'[j].pc = "done" => client'[j] = "left"
             /\ \A f \in 2..MaxFrames : outcome'[j][f] = "none"
             /\ call'[j].pc = "await" => outcome'[j][1] # "none"
             /\ call'[j].result = "ok" => outcome'[j][1] = "written"
             /\ call'[j].result = "not_attempted" => outcome'[j][1] = "not_written"
    BY DEF ApiInv
  <2>1. CASE j = k
    BY <1>0, <1>e, <1>2, <1>3, <2>1, Constants DEF Frames
  <2>2. CASE j # k
    BY <1>0, <1>e, <1>3, <2>2 DEF IInv, ApiInv
  <2> QED BY <2>1, <2>2
<1>8. hand # None => hand.call \in Calls /\ hand.call # k
  BY <1>e, HandIsQueued, HandIsStarted
<1>9. Purged(lock) = NoLease \/ Purged(lock) = lock
  BY DEF Purged
<1>10. LeaseInv' /\ NoStaleEpochWrite' /\ ForeignWriteOnlyIfEarlier' /\ HandoffInv'
  BY <1>0, <1>e, <1>3, <1>8, <1>9
  DEF IInv, LeaseInv, NoStaleEpochWrite, ForeignWriteOnlyIfEarlier, HandoffInv, Active, NoLease, NoToken
<1> QED BY <1>5, <1>6, <1>7, <1>10 DEF Parts

\* What returning changes, field by field.
LEMMA FinishEffect ==
  ASSUME TypeOK, NEW k \in Calls, NEW r, Finish(k, r)
  PROVE  /\ call'[k].pc = "done" /\ call'[k].result = r
         /\ call'[k].frame = call[k].frame /\ call'[k].frames = call[k].frames
         /\ call'[k].client = call[k].client /\ call'[k].token = call[k].token
         /\ call'[k].epoch = call[k].epoch
         /\ \A j \in Calls : j # k => call'[j] = call[j]
         /\ \A c \in Clients : client'[c] = IF c = k /\ k \in Apis THEN "left" ELSE client[c]
<1>1. call \in [Calls -> CallRecord] /\ client \in [Clients -> {"new", "live", "left"}]
  BY DEF TypeOK
<1>2. \A c \in Clients : client'[c] = IF c = k /\ k \in Apis THEN "left" ELSE client[c]
  BY <1>1 DEF Finish
<1>3. call' = [call EXCEPT ![k] = [@ EXCEPT !.pc = "done", !.result = r, !.left = 0]]
  BY <1>1 DEF Finish
<1>4. call'[k] = [call[k] EXCEPT !.pc = "done", !.result = r, !.left = 0]
      /\ \A j \in Calls : j # k => call'[j] = call[j]
  BY <1>1, <1>3
<1>5. call[k] \in CallRecord
  BY <1>1
<1> QED BY <1>2, <1>4, <1>5 DEF CallRecord

\* A call returns with an answer that agrees with the fate of its frame.
LEMMA InvFinish ==
  ASSUME IInv, NEW k \in Calls, NEW r \in Results, Finish(k, r),
         UNCHANGED <<writeRest, lock, queue, outcome, ownerVars>>,
         call[k].pc \notin {"new", "done"},
         r = "ok" /\ k \in Apis => outcome[k][1] = "written",
         r = "not_attempted" => k \in Apis /\ outcome[k][1] = "not_written",
         r \in {"denied", "not_queued"} => Unsent(k)
  PROVE  Parts'
<1> USE FinishEffect DEF IInv, ownerVars, writeRest
<1>0. Apis \subseteq Calls /\ Streams \subseteq Calls /\ Apis \subseteq Clients /\ Apis \cap Streams = {}
  BY Constants DEF Calls, Clients
<1>1. Permits' \subseteq Permits
  BY DEF Permits
<1>2. OwnerInv' /\ NoWriteLost' /\ ControlInv'
  BY <1>1 DEF OwnerInv, NoWriteLost, Queued, InHand, ControlInv, Owed
<1>3. CallInv' /\ StreamInv'
  BY <1>0 DEF CallInv, Unsent, StreamInv
<1>4. ApiInv'
  BY <1>0 DEF ApiInv
<1>5. hand # None => hand.call \in Calls
  BY HandIsQueued
<1>6. LeaseInv' /\ NoStaleEpochWrite' /\ ForeignWriteOnlyIfEarlier' /\ HandoffInv'
  BY <1>5 DEF LeaseInv, NoStaleEpochWrite, ForeignWriteOnlyIfEarlier, HandoffInv, Active
<1> QED BY <1>2, <1>3, <1>4, <1>6 DEF Parts

\* A call goes on, with its frame still unsent; a new slot needs an open channel.
LEMMA InvMove ==
  ASSUME IInv, NEW k \in Calls, NEW pc \in {"permit", "send"}, call' = [call EXCEPT ![k].pc = pc],
         UNCHANGED <<writeRest, client, lock, queue, outcome, ownerVars>>,
         \/ call[k].pc = "reserve" /\ open
         \/ call[k].pc = "permit"
  PROVE  Parts'
<1> USE DEF IInv, ownerVars, writeRest
<1>0. Apis \subseteq Calls /\ Streams \subseteq Calls /\ call \in [Calls -> CallRecord]
  BY DEF Calls, TypeOK
<1>1. /\ call'[k].pc = pc /\ call'[k].result = call[k].result
      /\ call'[k].frame = call[k].frame /\ call'[k].frames = call[k].frames
      /\ call'[k].client = call[k].client /\ call'[k].token = call[k].token
      /\ call'[k].epoch = call[k].epoch
      /\ \A j \in Calls : j # k => call'[j] = call[j]
  BY <1>0 DEF CallRecord
<1>2. Permits' \subseteq Permits \cup {k} /\ (Permits = {} => open)
      /\ (ownerPc = "stopped" => Permits' = {})
  BY <1>0, <1>1 DEF Permits, OwnerInv
<1>3. OwnerInv' /\ NoWriteLost' /\ ControlInv'
  BY <1>2 DEF OwnerInv, NoWriteLost, Queued, InHand, ControlInv, Owed
<1>4. CallInv' /\ StreamInv'
  BY <1>0, <1>1 DEF CallInv, Unsent, StreamInv
<1>5. ApiInv'
  BY <1>0, <1>1 DEF ApiInv
<1>6. hand # None => hand.call \in Calls
  BY HandIsQueued
<1>7. LeaseInv' /\ NoStaleEpochWrite' /\ ForeignWriteOnlyIfEarlier' /\ HandoffInv'
  BY <1>1, <1>6 DEF LeaseInv, NoStaleEpochWrite, ForeignWriteOnlyIfEarlier, HandoffInv, Active
<1> QED BY <1>3, <1>4, <1>5, <1>7 DEF Parts

\* The frame a call sends was not sent before, and is queued then.
LEMMA SendFrame ==
  ASSUME IInv, NEW k \in Calls, Send(k)
  PROVE  /\ call[k].frame \in Frames /\ call[k].pc = "send" /\ Unsent(k) /\ call[k].result = "none"
         /\ \A g \in call[k].frame..MaxFrames : outcome[k][g] = "none"
         /\ outcome[k][call[k].frame] = "none" /\ outcome'[k][call[k].frame] = "queued"
         /\ \A j \in Calls, g \in Frames :
              <<j, g>> # <<k, call[k].frame>> => outcome'[j][g] = outcome[j][g]
<1>0. call \in [Calls -> CallRecord] /\ outcome \in [Calls -> [Frames -> Fates]]
  BY DEF IInv, TypeOK
<1>1. call[k].frame \in Frames /\ call[k].pc = "send" /\ Unsent(k) /\ call[k].result = "none"
  BY <1>0 DEF Send, CallRecord, Unsent, IInv, CallInv
<1>2. \A g \in call[k].frame..MaxFrames : outcome[k][g] = "none"
  BY <1>1 DEF IInv, CallInv
<1>3. outcome[k][call[k].frame] = "none"
  BY <1>1, <1>2, Constants DEF Frames
<1>4. /\ outcome'[k][call[k].frame] = "queued"
      /\ \A j \in Calls, g \in Frames :
           <<j, g>> # <<k, call[k].frame>> => outcome'[j][g] = outcome[j][g]
  BY <1>0, <1>1 DEF Send
<1> QED BY <1>1, <1>2, <1>3, <1>4

\* It is the last in the queue.
LEMMA SendQueue ==
  ASSUME IInv, NEW k \in Calls, Send(k)
  PROVE  /\ DOMAIN queue = 1..Len(queue) /\ Len(queue) \in Nat
         /\ DOMAIN queue' = 1..Len(queue) + 1
         /\ queue'[Len(queue) + 1] = [call |-> k, frame |-> call[k].frame, left |-> call[k].left]
         /\ \A i \in DOMAIN queue : queue'[i] = queue[i]
<1> DEFINE w == [call |-> k, frame |-> call[k].frame, left |-> call[k].left]
<1>1. w \in Write /\ queue \in Seq(Write)
  BY SendFrame DEF IInv, TypeOK, Write, CallRecord
<1>2. queue' = Append(queue, w)
  BY DEF Send
<1> HIDE DEF w
<1>3. /\ DOMAIN queue = 1..Len(queue) /\ Len(queue) \in Nat
      /\ DOMAIN queue' = 1..Len(queue) + 1 /\ queue'[Len(queue) + 1] = w
      /\ \A i \in DOMAIN queue : queue'[i] = queue[i]
  BY <1>1, <1>2
<1> QED BY <1>3 DEF w

\* An HTTP write waits for its answer, a stream write goes on or is done.
LEMMA SendCall ==
  ASSUME IInv, NEW k \in Calls, Send(k)
  PROVE  /\ call'[k].client = call[k].client /\ call'[k].token = call[k].token
         /\ call'[k].epoch = call[k].epoch /\ call'[k].frames = call[k].frames
         /\ \A j \in Calls : j # k => call'[j] = call[j]
         /\ \/ /\ k \in Apis /\ call'[k].pc = "await" /\ call'[k].frame = call[k].frame
               /\ call'[k].result = "none" /\ UNCHANGED client
            \/ /\ k \in Streams /\ call[k].frame < call[k].frames /\ call'[k].pc = "reserve"
               /\ call'[k].frame = call[k].frame + 1 /\ call'[k].result = "none" /\ UNCHANGED client
            \/ /\ k \in Streams /\ call'[k].pc = "done" /\ call'[k].frame = call[k].frame
               /\ call'[k].result = "ok" /\ \A c \in Clients : client'[c] = client[c]
<1>0. /\ Apis \cap Streams = {} /\ call \in [Calls -> CallRecord] /\ TypeOK
      /\ call[k].result = "none"
  BY Constants, SendFrame DEF IInv, TypeOK
<1>1. CASE k \in Apis /\ call' = [call EXCEPT ![k].pc = "await"] /\ UNCHANGED client
  BY <1>0, <1>1 DEF CallRecord
<1>2. CASE /\ k \in Streams /\ call[k].frame < call[k].frames /\ UNCHANGED client
           /\ call' = [call EXCEPT ![k].pc = "reserve", ![k].frame = @ + 1, ![k].left = WriteTimeout]
  BY <1>0, <1>2 DEF CallRecord
<1>3. CASE k \in Streams /\ Finish(k, "ok")
  BY <1>0, <1>3, FinishEffect
<1> QED BY <1>1, <1>2, <1>3 DEF Send

\* A frame enters the queue: it was nowhere before, and it is there once.
LEMMA InvSend ==
  ASSUME IInv, NEW k \in Calls, Send(k), UNCHANGED ownerVars
  PROVE  Parts'
<1> USE DEF ownerVars, writeRest
<1>0. /\ Apis \subseteq Calls /\ Streams \subseteq Calls /\ Apis \cap Streams = {}
      /\ call \in [Calls -> CallRecord] /\ outcome \in [Calls -> [Frames -> Fates]]
      /\ queue \in Seq(Write) /\ TypeOK /\ Apis \subseteq Clients
  BY Constants DEF IInv, TypeOK, Calls, Clients
<1> DEFINE f == call[k].frame
           w == [call |-> k, frame |-> f, left |-> call[k].left]
<1>1. f \in Frames /\ call[k].pc = "send" /\ Unsent(k) /\ call[k].result = "none"
  BY SendFrame
<1>2. \A g \in f..MaxFrames : outcome[k][g] = "none"
  BY SendFrame
<1>3. outcome[k][f] = "none"
  BY SendFrame
<1>4. /\ outcome'[k][f] = "queued"
      /\ \A j \in Calls, g \in Frames : <<j, g>> # <<k, f>> => outcome'[j][g] = outcome[j][g]
  BY SendFrame
<1>5. /\ DOMAIN queue' = 1..Len(queue) + 1 /\ queue'[Len(queue) + 1] = w
      /\ \A i \in DOMAIN queue : queue'[i] = queue[i]
      /\ DOMAIN queue = 1..Len(queue) /\ Len(queue) \in Nat
  BY SendQueue
<1>6. NoWriteLost'
  <2>1. /\ ~InHand(k, f) /\ \A i \in DOMAIN queue : ~Queued(i, k, f)
    BY <1>1, <1>3 DEF IInv, NoWriteLost
  <2>2. \A j \in Calls, g \in Frames :
          (\E i \in DOMAIN queue' : Queued(i, j, g)') <=>
            (<<j, g>> = <<k, f>> \/ \E i \in DOMAIN queue : Queued(i, j, g))
    BY <1>5 DEF Queued
  <2>3. \A j \in Calls, g \in Frames :
          outcome'[j][g] = "queued" <=>
            InHand(j, g)' \/ \E i \in DOMAIN queue' : Queued(i, j, g)'
    BY <1>4, <2>1, <2>2 DEF IInv, NoWriteLost, InHand, Send
  <2>4. \A i, j \in DOMAIN queue' :
          queue'[i].call = queue'[j].call /\ queue'[i].frame = queue'[j].frame => i = j
    BY <1>5, <2>1 DEF Queued, IInv, NoWriteLost
  <2>5. \A i \in DOMAIN queue' : ~(InHand(queue[i].call, queue[i].frame)')
    BY <1>5, <2>1 DEF InHand, IInv, NoWriteLost, Send
  <2> QED BY <2>3, <2>4, <2>5 DEF NoWriteLost
<1>7. /\ call'[k].client = call[k].client /\ call'[k].token = call[k].token
      /\ call'[k].epoch = call[k].epoch /\ call'[k].frames = call[k].frames
      /\ \A j \in Calls : j # k => call'[j] = call[j]
      /\ \/ /\ k \in Apis /\ call'[k].pc = "await" /\ call'[k].frame = f
            /\ call'[k].result = "none" /\ UNCHANGED client
         \/ /\ k \in Streams /\ f < call[k].frames /\ call'[k].pc = "reserve"
            /\ call'[k].frame = f + 1 /\ call'[k].result = "none" /\ UNCHANGED client
         \/ /\ k \in Streams /\ call'[k].pc = "done" /\ call'[k].frame = f
            /\ call'[k].result = "ok" /\ \A c \in Clients : client'[c] = client[c]
  BY SendCall
<1>8. /\ Permits' \subseteq Permits /\ k \in Permits
  BY <1>0, <1>1, <1>7 DEF Permits
<1>9. OwnerInv' /\ ControlInv'
  BY <1>8 DEF IInv, OwnerInv, ControlInv, Owed, Send
<1>10. CallInv' /\ StreamInv'
  <2>1. f \in Nat /\ MaxFrames \in Nat
    BY <1>1, Constants DEF Frames
  <2>2. ASSUME NEW j \in Calls, Unsent(j)', NEW g \in call'[j].frame..MaxFrames
        PROVE  outcome'[j][g] = "none"
    <3>1. CASE j # k
      <4>1. call'[j] = call[j] /\ Unsent(j) /\ g \in call[j].frame..MaxFrames /\ g \in Frames
        BY <1>0, <1>7, <2>2, <3>1, Constants DEF Unsent, CallRecord, Frames
      <4> QED BY <1>4, <3>1, <4>1 DEF IInv, CallInv
    <3>2. CASE j = k
      <4>1. call'[k].pc = "reserve" /\ call'[k].frame = f + 1
        BY <1>7, <2>2, <3>2 DEF Unsent
      <4>2. g \in f..MaxFrames /\ g # f /\ g \in Frames
        BY <1>1, <2>1, <2>2, <3>2, <4>1 DEF Frames
      <4> QED BY <1>2, <1>4, <3>2, <4>2
    <3> QED BY <3>1, <3>2
  <2>3. \A j \in Calls : /\ call'[j].pc = "new" => call'[j].frame = 1
                         /\ call'[j].pc # "done" => call'[j].result = "none"
    BY <1>0, <1>7 DEF IInv, CallInv
  <2>4. StreamInv'
    BY <1>0, <1>7 DEF IInv, StreamInv
  <2> QED BY <2>2, <2>3, <2>4 DEF CallInv
<1>11. ApiInv'
  <2> SUFFICES ASSUME NEW j \in Apis
      PROVE  /\ call'[j].frame = 1 /\ call'[j].frames <= 1
             /\ call'[j].pc # "new" => call'[j].client = j
             /\ call'[j].pc = "done" => client'[j] = "left"
             /\ \A g \in 2..MaxFrames : outcome'[j][g] = "none"
             /\ call'[j].pc = "await" => outcome'[j][1] # "none"
             /\ call'[j].result = "ok" => outcome'[j][1] = "written"
             /\ call'[j].result = "not_attempted" => outcome'[j][1] = "not_written"
    BY DEF ApiInv
  <2>1. 1 \in Frames /\ 2..MaxFrames \subseteq Frames /\ 1 \notin 2..MaxFrames
    BY Constants DEF Frames
  <2>2. CASE j = k
    BY <1>0, <1>1, <1>4, <1>7, <2>1, <2>2 DEF IInv, ApiInv
  <2>3. CASE j # k
    BY <1>0, <1>4, <1>7, <2>1, <2>3 DEF IInv, ApiInv
  <2> QED BY <2>2, <2>3
<1>12. hand # None => hand.call \in Calls
  BY HandIsQueued
<1>13. LeaseInv' /\ NoStaleEpochWrite' /\ ForeignWriteOnlyIfEarlier' /\ HandoffInv'
  BY <1>7, <1>12
  DEF IInv, LeaseInv, NoStaleEpochWrite, ForeignWriteOnlyIfEarlier, HandoffInv, Active, Send
<1> QED BY <1>6, <1>9, <1>10, <1>11, <1>13 DEF Parts

\* Every step of a started write.
LEMMA InvCall ==
  ASSUME IInv, NEW k \in Calls, CallStep(k) \/ (Cancel(k) /\ UNCHANGED ownerVars)
  PROVE  Parts'
<1>0. UNCHANGED ownerVars /\ TypeOK /\ CallInv /\ ApiInv /\ StreamInv
  BY DEF CallStep, IInv
<1>1. CASE Reserve(k)
  BY <1>0, <1>1, InvMove DEF Reserve
<1>2. CASE ReserveFails(k)
  BY <1>0, <1>2, InvFinish, Members DEF ReserveFails, Unsent
<1>3. CASE Recheck(k)
  <2>1. CASE ValidateDeviceWrite(k, call[k].left)
    BY <1>0, <1>3, <2>1, InvMove DEF Recheck
  <2>2. CASE ~ValidateDeviceWrite(k, call[k].left)
    BY <1>0, <1>3, <2>2, InvFinish, Members DEF Recheck, Unsent
  <2> QED BY <2>1, <2>2
<1>4. CASE Send(k)
  BY <1>0, <1>4, InvSend
<1>5. CASE Answered(k)
  <2>1. k \in Apis /\ call[k].frame = 1
    BY <1>0, <1>5 DEF Answered, Calls, StreamInv, ApiInv
  <2>1a. PICK r \in Answer(outcome[k][call[k].frame]) : Finish(k, r)
    BY <1>5 DEF Answered
  <2>2. /\ r \in {"ok", "unknown", "not_attempted"} /\ r \in Results
        /\ r = "ok" => outcome[k][1] = "written"
        /\ r = "not_attempted" => outcome[k][1] = "not_written"
    BY <1>5, <2>1, <2>1a, Members DEF Answered, Answer
  <2>3. call[k].pc = "await" /\ Finish(k, r) /\ UNCHANGED <<writeRest, lock, queue, outcome>>
    BY <1>5, <2>1a DEF Answered
  <2> QED BY <1>0, <2>1, <2>2, <2>3, InvFinish
<1>6. CASE AnswerTimesOut(k)
  BY <1>0, <1>6, InvFinish, Members DEF AnswerTimesOut
<1>7. CASE Cancel(k)
  BY <1>0, <1>7, InvFinish, Members DEF Cancel
<1> QED BY <1>1, <1>2, <1>3, <1>4, <1>5, <1>6, <1>7 DEF CallStep

\* The parts that no control request touches.
LEMMA InvOpFrame ==
  ASSUME IInv, UNCHANGED <<opRest, ownerVars>>, lock' = lock \/ lock' = NoLease
  PROVE  /\ NoWriteLost' /\ CallInv' /\ ApiInv' /\ StreamInv'
         /\ LeaseInv' /\ NoStaleEpochWrite' /\ ForeignWriteOnlyIfEarlier'
         /\ Permits' = Permits
<1> USE DEF IInv, ownerVars, opRest
<1>1. NoWriteLost' /\ CallInv' /\ ApiInv' /\ StreamInv' /\ Permits' = Permits
  BY DEF NoWriteLost, Queued, InHand, CallInv, Unsent, ApiInv, StreamInv, Permits
<1>2. leases \in Nat
  BY Constants DEF TypeOK
<1>3. LeaseInv' /\ NoStaleEpochWrite' /\ ForeignWriteOnlyIfEarlier'
  BY <1>2 DEF LeaseInv, NoStaleEpochWrite, ForeignWriteOnlyIfEarlier, Active, NoLease, NoToken
<1> QED BY <1>1, <1>3

\* A request is made, sent and answered.
LEMMA InvOp ==
  ASSUME IInv, NEW o \in Ops, UNCHANGED ownerVars,
         SendControl(o) \/ OpFails(o) \/ OpCancel(o) \/ OpSucceeds(o)
           \/ (\E t \in 1..leases : BeginHandoff(o, t) \/ Command(o, t))
           \/ (\E h \in Ops : ResumeHandoff(o, h))
  PROVE  Parts'
<1> USE DEF ownerVars
<1>0. /\ op \in [Ops -> OpRecord] /\ control \in Seq(Ops) /\ Len(control) \in Nat
      /\ handoff # None => handoff.token \in Ops
      /\ OwnerInv /\ ControlInv /\ HandoffInv
  BY DEF IInv, TypeOK
<1>1. ASSUME OwnerInv', ControlInv', HandoffInv', UNCHANGED opRest, lock' = lock \/ lock' = NoLease
      PROVE  Parts'
  BY <1>1, InvOpFrame DEF Parts
<1>2. ASSUME NEW kind \in {"begin", "resume", "command"}, op[o].pc = "new", op' = Requested(o, kind),
             UNCHANGED <<opRest, lock, control>>
      PROVE  ControlInv' /\ op'[o].kind = kind /\ op'[o].pc = "send" /\ op'[o].result = "none"
             /\ \A p \in Ops : p # o => op'[p] = op[p]
  <2>1. /\ op'[o].pc = "send" /\ op'[o].kind = kind /\ op'[o].ack = op[o].ack
        /\ op'[o].result = op[o].result /\ \A p \in Ops : p # o => op'[p] = op[p]
    BY <1>0, <1>2 DEF Requested, OpRecord
  <2> QED BY <1>0, <1>2, <2>1 DEF ControlInv, Owed
<1>3. ASSUME NEW t \in 1..leases, BeginHandoff(o, t)
      PROVE  Parts'
  <2>1. ControlInv' /\ op'[o].kind = "begin" /\ op'[o].pc = "send" /\ op'[o].result = "none"
    BY <1>2, <1>3 DEF BeginHandoff
  <2>2. OwnerInv'
    BY <1>0, <1>3, InvOpFrame DEF BeginHandoff, ControlAllowed, OwnerInv, opRest
  <2>3. HandoffInv'
    BY <1>3, <2>1 DEF BeginHandoff, HandoffInv
  <2> QED BY <1>1, <1>3, <2>1, <2>2, <2>3 DEF BeginHandoff
<1>4. ASSUME NEW t \in 1..leases, Command(o, t)
      PROVE  Parts'
  <2>1. ControlInv'
    BY <1>2, <1>4 DEF Command
  <2>2. OwnerInv' /\ HandoffInv'
    BY <1>0, <1>4, InvOpFrame DEF Command, ControlAllowed, OwnerInv, opRest, HandoffInv
  <2> QED BY <1>1, <1>4, <2>1, <2>2 DEF Command
<1>5. ASSUME NEW h \in Ops, ResumeHandoff(o, h)
      PROVE  Parts'
  <2>0. handoff # None /\ op[o].pc = "new" /\ handoff.token # o /\ UNCHANGED <<opRest, lock, control>>
    BY <1>0, <1>5 DEF ResumeHandoff, HandoffInv
  <2>1. CASE handoff.left = 0
    <3>1. handoff' = None /\ op' = [Returned(o, "err") EXCEPT ![o].kind = "resume"]
      BY <1>5, <2>1 DEF ResumeHandoff
    <3>2. /\ op'[o].pc = "done" /\ op'[o].ack = op[o].ack /\ op'[o].result = "err"
          /\ \A p \in Ops : p # o => op'[p] = op[p]
      BY <1>0, <3>1 DEF Returned, OpRecord
    <3>3. ControlInv'
      BY <1>0, <2>0, <3>2 DEF ControlInv, Owed
    <3>4. OwnerInv' /\ HandoffInv'
      BY <1>0, <2>0, <3>1, InvOpFrame DEF OwnerInv, HandoffInv, opRest
    <3> QED BY <1>1, <2>0, <3>3, <3>4
  <2>2. CASE handoff.left # 0
    <3>1. op' = Requested(o, "resume") /\ handoff' = handoff
      BY <1>5, <2>2 DEF ResumeHandoff
    <3>2. ControlInv' /\ \A p \in Ops : p # o => op'[p] = op[p]
      BY <1>2, <2>0, <3>1
    <3>3. OwnerInv' /\ HandoffInv'
      BY <1>0, <2>0, <3>1, <3>2, InvOpFrame DEF OwnerInv, HandoffInv, opRest, Active
    <3> QED BY <1>1, <2>0, <3>2, <3>3
  <2> QED BY <2>1, <2>2
<1>6. CASE SendControl(o)
  <2>1. /\ op'[o].pc = "wait" /\ op'[o].ack = op[o].ack /\ op'[o].kind = op[o].kind
        /\ op'[o].result = op[o].result /\ \A p \in Ops : p # o => op'[p] = op[p]
    BY <1>0, <1>6 DEF SendControl, OpRecord
  <2>2. /\ DOMAIN control' = 1..Len(control) + 1 /\ control'[Len(control) + 1] = o
        /\ DOMAIN control = 1..Len(control)
        /\ \A i \in DOMAIN control : control'[i] = control[i]
    BY <1>0, <1>6 DEF SendControl
  <2>3. ~Owed(o) /\ op[o].ack = "none" /\ op[o].result = "none"
    BY <1>0, <1>6 DEF SendControl, ControlInv
  <2>4. \A p \in Ops : Owed(p)' <=> p = o \/ Owed(p)
    BY <1>0, <2>2 DEF Owed
  <2>5. ControlInv'
    <3>1. \A i, j \in DOMAIN control' : control'[i] = control'[j] => i = j
      BY <1>0, <2>2, <2>3 DEF ControlInv, Owed
    <3>2. \A i \in DOMAIN control' : ~(ownerPc' = "releasing" /\ serving' = control'[i])
      BY <1>0, <2>2, <2>3 DEF ControlInv, Owed
    <3>3. \A p \in Ops :
            /\ Owed(p)' => op'[p].pc \in {"wait", "done"} /\ op'[p].ack = "none" /\ op'[p].result # "ok"
            /\ op'[p].pc = "wait" /\ op'[p].ack = "none" => Owed(p)'
            /\ op'[p].pc \in {"new", "send"} => op'[p].ack = "none"
            /\ op'[p].pc # "done" => op'[p].result = "none"
      BY <1>0, <2>1, <2>3, <2>4 DEF ControlInv
    <3> QED BY <3>1, <3>2, <3>3 DEF ControlInv
  <2>6. OwnerInv' /\ HandoffInv'
    BY <1>0, <1>6, <2>1, InvOpFrame DEF SendControl, OwnerInv, HandoffInv, opRest, Active
  <2> QED BY <1>1, <1>6, <2>5, <2>6 DEF SendControl
<1>7. ASSUME NEW r \in {"ok", "err", "cancelled"}, op' = Returned(o, r), op[o].pc \in {"send", "wait"},
             UNCHANGED <<opRest, control>>, r = "ok" => op[o].ack = "ok"
      PROVE  /\ ControlInv' /\ op'[o].kind = op[o].kind /\ op'[o].pc = "done" /\ op'[o].result = r
             /\ \A p \in Ops : p # o => op'[p] = op[p]
  <2>1. /\ op'[o].pc = "done" /\ op'[o].ack = op[o].ack /\ op'[o].kind = op[o].kind
        /\ op'[o].result = r /\ \A p \in Ops : p # o => op'[p] = op[p]
    BY <1>0, <1>7 DEF Returned, OpRecord
  <2> QED BY <1>0, <1>7, <2>1 DEF ControlInv, Owed
<1>8. CASE OpFails(o)
  <2>1. /\ ControlInv' /\ op'[o].kind = op[o].kind /\ op'[o].pc = "done" /\ op'[o].result = "err"
        /\ \A p \in Ops : p # o => op'[p] = op[p]
    BY <1>7, <1>8 DEF OpFails
  <2>2. handoff' = None \/ handoff' = handoff
    BY <1>8 DEF OpFails, ClearOwnHandoff
  <2>3. OwnerInv' /\ HandoffInv'
    BY <1>0, <1>8, <2>1, <2>2, InvOpFrame DEF OpFails, OwnerInv, HandoffInv, opRest, Active
  <2> QED BY <1>1, <1>8, <2>1, <2>3 DEF OpFails
<1>8a. CASE OpCancel(o)
  <2>1. /\ ControlInv' /\ op'[o].kind = op[o].kind /\ op'[o].result = "cancelled" /\ op'[o].pc = "done"
        /\ \A p \in Ops : p # o => op'[p] = op[p]
    BY <1>7, <1>8a DEF OpCancel
  <2>2. OwnerInv' /\ HandoffInv'
    BY <1>0, <1>8a, <2>1, InvOpFrame DEF OpCancel, OwnerInv, HandoffInv, opRest, Active
  <2> QED BY <1>1, <1>8a, <2>1, <2>2 DEF OpCancel
<1>9. CASE OpSucceeds(o)
  <2>1. /\ ControlInv' /\ op'[o].kind = op[o].kind /\ op'[o].pc = "done" /\ op'[o].result = "ok"
        /\ \A p \in Ops : p # o => op'[p] = op[p]
    BY <1>7, <1>9 DEF OpSucceeds
  <2>2. \/ handoff' = None \/ handoff' = handoff
        \/ handoff # None /\ handoff' = [handoff EXCEPT !.left = HandoffTTL]
    BY <1>9 DEF OpSucceeds
  <2>3. handoff' # None => handoff # None /\ handoff'.token = handoff.token
    BY <1>9, <2>2 DEF IInv, TypeOK
  <2>4. op[o].kind = "begin" => lock' = NoLease
    BY <1>9 DEF OpSucceeds
  <2>5. lock' = lock \/ lock' = NoLease
    BY <1>9 DEF OpSucceeds
  <2>6. ~(NoLease.left > 0)
    BY DEF NoLease
  <2>7. HandoffInv'
    <3> SUFFICES ASSUME handoff' # None
        PROVE  LET h == handoff'.token
               IN /\ op'[h].kind = "begin" /\ op'[h].pc # "new"
                  /\ op'[h].result = "ok" => ~(lock'.left > 0)
      BY DEF HandoffInv, Active
    <3>1. CASE handoff.token = o
      BY <1>0, <2>1, <2>3, <2>4, <2>6, <3>1 DEF HandoffInv
    <3>2. CASE handoff.token # o
      BY <1>0, <2>1, <2>3, <2>5, <2>6, <3>2 DEF HandoffInv, Active
    <3> QED BY <3>1, <3>2
  <2>8. OwnerInv'
    BY <1>0, <1>9, <2>3, InvOpFrame DEF OpSucceeds, OwnerInv, opRest
  <2> QED BY <1>1, <1>9, <2>1, <2>5, <2>7, <2>8 DEF OpSucceeds
<1> QED BY <1>3, <1>4, <1>5, <1>6, <1>8, <1>8a, <1>9

\* The owner resolves frames that were queued and touches no call.
LEMMA InvResolve ==
  ASSUME IInv, UNCHANGED rest,
         \A k \in Calls, f \in Frames :
           \/ outcome'[k][f] = outcome[k][f]
           \/ outcome[k][f] = "queued" /\ outcome'[k][f] \in {"written", "failed", "not_written"}
  PROVE  CallInv' /\ ApiInv' /\ StreamInv' /\ Permits' = Permits
<1> USE DEF rest
<1>0. /\ Apis \subseteq Calls /\ call \in [Calls -> CallRecord]
      /\ 1 \in Frames /\ 2..MaxFrames \subseteq Frames
  BY Constants DEF IInv, TypeOK, Calls, Frames
<1>1. \A k \in Calls : \A g \in call[k].frame..MaxFrames : g \in Frames
  BY <1>0, Constants DEF CallRecord, Frames
<1>2. CallInv'
  BY <1>1 DEF IInv, CallInv, Unsent
<1>3. ApiInv'
  BY <1>0 DEF IInv, ApiInv
<1>4. StreamInv' /\ Permits' = Permits
  BY DEF IInv, StreamInv, Permits
<1> QED BY <1>2, <1>3, <1>4

\* Dropping the queue resolves exactly the queued frames while nothing is in hand.
LEMMA DropEffect ==
  ASSUME IInv, DropPendingWrites, hand = None, hand' = None
  PROVE  /\ NoWriteLost'
         /\ \A k \in Calls, f \in Frames :
              \/ outcome'[k][f] = outcome[k][f]
              \/ outcome[k][f] = "queued" /\ outcome'[k][f] \in {"written", "failed", "not_written"}
<1>1. \A k \in Calls, f \in Frames :
        outcome[k][f] = "queued" <=> \E i \in DOMAIN queue : Queued(i, k, f)
  BY DEF IInv, NoWriteLost, InHand
<1>2. \A k \in Calls, f \in Frames :
        outcome'[k][f] = IF \E i \in DOMAIN queue : Queued(i, k, f) THEN "not_written" ELSE outcome[k][f]
  BY DEF DropPendingWrites, NotWritten, Queued
<1>3. DOMAIN queue' = {}
  BY DEF DropPendingWrites
<1>4. NoWriteLost'
  BY <1>1, <1>2, <1>3 DEF NoWriteLost, InHand
<1> QED BY <1>1, <1>2, <1>4

\* Nothing but the owner's place changes on the transmit side.
LEMMA QueueKept ==
  ASSUME IInv, UNCHANGED <<queue, outcome, hand>>
  PROVE  NoWriteLost'
  BY DEF IInv, NoWriteLost, InHand, Queued

\* An empty hand leaves the lease and epoch parts nothing to say.
LEMMA InvEmptyHand ==
  ASSUME IInv, hand' = None, UNCHANGED <<lock, leases>>
  PROVE  LeaseInv' /\ NoStaleEpochWrite' /\ ForeignWriteOnlyIfEarlier'
  BY DEF IInv, LeaseInv, NoStaleEpochWrite, ForeignWriteOnlyIfEarlier

\* An acknowledgement changes nothing of a request but its verdict.
LEMMA AcknowledgeEffect ==
  ASSUME TypeOK, NEW os, NEW a \in Verdicts, NEW o \in Ops
  PROVE  /\ Acknowledge(os, a)[o].pc = op[o].pc /\ Acknowledge(os, a)[o].kind = op[o].kind
         /\ Acknowledge(os, a)[o].result = op[o].result
         /\ Acknowledge(os, a)[o].ack = IF o \in os /\ op[o].pc = "wait" THEN a ELSE op[o].ack
<1>1. op[o] \in OpRecord
  BY DEF TypeOK
<1> QED BY <1>1 DEF Acknowledge, OpRecord

\* The owner never adds a handoff record, nor does it touch the lease.
LEMMA InvHandoffKept ==
  ASSUME IInv, lock' = lock, handoff' = handoff \/ handoff' = None,
         \A o \in Ops : op'[o].pc = op[o].pc /\ op'[o].kind = op[o].kind /\ op'[o].result = op[o].result
  PROVE  HandoffInv'
  BY DEF IInv, TypeOK, HandoffInv, Active

\* Refusing all queued requests leaves none of them unanswered.
LEMMA RefuseEffect ==
  ASSUME IInv, ownerPc # "releasing", ownerPc' # "releasing",
         op' = Refused(control), control' = << >>
  PROVE  /\ ControlInv'
         /\ \A o \in Ops : /\ op'[o].pc = op[o].pc /\ op'[o].kind = op[o].kind
                            /\ op'[o].result = op[o].result
<1>1. \A o \in Ops :
        /\ op'[o].pc = op[o].pc /\ op'[o].kind = op[o].kind /\ op'[o].result = op[o].result
        /\ op'[o].ack = IF (\E i \in DOMAIN control : control[i] = o) /\ op[o].pc = "wait"
                          THEN "err" ELSE op[o].ack
  BY AcknowledgeEffect, Members DEF Refused, IInv
<1>2. DOMAIN control' = {}
  OBVIOUS
<1>3. ControlInv'
  BY <1>1, <1>2 DEF IInv, ControlInv, Owed
<1> QED BY <1>1, <1>3

\* Which elements the tail of a queue has, index by index.
LEMMA TailEffect ==
  \A S : \A s \in Seq(S) : s # << >> =>
    /\ Len(s) \in Nat \ {0} /\ DOMAIN s = 1..Len(s) /\ Head(s) = s[1]
    /\ DOMAIN Tail(s) = 1..Len(s) - 1
    /\ \A i \in 1..Len(s) - 1 : Tail(s)[i] = s[i + 1]
  OBVIOUS

\* The first write leaves the queue: its frame is the one no longer there.
LEMMA TakeEffect ==
  ASSUME IInv, queue # << >>, queue' = Tail(queue)
  PROVE  LET w == Head(queue)
         IN /\ w.call \in Calls /\ w.frame \in Frames
            /\ outcome[w.call][w.frame] = "queued" /\ ~InHand(w.call, w.frame)
            /\ \A k \in Calls, f \in Frames :
                 (\E i \in DOMAIN queue' : Queued(i, k, f)') <=>
                   <<k, f>> # <<w.call, w.frame>> /\ \E i \in DOMAIN queue : Queued(i, k, f)
            /\ \A i, j \in DOMAIN queue' :
                 queue'[i].call = queue'[j].call /\ queue'[i].frame = queue'[j].frame => i = j
            /\ \A i \in DOMAIN queue' : /\ <<queue'[i].call, queue'[i].frame>> # <<w.call, w.frame>>
                                        /\ ~InHand(queue'[i].call, queue'[i].frame)
<1> DEFINE w == Head(queue)
<1>0. queue \in Seq(Write) /\ NoWriteLost
  BY DEF IInv, TypeOK
<1>1. /\ Len(queue) \in Nat \ {0} /\ DOMAIN queue = 1..Len(queue) /\ w = queue[1]
      /\ DOMAIN queue' = 1..Len(queue) - 1
      /\ \A i \in 1..Len(queue) - 1 : queue'[i] = queue[i + 1]
  BY <1>0, TailEffect
<1>2. /\ 1 \in DOMAIN queue
      /\ \A i \in DOMAIN queue' : i + 1 \in DOMAIN queue /\ i + 1 # 1 /\ queue'[i] = queue[i + 1]
      /\ \A i \in DOMAIN queue : i # 1 => i - 1 \in DOMAIN queue' /\ queue'[i - 1] = queue[i]
  BY <1>1
<1>3. w.call \in Calls /\ w.frame \in Frames
  <2>1. w \in Write
    BY <1>0, HeadTail
  <2> QED BY <2>1 DEF Write
<1>4. outcome[w.call][w.frame] = "queued" /\ ~InHand(w.call, w.frame)
  BY <1>0, <1>1, <1>2, <1>3 DEF NoWriteLost, Queued
<1>5. ASSUME NEW k \in Calls, NEW f \in Frames
      PROVE  (\E i \in DOMAIN queue' : Queued(i, k, f)') <=>
               <<k, f>> # <<w.call, w.frame>> /\ \E i \in DOMAIN queue : Queued(i, k, f)
  <2>1. ASSUME NEW i \in DOMAIN queue', queue'[i].call = k, queue'[i].frame = f
        PROVE  /\ queue[i + 1].call = k /\ queue[i + 1].frame = f /\ i + 1 \in DOMAIN queue
               /\ ~(k = w.call /\ f = w.frame)
    BY <1>0, <1>1, <1>2, <2>1 DEF NoWriteLost
  <2>2. ASSUME NEW i \in DOMAIN queue, queue[i].call = k, queue[i].frame = f,
               ~(k = w.call /\ f = w.frame)
        PROVE  i - 1 \in DOMAIN queue' /\ queue'[i - 1].call = k /\ queue'[i - 1].frame = f
    BY <1>1, <1>2, <2>2
  <2> QED BY <2>1, <2>2 DEF Queued
<1>6. \A i, j \in DOMAIN queue' :
        queue'[i].call = queue'[j].call /\ queue'[i].frame = queue'[j].frame => i = j
  BY <1>0, <1>1, <1>2 DEF NoWriteLost
<1>7. \A i \in DOMAIN queue' : /\ <<queue'[i].call, queue'[i].frame>> # <<w.call, w.frame>>
                              /\ ~InHand(queue'[i].call, queue'[i].frame)
  BY <1>0, <1>1, <1>2 DEF NoWriteLost
<1> QED BY <1>3, <1>4, <1>5, <1>6, <1>7

\* A status is published and the owner moves on.
LEMMA InvPortStep ==
  ASSUME IInv, NEW up \in BOOLEAN, SetPort(up),
         ownerPc \in {"opening", "lost", "stopping"},
         ownerPc' \in {"io", "top", "stopping", "draining"},
         up => ownerPc' = "io",
         ownerPc' = "draining" => ~open',
         UNCHANGED <<rest, lock, handoff, queue, outcome, control, attached, op, hand, serving>>
  PROVE  Parts'
<1> USE DEF IInv, SetPort, rest
<1>0. hand = None /\ serving = None
  BY DEF OwnerInv
<1>1. OwnerInv'
  BY <1>0 DEF OwnerInv
<1>2. NoWriteLost'
  BY QueueKept
<1>3. CallInv' /\ ApiInv' /\ StreamInv'
  BY InvResolve
<1>4. LeaseInv' /\ NoStaleEpochWrite' /\ ForeignWriteOnlyIfEarlier'
  BY <1>0, InvEmptyHand
<1>5. ControlInv'
  BY DEF ControlInv, Owed
<1>6. HandoffInv'
  BY InvHandoffKept
<1> QED BY <1>1, <1>2, <1>3, <1>4, <1>5, <1>6 DEF Parts

\* The owner is at the top of its connection loop: it opens, retries or leaves.
LEMMA InvLoopTop ==
  ASSUME IInv, LoopTop
  PROVE  Parts'
<1> USE DEF rest
<1>0. hand = None /\ hand' = None /\ serving = None /\ OwnerInv /\ TypeOK
  BY DEF IInv, OwnerInv, LoopTop
<1>1. CASE stop
  <2>1. /\ UNCHANGED <<rest, lock, handoff, queue, outcome, control, op, serving>>
        /\ ownerPc = "top" /\ ownerPc' = "stopping"
    BY <1>1 DEF LoopTop
  <2>2. OwnerInv'
    BY <1>0, <2>1 DEF OwnerInv
  <2>3. NoWriteLost' /\ CallInv' /\ ApiInv' /\ StreamInv'
    BY <1>0, <2>1, QueueKept, InvResolve
  <2>4. LeaseInv' /\ NoStaleEpochWrite' /\ ForeignWriteOnlyIfEarlier'
    BY <1>0, <2>1, InvEmptyHand
  <2>5. ControlInv' /\ HandoffInv'
    BY <2>1, InvHandoffKept DEF IInv, ControlInv, Owed
  <2> QED BY <2>2, <2>3, <2>4, <2>5 DEF Parts
<1>2. CASE ~stop
  <2>1. /\ UNCHANGED <<rest, lock, handoff, serving>> /\ DropPendingWrites
        /\ op' = Refused(control) /\ control' = << >>
        /\ ownerPc = "top" /\ ownerPc' = "opening"
    BY <1>2 DEF LoopTop
  <2>2. OwnerInv'
    BY <1>0, <2>1 DEF OwnerInv
  <2>3. NoWriteLost' /\ CallInv' /\ ApiInv' /\ StreamInv'
    BY <1>0, <2>1, DropEffect, InvResolve
  <2>4. LeaseInv' /\ NoStaleEpochWrite' /\ ForeignWriteOnlyIfEarlier'
    BY <1>0, <2>1, InvEmptyHand
  <2>5. ControlInv' /\ HandoffInv'
    BY <2>1, RefuseEffect, InvHandoffKept
  <2> QED BY <2>2, <2>3, <2>4, <2>5 DEF Parts
<1> QED BY <1>1, <1>2

\* The owner's place changes inside the connection, with nothing in hand.
LEMMA InvPlace ==
  ASSUME IInv, UNCHANGED <<rest, lock, handoff, connected, open, queue, outcome, control, attached, op>>,
         ownerPc \in {"io", "handoff"}, ownerPc' \in {"stopping", "lost"},
         hand' = hand, serving' = None
  PROVE  Parts'
<1>0. hand = None
  BY DEF IInv, OwnerInv
<1>1. OwnerInv'
  BY <1>0 DEF IInv, OwnerInv
<1>2. NoWriteLost' /\ CallInv' /\ ApiInv' /\ StreamInv'
  BY QueueKept, InvResolve
<1>3. LeaseInv' /\ NoStaleEpochWrite' /\ ForeignWriteOnlyIfEarlier'
  BY <1>0, InvEmptyHand DEF rest
<1>4. ControlInv' /\ HandoffInv'
  BY InvHandoffKept DEF IInv, ControlInv, Owed
<1> QED BY <1>1, <1>2, <1>3, <1>4 DEF Parts

\* The first request leaves the channel and is in it no longer.
LEMMA TakeControlEffect ==
  ASSUME IInv, control # << >>, control' = Tail(control)
  PROVE  LET o == Head(control)
         IN /\ o \in Ops /\ Owed(o)
            /\ \A p \in Ops : (\E i \in DOMAIN control' : control'[i] = p) <=>
                 p # o /\ \E i \in DOMAIN control : control[i] = p
            /\ \A i, j \in DOMAIN control' : control'[i] = control'[j] => i = j
            /\ \A i \in DOMAIN control' : control'[i] \in Ops
<1> DEFINE o == Head(control)
<1>0. control \in Seq(Ops) /\ ControlInv
  BY DEF IInv, TypeOK
<1>1. /\ Len(control) \in Nat \ {0} /\ DOMAIN control = 1..Len(control) /\ o = control[1]
      /\ DOMAIN control' = 1..Len(control) - 1
      /\ \A i \in 1..Len(control) - 1 : control'[i] = control[i + 1]
  BY <1>0, TailEffect
<1>2. /\ 1 \in DOMAIN control
      /\ \A i \in DOMAIN control' : i + 1 \in DOMAIN control /\ i + 1 # 1 /\ control'[i] = control[i + 1]
      /\ \A i \in DOMAIN control : i # 1 => i - 1 \in DOMAIN control' /\ control'[i - 1] = control[i]
  BY <1>1
<1>3. o \in Ops
  BY <1>0, HeadTail
<1>4. Owed(o)
  BY <1>1, <1>2 DEF Owed
<1>5. ASSUME NEW p \in Ops
      PROVE  (\E i \in DOMAIN control' : control'[i] = p) <=>
               p # o /\ \E i \in DOMAIN control : control[i] = p
  <2>1. ASSUME NEW i \in DOMAIN control', control'[i] = p
        PROVE  control[i + 1] = p /\ i + 1 \in DOMAIN control /\ p # o
    BY <1>0, <1>1, <1>2, <2>1 DEF ControlInv
  <2>2. ASSUME NEW i \in DOMAIN control, control[i] = p, p # o
        PROVE  i - 1 \in DOMAIN control' /\ control'[i - 1] = p
    BY <1>1, <1>2, <2>2
  <2> QED BY <2>1, <2>2
<1>6. \A i, j \in DOMAIN control' : control'[i] = control'[j] => i = j
  BY <1>0, <1>1, <1>2 DEF ControlInv
<1>7. \A i \in DOMAIN control' : control'[i] \in Ops
  BY <1>0, <1>1, <1>2
<1> QED BY <1>3, <1>4, <1>5, <1>6, <1>7

\* The owner answers the request it took and keeps owing the others.
LEMMA AnswerEffect ==
  ASSUME IInv, control # << >>, control' = Tail(control), NEW a \in {"ok", "err"},
         op' = Acknowledge({Head(control)}, a), ownerPc # "releasing", ownerPc' # "releasing"
  PROVE  /\ ControlInv'
         /\ \A p \in Ops : /\ op'[p].pc = op[p].pc /\ op'[p].kind = op[p].kind
                            /\ op'[p].result = op[p].result
<1>1. \A p \in Ops :
        /\ op'[p].pc = op[p].pc /\ op'[p].kind = op[p].kind /\ op'[p].result = op[p].result
        /\ op'[p].ack = IF p \in {Head(control)} /\ op[p].pc = "wait" THEN a ELSE op[p].ack
  BY AcknowledgeEffect, Members DEF IInv
<1>2. \A p \in Ops : Owed(p)' <=> p # Head(control) /\ Owed(p)
  BY TakeControlEffect DEF Owed
<1>3. \A p \in Ops :
        /\ Owed(p)' => op'[p].pc \in {"wait", "done"} /\ op'[p].ack = "none" /\ op'[p].result # "ok"
        /\ op'[p].pc = "wait" /\ op'[p].ack = "none" => Owed(p)'
        /\ op'[p].pc \in {"new", "send"} => op'[p].ack = "none"
        /\ op'[p].pc # "done" => op'[p].result = "none"
  BY <1>1, <1>2 DEF IInv, ControlInv
<1>4. ControlInv'
  BY <1>3, TakeControlEffect DEF ControlInv
<1> QED BY <1>1, <1>4

\* The owner takes one control request and answers it or begins a handoff.
LEMMA InvTakeControl ==
  ASSUME IInv, TakeControl
  PROVE  Parts'
<1> DEFINE o == Head(control)
<1>0. /\ ownerPc = "io" /\ hand = None /\ hand' = None /\ serving = None /\ OwnerInv /\ o \in Ops
      /\ control # << >> /\ control' = Tail(control)
      /\ UNCHANGED <<rest, lock, handoff, connected, open, attached>>
  BY TakeControlEffect DEF IInv, OwnerInv, TakeControl
<1>1. LeaseInv' /\ NoStaleEpochWrite' /\ ForeignWriteOnlyIfEarlier'
  BY <1>0, InvEmptyHand DEF rest
<1>2. CASE op[o].kind = "begin" /\ DropPendingWrites /\ ownerPc' = "releasing" /\ serving' = o /\ UNCHANGED op
  <2>1. OwnerInv'
    BY <1>0, <1>2, NamesAssumption DEF OwnerInv
  <2>2. NoWriteLost' /\ CallInv' /\ ApiInv' /\ StreamInv'
    BY <1>0, <1>2, DropEffect, InvResolve
  <2>3. \A p \in Ops : Owed(p)' <=> Owed(p)
    BY <1>0, <1>2, TakeControlEffect DEF Owed
  <2>4. \A i \in DOMAIN control' : ~(ownerPc' = "releasing" /\ serving' = control'[i])
    BY <1>0, <1>2, TakeControlEffect
  <2>5. ControlInv'
    BY <1>0, <1>2, <2>3, <2>4, TakeControlEffect DEF IInv, ControlInv
  <2>6. HandoffInv'
    BY <1>0, <1>2, InvHandoffKept
  <2> QED BY <1>1, <2>1, <2>2, <2>5, <2>6 DEF Parts
<1>3. ASSUME NEW a \in {"ok", "err"}, op' = Acknowledge({o}, a),
             UNCHANGED <<queue, outcome, ownerPc, serving>>
      PROVE  Parts'
  <2>1. OwnerInv'
    BY <1>0, <1>3 DEF OwnerInv
  <2>2. NoWriteLost' /\ CallInv' /\ ApiInv' /\ StreamInv'
    BY <1>0, <1>3, QueueKept, InvResolve
  <2>3. ControlInv' /\ \A p \in Ops : /\ op'[p].pc = op[p].pc /\ op'[p].kind = op[p].kind
                                      /\ op'[p].result = op[p].result
    BY <1>0, <1>3, AnswerEffect
  <2>4. HandoffInv'
    BY <1>0, <2>3, InvHandoffKept
  <2> QED BY <1>1, <2>1, <2>2, <2>3, <2>4 DEF Parts
<1> QED BY <1>2, <1>3 DEF TakeControl

\* The owner takes one write: it refuses it, or validates it and holds it.
LEMMA InvTakeWrite ==
  ASSUME IInv, TakeWrite
  PROVE  Parts'
<1> DEFINE w == Head(queue)
<1> USE DEF rest
<1>0. /\ ownerPc = "io" /\ hand = None /\ serving = None /\ OwnerInv
      /\ queue # << >> /\ queue' = Tail(queue)
      /\ UNCHANGED <<rest, lock, handoff, connected, epoch, open, control, attached, op, serving>>
  BY DEF IInv, OwnerInv, TakeWrite
<1>1. /\ w.call \in Calls /\ w.frame \in Frames /\ outcome[w.call][w.frame] = "queued"
      /\ leases \in Nat /\ leases \in Tokens /\ lock.token \in Nat
  BY <1>0, TakeEffect, Constants DEF IInv, TypeOK, Tokens, NoToken
<1>2. HandoffInv'
  BY <1>0, InvHandoffKept
<1>3. CASE /\ ValidateDeviceWrite(w.call, w.left)
           /\ hand' = [call |-> w.call, frame |-> w.frame, seen |-> leases]
           /\ ownerPc' = "writing" /\ UNCHANGED outcome
  <2>1. hand' # None
    BY <1>1, <1>3, NoneAssumption
  <2>2. OwnerInv'
    BY <1>0, <1>3, <2>1 DEF OwnerInv
  <2>3. \A k \in Calls, f \in Frames : InHand(k, f)' <=> <<k, f>> = <<w.call, w.frame>>
    BY <1>3, <2>1 DEF InHand
  <2>4. \A k \in Calls, f \in Frames : ~InHand(k, f)
    BY <1>0 DEF InHand
  <2>5. \A k \in Calls, f \in Frames :
          outcome'[k][f] = "queued" <=> InHand(k, f)' \/ \E i \in DOMAIN queue' : Queued(i, k, f)'
    BY <1>0, <1>1, <1>3, <2>3, <2>4, TakeEffect DEF IInv, NoWriteLost
  <2>6. \A i \in DOMAIN queue' : ~(InHand(queue[i].call, queue[i].frame)')
    BY <1>0, <1>3, <2>1, TakeEffect DEF InHand
  <2>7. NoWriteLost'
    BY <1>0, <2>5, <2>6, TakeEffect DEF NoWriteLost
  <2>8. CallInv' /\ ApiInv' /\ StreamInv'
    BY <1>0, <1>3, InvResolve
  <2>9. LeaseInv' /\ NoStaleEpochWrite'
    BY <1>0, <1>1, <1>3 DEF IInv, LeaseInv, NoStaleEpochWrite, ValidateDeviceWrite
  <2>10. ForeignWriteOnlyIfEarlier'
    BY <1>0, <1>3
    DEF ForeignWriteOnlyIfEarlier, ValidateDeviceWrite, AdmitWrite, Authorizes, Active
  <2>11. ControlInv'
    BY <1>0, <1>3 DEF IInv, ControlInv, Owed
  <2> QED BY <1>2, <2>2, <2>7, <2>8, <2>9, <2>10, <2>11 DEF Parts
<1>4. CASE /\ outcome' = [outcome EXCEPT ![w.call][w.frame] = "not_written"]
           /\ ownerPc' \in {"io", "stopping"} /\ UNCHANGED hand
  <2>1. OwnerInv'
    BY <1>0, <1>4 DEF OwnerInv
  <2>2. /\ outcome'[w.call][w.frame] = "not_written"
        /\ \A k \in Calls, f \in Frames : <<k, f>> # <<w.call, w.frame>> => outcome'[k][f] = outcome[k][f]
    BY <1>1, <1>4 DEF IInv, TypeOK
  <2>3. \A k \in Calls, f \in Frames :
          outcome'[k][f] = "queued" <=> \E i \in DOMAIN queue' : Queued(i, k, f)'
    BY <1>0, <1>1, <2>2, TakeEffect DEF IInv, NoWriteLost, InHand
  <2>4. NoWriteLost'
    BY <1>0, <1>4, <2>3, TakeEffect DEF NoWriteLost, InHand
  <2>5. CallInv' /\ ApiInv' /\ StreamInv'
    BY <1>0, <1>1, <2>2, InvResolve
  <2>6. LeaseInv' /\ NoStaleEpochWrite' /\ ForeignWriteOnlyIfEarlier'
    BY <1>0, <1>4, InvEmptyHand
  <2>7. ControlInv'
    BY <1>0, <1>4 DEF IInv, ControlInv, Owed
  <2> QED BY <1>2, <2>1, <2>4, <2>5, <2>6, <2>7 DEF Parts
<1> QED BY <1>3, <1>4 DEF TakeWrite

\* write_all ends: the held frame is written or failed and the hand is empty.
LEMMA InvHostWrite ==
  ASSUME IInv, NEW r \in {"written", "failed"}, NEW pc \in {"io", "lost"}, HostWriteReturns(r, pc)
  PROVE  Parts'
<1> USE DEF rest
<1>0. /\ ownerPc = "writing" /\ hand # None /\ hand' = None /\ serving = None /\ OwnerInv
      /\ ownerPc' = pc /\ outcome' = [outcome EXCEPT ![hand.call][hand.frame] = r]
      /\ UNCHANGED <<rest, lock, handoff, connected, epoch, queue, open, control, attached, op, serving>>
  BY DEF IInv, OwnerInv, HostWriteReturns
<1>1. hand.call \in Calls /\ hand.frame \in Frames /\ outcome[hand.call][hand.frame] = "queued"
  BY <1>0, HandIsQueued
<1>2. OwnerInv'
  BY <1>0 DEF OwnerInv
<1>3. /\ outcome'[hand.call][hand.frame] = r
      /\ \A k \in Calls, f \in Frames : ~InHand(k, f) => outcome'[k][f] = outcome[k][f]
  BY <1>0, <1>1 DEF IInv, TypeOK, InHand
<1>4. \A k \in Calls, f \in Frames : InHand(k, f) => ~\E i \in DOMAIN queue : Queued(i, k, f)
  BY DEF IInv, NoWriteLost, InHand, Queued
<1>5. \A k \in Calls, f \in Frames : InHand(k, f) <=> k = hand.call /\ f = hand.frame
  BY <1>0 DEF InHand
<1>6. \A k \in Calls, f \in Frames :
        outcome'[k][f] = "queued" <=> \E i \in DOMAIN queue : Queued(i, k, f)
  BY <1>1, <1>3, <1>4, <1>5 DEF IInv, NoWriteLost
<1>7. NoWriteLost'
  BY <1>0, <1>6 DEF IInv, NoWriteLost, InHand, Queued
<1>8. CallInv' /\ ApiInv' /\ StreamInv'
  BY <1>0, <1>1, <1>3, <1>5, InvResolve
<1>9. LeaseInv' /\ NoStaleEpochWrite' /\ ForeignWriteOnlyIfEarlier'
  BY <1>0, InvEmptyHand
<1>10. ControlInv' /\ HandoffInv'
  BY <1>0, InvHandoffKept DEF IInv, ControlInv, Owed
<1> QED BY <1>2, <1>7, <1>8, <1>9, <1>10 DEF Parts

\* The handle is closed and the begin request acknowledged.
LEMMA InvReleasePort ==
  ASSUME IInv, ReleasePort
  PROVE  Parts'
<1> USE DEF rest
<1>0. /\ ownerPc = "releasing" /\ ownerPc' = "handoff" /\ hand = None /\ hand' = None /\ ~connected'
      /\ op' = Acknowledge({serving}, "ok") /\ OwnerInv /\ TypeOK
      /\ UNCHANGED <<rest, lock, handoff, queue, open, outcome, control, attached, serving>>
  BY DEF IInv, OwnerInv, ReleasePort, SetPort
<1>1. OwnerInv'
  BY <1>0 DEF OwnerInv
<1>2. NoWriteLost' /\ CallInv' /\ ApiInv' /\ StreamInv'
  BY <1>0, QueueKept, InvResolve
<1>3. LeaseInv' /\ NoStaleEpochWrite' /\ ForeignWriteOnlyIfEarlier'
  BY <1>0, InvEmptyHand
<1>4. \A o \in Ops :
        /\ op'[o].pc = op[o].pc /\ op'[o].kind = op[o].kind /\ op'[o].result = op[o].result
        /\ op'[o].ack = IF o = serving /\ op[o].pc = "wait" THEN "ok" ELSE op[o].ack
  BY <1>0, AcknowledgeEffect, Members
<1>5. \A o \in Ops : Owed(o)' <=> Owed(o) /\ o # serving
  <2>1. \A i \in DOMAIN control : serving # control[i]
    BY <1>0 DEF IInv, ControlInv
  <2> QED BY <1>0, <2>1 DEF Owed
<1>6. ControlInv'
  BY <1>0, <1>4, <1>5 DEF IInv, ControlInv
<1>7. HandoffInv'
  BY <1>0, <1>4, InvHandoffKept
<1> QED BY <1>1, <1>2, <1>3, <1>6, <1>7 DEF Parts

\* The owner waits in a handoff: a resume, a deadline or a stop ends it.
LEMMA InvHandoff ==
  ASSUME IInv, HandoffControl \/ HandoffExpires
  PROVE  Parts'
<1> USE DEF rest
<1>0. /\ ownerPc = "handoff" /\ hand = None /\ hand' = None /\ ~connected /\ OwnerInv /\ TypeOK
      /\ UNCHANGED <<rest, lock, connected, queue, open, outcome, attached>>
      /\ handoff' = handoff \/ handoff' = None
      /\ \/ ownerPc' = "top" /\ serving' = None
         \/ ownerPc' = "handoff" /\ serving' = serving
  BY DEF IInv, OwnerInv, HandoffControl, HandoffExpires
<1>1. OwnerInv'
  BY <1>0 DEF OwnerInv
<1>2. NoWriteLost' /\ CallInv' /\ ApiInv' /\ StreamInv'
  BY <1>0, QueueKept, InvResolve
<1>3. LeaseInv' /\ NoStaleEpochWrite' /\ ForeignWriteOnlyIfEarlier'
  BY <1>0, InvEmptyHand
<1>4. ASSUME NEW a \in {"ok", "err"}, control # << >>, control' = Tail(control),
             op' = Acknowledge({Head(control)}, a)
      PROVE  ControlInv' /\ HandoffInv'
  BY <1>0, <1>4, AnswerEffect, InvHandoffKept
<1>5. CASE HandoffControl
  <2> DEFINE a == IF op[Head(control)].kind = "resume" THEN "ok" ELSE "err"
  <2>1. a \in {"ok", "err"}
    OBVIOUS
  <2>2. control # << >> /\ control' = Tail(control) /\ op' = Acknowledge({Head(control)}, a)
    BY <1>5 DEF HandoffControl
  <2> HIDE DEF a
  <2>3. ControlInv' /\ HandoffInv'
    BY <1>4, <2>1, <2>2
  <2> QED BY <1>1, <1>2, <1>3, <2>3 DEF Parts
<1>6. CASE HandoffExpires
  <2>1. ControlInv' /\ HandoffInv'
    BY <1>0, <1>6, InvHandoffKept DEF HandoffExpires, IInv, ControlInv, Owed
  <2> QED BY <1>1, <1>2, <1>3, <2>1 DEF Parts
<1> QED BY <1>5, <1>6

\* At shutdown the owner refuses what is queued, one write at a time.
LEMMA InvDrainWrite ==
  ASSUME IInv, DrainWrite
  PROVE  Parts'
<1> DEFINE w == Head(queue)
<1> USE DEF rest, ownerVars
<1>0. /\ ownerPc = "draining" /\ hand = None /\ hand' = None /\ OwnerInv /\ TypeOK
      /\ queue # << >> /\ queue' = Tail(queue) /\ outcome' = NotWritten(<<w>>)
      /\ UNCHANGED <<rest, lock, handoff, connected, open, control, attached, op, ownerPc, serving>>
  BY DEF IInv, OwnerInv, DrainWrite
<1>1. \A k \in Calls, f \in Frames :
        outcome'[k][f] = IF w.call = k /\ w.frame = f THEN "not_written" ELSE outcome[k][f]
  BY <1>0 DEF NotWritten
<1>2. OwnerInv'
  BY <1>0 DEF OwnerInv
<1>3. \A k \in Calls, f \in Frames :
        outcome'[k][f] = "queued" <=> \E i \in DOMAIN queue' : Queued(i, k, f)'
  BY <1>0, <1>1, TakeEffect DEF IInv, NoWriteLost, InHand
<1>4. NoWriteLost'
  BY <1>0, <1>3, TakeEffect DEF NoWriteLost, InHand
<1>5. CallInv' /\ ApiInv' /\ StreamInv'
  BY <1>0, <1>1, TakeEffect, InvResolve
<1>6. LeaseInv' /\ NoStaleEpochWrite' /\ ForeignWriteOnlyIfEarlier'
  BY <1>0, InvEmptyHand
<1>7. ControlInv' /\ HandoffInv'
  BY <1>0, InvHandoffKept DEF IInv, ControlInv, Owed
<1> QED BY <1>2, <1>4, <1>5, <1>6, <1>7 DEF Parts

\* The last permit is back and the queue is empty: the owner is gone.
LEMMA InvStopped ==
  ASSUME IInv, Stopped
  PROVE  Parts'
<1> USE DEF rest
<1>0. /\ ownerPc = "draining" /\ ownerPc' = "stopped" /\ hand = None /\ hand' = None /\ OwnerInv
      /\ queue = << >> /\ Permits = {} /\ ~attached' /\ handoff' = None
      /\ op' = Refused(control) /\ control' = << >>
      /\ UNCHANGED <<rest, lock, connected, queue, open, outcome, serving>>
  BY DEF IInv, OwnerInv, Stopped, Drained
<1>1. NoWriteLost' /\ CallInv' /\ ApiInv' /\ StreamInv' /\ Permits' = Permits
  BY <1>0, QueueKept, InvResolve
<1>2. OwnerInv'
  BY <1>0, <1>1 DEF OwnerInv
<1>3. LeaseInv' /\ NoStaleEpochWrite' /\ ForeignWriteOnlyIfEarlier'
  BY <1>0, InvEmptyHand
<1>4. ControlInv' /\ HandoffInv'
  BY <1>0, RefuseEffect, InvHandoffKept
<1> QED BY <1>1, <1>2, <1>3, <1>4 DEF Parts

\* Every step of the owner thread.
LEMMA InvOwner ==
  ASSUME IInv, OwnerStep \/ ReadFails
  PROVE  Parts'
<1>1. CASE OpenSucceeds
  BY <1>1, InvPortStep DEF OpenSucceeds
<1>2. CASE OpenFails
  BY <1>2, InvPortStep DEF OpenFails
<1>3. CASE LinkLost
  BY <1>3, InvPortStep DEF LinkLost
<1>4. CASE StopPort
  BY <1>4, InvPortStep DEF StopPort
<1>5. CASE IoStop \/ ReadFails
  <2>1. serving = None
    BY <1>5 DEF IoStop, ReadFails, IInv, OwnerInv
  <2> QED BY <1>5, <2>1, InvPlace DEF IoStop, ReadFails, brokerVars, rest
<1>6. CASE HandoffStop
  BY <1>6, InvPlace DEF HandoffStop, brokerVars, rest
<1>7. CASE HostWriteOk \/ HostWriteFails
  BY <1>7, InvHostWrite DEF HostWriteOk, HostWriteFails
<1> QED
  BY <1>1, <1>2, <1>3, <1>4, <1>5, <1>6, <1>7, InvLoopTop, InvTakeControl, InvTakeWrite,
     InvReleasePort, InvHandoff, InvDrainWrite, InvStopped DEF OwnerStep

\* Time alone decides nothing: a lease can only lapse.
LEMMA InvTick ==
  ASSUME IInv, Tick
  PROVE  Parts'
<1>0. /\ call \in [Calls -> CallRecord] /\ op \in [Ops -> OpRecord] /\ queue \in Seq(Write)
      /\ lock \in [token : Tokens, left : 0..LockTTL]
      /\ handoff \in [token : Ops, left : 0..HandoffTTL] \cup {None}
      /\ Apis \subseteq Calls /\ Streams \subseteq Calls
  BY DEF IInv, TypeOK, Calls
<1>1. \A k \in Calls : /\ call'[k].pc = call[k].pc /\ call'[k].result = call[k].result
                       /\ call'[k].frame = call[k].frame /\ call'[k].frames = call[k].frames
                       /\ call'[k].client = call[k].client /\ call'[k].token = call[k].token
                       /\ call'[k].epoch = call[k].epoch
  BY <1>0 DEF Tick, CallRecord
<1>2. \A o \in Ops : /\ op'[o].pc = op[o].pc /\ op'[o].kind = op[o].kind
                     /\ op'[o].ack = op[o].ack /\ op'[o].result = op[o].result
  BY <1>0 DEF Tick, OpRecord
<1>3. /\ DOMAIN queue' = DOMAIN queue /\ (queue = << >> => queue' = << >>)
      /\ \A i \in DOMAIN queue : queue'[i].call = queue[i].call /\ queue'[i].frame = queue[i].frame
  <2>1. \A i \in DOMAIN queue : queue[i] \in Write
    BY <1>0
  <2> QED BY <1>0, <2>1 DEF Tick, Write
<1>4. lock'.token = lock.token /\ (lock'.left > 0 => lock.left > 0)
  BY <1>0, Constants DEF Tick, Dec
<1>5. handoff' # None => handoff # None /\ handoff'.token = handoff.token
  BY <1>0 DEF Tick
<1>6. UNCHANGED <<client, leases, connected, epoch, open, outcome, control, attached,
                  ownerPc, hand, serving, stop>>
  BY DEF Tick
<1>7. Permits' = Permits
  BY <1>1 DEF Permits
<1>8. OwnerInv'
  BY <1>3, <1>5, <1>6, <1>7 DEF IInv, OwnerInv
<1>9. NoWriteLost'
  BY <1>3, <1>6 DEF IInv, NoWriteLost, InHand, Queued
<1>10. CallInv' /\ ApiInv' /\ StreamInv'
  BY <1>0, <1>1, <1>6 DEF IInv, CallInv, Unsent, ApiInv, StreamInv
<1>11. hand # None => hand.call \in Calls
  BY HandIsQueued
<1>12. LeaseInv' /\ NoStaleEpochWrite' /\ ForeignWriteOnlyIfEarlier'
  BY <1>1, <1>4, <1>6, <1>11
  DEF IInv, LeaseInv, NoStaleEpochWrite, ForeignWriteOnlyIfEarlier, Active
<1>13. ControlInv'
  BY <1>2, <1>6 DEF IInv, ControlInv, Owed
<1>14. HandoffInv'
  <2>1. handoff # None => handoff.token \in Ops
    BY <1>0
  <2> QED BY <1>2, <1>4, <1>5, <2>1 DEF IInv, HandoffInv, Active
<1> QED BY <1>8, <1>9, <1>10, <1>12, <1>13, <1>14 DEF Parts

\* Nothing happens, or only the stop flag is raised.
LEMMA InvIdle ==
  ASSUME IInv, StopRequested \/ UNCHANGED vars
  PROVE  Parts'
<1>1. UNCHANGED <<brokerVars, ownerPc, hand, ownerLeft, serving>>
  BY DEF StopRequested, vars, ownerVars
<1> USE <1>1 DEF brokerVars
<1>2. OwnerInv' /\ NoWriteLost' /\ CallInv' /\ ApiInv' /\ StreamInv'
  BY DEF IInv, OwnerInv, Permits, NoWriteLost, InHand, Queued, CallInv, Unsent, ApiInv, StreamInv
<1>3. /\ LeaseInv' /\ NoStaleEpochWrite' /\ ForeignWriteOnlyIfEarlier'
      /\ ControlInv' /\ HandoffInv'
  BY DEF IInv, LeaseInv, NoStaleEpochWrite, ForeignWriteOnlyIfEarlier, ControlInv, Owed, HandoffInv, Active
<1> QED BY <1>2, <1>3 DEF Parts

\* The invariant is inductive: each disjunct of Next by its lemma.
LEMMA InvNext == IInv /\ [Next]_vars => IInv'
<1> SUFFICES ASSUME IInv, [Next]_vars PROVE Parts'
  BY TypeNext DEF IInv, Parts
<1>1. ASSUME UNCHANGED ownerVars, \E c \in Peers : Register(c) \/ Unregister(c) PROVE Parts'
  BY <1>1, InvRegistration
<1>2. ASSUME UNCHANGED ownerVars,
             AcquireLock \/ (\E t \in 1..leases : RenewLock(t) \/ ReleaseLock(t))
      PROVE  Parts'
  BY <1>2, InvLease
<1>3. ASSUME UNCHANGED ownerVars,
             \/ \E k \in Streams, c \in Peers, t \in 0..leases, n \in 0..MaxFrames :
                  StreamWrite(k, c, t, n)
             \/ \E k \in Apis, t \in 0..leases : ApiWrite(k, t)
      PROVE  Parts'
  BY <1>3, InvEntry
<1>4. ASSUME NEW o \in Ops, UNCHANGED ownerVars,
             SendControl(o) \/ OpFails(o) \/ OpCancel(o) \/ OpSucceeds(o)
               \/ (\E t \in 1..leases : BeginHandoff(o, t) \/ Command(o, t))
               \/ (\E h \in Ops : ResumeHandoff(o, h))
      PROVE  Parts'
  BY <1>4, InvOp
<1> QED
  BY <1>1, <1>2, <1>3, <1>4, InvCall, InvOwner, InvTick, InvIdle DEF Next, OpStep

-----------------------------------------------------------------------------
(* What the invariant gives                                                *)

\* The inductive invariant holds in every reachable state.
THEOREM Invariance == Spec => []IInv
  BY InvInit, InvNext, PTL DEF Spec

\* Every admitted frame is in exactly one place until it is resolved.
THEOREM NothingLost == Spec => []NoWriteLost
<1>1. IInv => NoWriteLost
  BY DEF IInv
<1> QED BY <1>1, Invariance, PTL

\* A write reaches the device only over the connection it was admitted on.
THEOREM NothingStale == Spec => []NoStaleEpochWrite
<1>1. IInv => NoStaleEpochWrite
  BY DEF IInv
<1> QED BY <1>1, Invariance, PTL

\* The only foreign write under a lease is one validated before it was granted.
THEOREM LeaseExcludes == Spec => []ForeignWriteOnlyIfEarlier
<1>1. IInv => ForeignWriteOnlyIfEarlier
  BY DEF IInv
<1> QED BY <1>1, Invariance, PTL

\* A definite answer is the truth about the device.
THEOREM AnswersAreDefinite == Spec => []DefiniteAnswers
<1>1. ASSUME IInv PROVE DefiniteAnswers
  <2>0. call \in [Calls -> CallRecord]
    BY <1>1 DEF IInv, TypeOK
  <2> SUFFICES ASSUME NEW k \in Calls, call[k].pc = "done"
      PROVE  /\ call[k].result = "ok" /\ k \in Apis => outcome[k][1] = "written"
             /\ call[k].result \in {"denied", "not_queued", "not_attempted"} =>
                  \A f \in call[k].frame..MaxFrames :
                    outcome[k][f] \in {"none", "not_written"} /\ ~InHand(k, f)
    BY DEF DefiniteAnswers
  <2>1. call[k].result = "ok" /\ k \in Apis => outcome[k][1] = "written"
    BY <1>1 DEF IInv, ApiInv
  <2>2. \A f \in Frames : InHand(k, f) => outcome[k][f] = "queued"
    BY <1>1 DEF IInv, NoWriteLost
  <2>3. \A f \in call[k].frame..MaxFrames : f \in Frames
    BY <2>0, Constants DEF CallRecord, Frames
  <2>4. ASSUME call[k].result \in {"denied", "not_queued"}, NEW f \in call[k].frame..MaxFrames
        PROVE  outcome[k][f] = "none"
    BY <1>1, <2>4 DEF IInv, CallInv, Unsent
  <2>5. ASSUME call[k].result = "not_attempted", NEW f \in call[k].frame..MaxFrames
        PROVE  outcome[k][f] \in {"none", "not_written"}
    <3>1. k \in Apis
      BY <1>1, <2>5 DEF IInv, StreamInv, Calls
    <3>2. call[k].frame = 1 /\ outcome[k][1] = "not_written" /\ \A g \in 2..MaxFrames : outcome[k][g] = "none"
      BY <1>1, <2>5, <3>1 DEF IInv, ApiInv
    <3>3. f = 1 \/ f \in 2..MaxFrames
      BY <3>2, Constants
    <3> QED BY <3>2, <3>3
  <2> QED BY <2>1, <2>2, <2>3, <2>4, <2>5
<1> QED BY <1>1, Invariance, PTL

\* Nothing is left behind by a thread that has stopped.
THEOREM ShutdownIsClean == Spec => []StoppedIsQuiescent
<1>1. ASSUME IInv PROVE StoppedIsQuiescent
  <2> SUFFICES ASSUME ownerPc = "stopped"
      PROVE  /\ queue = << >> /\ control = << >> /\ Permits = {} /\ ~connected /\ handoff = None
             /\ \A k \in Calls, f \in Frames : outcome[k][f] # "queued"
             /\ \A o \in Ops : op[o].pc = "wait" => op[o].ack # "none"
    BY DEF StoppedIsQuiescent
  <2>1. /\ queue = << >> /\ control = << >> /\ Permits = {} /\ ~connected /\ handoff = None
        /\ hand = None
    BY <1>1 DEF IInv, OwnerInv
  <2>2. DOMAIN queue = {} /\ DOMAIN control = {}
    BY <2>1
  <2>3. \A k \in Calls, f \in Frames : outcome[k][f] # "queued"
    BY <1>1, <2>1, <2>2 DEF IInv, NoWriteLost, InHand
  <2>4. \A o \in Ops : ~Owed(o)
    BY <2>2 DEF Owed
  <2>5. \A o \in Ops : op[o].pc = "wait" => op[o].ack # "none"
    BY <1>1, <2>4 DEF IInv, ControlInv
  <2> QED BY <2>1, <2>3, <2>5
<1> QED BY <1>1, Invariance, PTL

\* While an acknowledged handoff lasts the hub has no handle and no live lease.
THEOREM HandoffIsExclusive == Spec => []HandoffExclusive
<1>1. ASSUME IInv PROVE HandoffExclusive
  <2> SUFFICES ASSUME NEW o \in Ops, serving = o, "ok" \in {op[o].ack, op[o].result}
      PROVE  /\ ~connected /\ hand = None
             /\ op[o].result = "ok" /\ handoff # None /\ handoff.token = o => ~Active(lock)
    BY DEF HandoffExclusive
  <2>1. ownerPc \in {"releasing", "handoff"}
    BY <1>1, NamesAssumption DEF IInv, OwnerInv
  <2>2. ownerPc # "releasing"
    BY <1>1 DEF IInv, ControlInv, Owed
  <2>3. ~connected /\ hand = None
    BY <1>1, <2>1, <2>2 DEF IInv, OwnerInv
  <2>4. op[o].result = "ok" /\ handoff # None /\ handoff.token = o => ~Active(lock)
    BY <1>1 DEF IInv, HandoffInv
  <2> QED BY <2>3, <2>4
<1> QED BY <1>1, Invariance, PTL

\* A write starts on the wire only for a live client, and an HTTP write only while
\* its caller is still waiting for it.
THEOREM NoOrphans == Spec => NoOrphanWrite
<1>1. ASSUME IInv, Next, hand = None, hand' # None
      PROVE  /\ client[call[hand'.call].client] = "live"
             /\ hand'.call \in Apis => call[hand'.call].pc = "await"
  <2>1. TakeWrite
    BY <1>1
    DEF Next, OwnerStep, CallStep, OpStep, ownerVars, brokerVars, LoopTop, OpenSucceeds, OpenFails,
        LinkLost, IoStop, TakeControl, HostWriteOk, HostWriteFails, HostWriteReturns, ReadFails,
        ReleasePort, HandoffControl, HandoffExpires, HandoffStop, StopPort, DrainWrite, Stopped,
        StopRequested, Tick
  <2> DEFINE w == Head(queue)
  <2>2. /\ ValidateDeviceWrite(w.call, w.left) /\ queue # << >> /\ queue' = Tail(queue)
        /\ hand' = [call |-> w.call, frame |-> w.frame, seen |-> leases]
    BY <1>1, <2>1 DEF TakeWrite
  <2>3. client[call[w.call].client] = "live"
    BY <2>2 DEF ValidateDeviceWrite, CanWrite
  <2>4. w.call \in Calls /\ w.frame \in Frames /\ outcome[w.call][w.frame] = "queued"
    BY <1>1, <2>2, TakeEffect
  <2>5. ASSUME w.call \in Apis PROVE call[w.call].pc = "await"
    <3>1. w.frame = 1
      BY <1>1, <2>4, <2>5, Constants DEF IInv, ApiInv, Frames
    <3>2. ~Unsent(w.call)
      BY <1>1, <2>4, <2>5, <3>1, Constants DEF IInv, CallInv, ApiInv
    <3>3. call[w.call].pc # "done"
      BY <1>1, <2>3, <2>5, <3>2 DEF IInv, ApiInv, Unsent
    <3>4. call[w.call].pc \in CallPcs
      BY <1>1, <2>4 DEF IInv, TypeOK, CallRecord
    <3> QED BY <3>2, <3>3, <3>4 DEF CallPcs, Unsent
  <2> QED BY <2>2, <2>3, <2>5
<1>2. IInv /\ [Next]_vars =>
        [hand = None /\ hand' # None =>
           /\ client[call[hand'.call].client] = "live"
           /\ hand'.call \in Apis => call[hand'.call].pc = "await"]_vars
  BY <1>1
<1> QED BY <1>2, Invariance, PTL DEF Spec, NoOrphanWrite

-----------------------------------------------------------------------------
(* The refinement of DeviceAccess                                          *)

\* The fate of a frame, arm by arm.
LEMMA FateIs ==
  \A k \in Calls, f \in Frames :
    /\ FateMap[k][f] = Fate(k, f)
    /\ outcome[k][f] = "queued" /\ InHand(k, f) => Fate(k, f) = "started"
    /\ outcome[k][f] = "queued" /\ ~InHand(k, f) => Fate(k, f) = "accepted"
    /\ outcome[k][f] = "not_written" => Fate(k, f) = "refused"
    /\ outcome[k][f] \notin {"queued", "not_written"} => Fate(k, f) = outcome[k][f]
  BY DEF FateMap, Fate

\* The same of the fate after a step.
LEMMA FateNext ==
  /\ FateMap' = [k \in Calls |-> [f \in Frames |-> FateMap'[k][f]]]
  /\ \A k \in Calls, f \in Frames :
       /\ outcome'[k][f] = "queued" /\ InHand(k, f)' => FateMap'[k][f] = "started"
       /\ outcome'[k][f] = "queued" /\ ~InHand(k, f)' => FateMap'[k][f] = "accepted"
       /\ outcome'[k][f] = "not_written" => FateMap'[k][f] = "refused"
       /\ outcome'[k][f] \notin {"queued", "not_written"} => FateMap'[k][f] = outcome'[k][f]
  BY DEF FateMap, Fate, InHand

\* A frame whose outcome and place are kept keeps its fate.
LEMMA FateSame ==
  \A k \in Calls, f \in Frames :
    outcome'[k][f] = outcome[k][f] /\ (InHand(k, f)' <=> InHand(k, f)) => FateMap'[k][f] = FateMap[k][f]
  BY DEF FateMap, Fate, InHand

\* Frames of the abstract specification are those of the hub.
LEMMA OrderIsFrames == Access!Order = Frames /\ Frames = 1..MaxFrames
  BY DEF Access!Order, Frames

\* Nothing is on the wire while the owner's hand is empty.
LEMMA EmptyHandIdle ==
  ASSUME IInv, hand = None
  PROVE  Access!WireIdle
<1> SUFFICES ASSUME NEW k \in Calls, NEW f \in Frames PROVE FateMap[k][f] # "started"
  BY OrderIsFrames DEF Access!WireIdle
<1>1. outcome[k][f] \in Fates /\ ~InHand(k, f)
  BY DEF IInv, TypeOK, InHand
<1> QED BY <1>1, FateIs DEF Fates

\* The queue moves up by at most one place, into the owner's hand or out of sight.
LEMMA OrderKept ==
  ASSUME IInv, IInv', FramesInOrder, NEW d \in {0, 1},
         \A k \in Calls : call'[k].frame = call[k].frame,
         \A k \in Calls, f \in Frames : outcome'[k][f] = "none" <=> outcome[k][f] = "none",
         \A i \in DOMAIN queue' : /\ i + d \in DOMAIN queue
                                  /\ queue'[i].call = queue[i + d].call
                                  /\ queue'[i].frame = queue[i + d].frame,
         \/ hand' = None \/ hand' = hand
         \/ /\ d = 1 /\ 1 \in DOMAIN queue
            /\ hand'.call = queue[1].call /\ hand'.frame = queue[1].frame
  PROVE  FramesInOrder'
<1>0. DOMAIN queue \subseteq Nat \ {0} /\ DOMAIN queue' \subseteq Nat \ {0}
  BY DEF IInv, TypeOK
<1>1. \A k \in Calls, f \in Frames : /\ f < call'[k].frame => outcome'[k][f] # "none"
                                     /\ f > call'[k].frame => outcome'[k][f] = "none"
  BY DEF FramesInOrder
<1>2. \A i, j \in DOMAIN queue' :
        i < j /\ queue'[i].call = queue'[j].call => queue'[i].frame < queue'[j].frame
  BY <1>0 DEF FramesInOrder
<1>3. \A i \in DOMAIN queue' :
        hand' # None /\ queue'[i].call = hand'.call => hand'.frame < queue'[i].frame
  BY <1>0 DEF FramesInOrder
<1> QED BY <1>1, <1>2, <1>3 DEF FramesInOrder

\* What a caller has been told depends on its place and its answer alone.
LEMMA ToldKept ==
  ASSUME \A k \in Calls : /\ call'[k].pc = call[k].pc /\ call'[k].result = call[k].result
                          /\ call'[k].epoch = call[k].epoch
  PROVE  ToldMap' = ToldMap /\ BoundMap' = BoundMap
  BY DEF ToldMap, Told, Meaning, BoundMap

\* Fates change only with the outcomes and the owner's hand.
LEMMA FateKept ==
  ASSUME UNCHANGED <<outcome, hand>>
  PROVE  FateMap' = FateMap
  BY DEF FateMap, Fate, InHand

\* A step that leaves calls, fates and the port alone is a stuttering step.
LEMMA SimElsewhere ==
  ASSUME IInv, IInv', RefInv, PortInv',
         UNCHANGED <<outcome, hand, epoch, connected>>,
         \A k \in Calls : /\ call'[k].pc = call[k].pc /\ call'[k].result = call[k].result
                          /\ call'[k].epoch = call[k].epoch /\ call'[k].frame = call[k].frame,
         DOMAIN queue' = DOMAIN queue,
         \A i \in DOMAIN queue : queue'[i].call = queue[i].call /\ queue'[i].frame = queue[i].frame,
         ownerPc = "handoff" <=> ownerPc' = "handoff"
  PROVE  RefInv' /\ Access!Next
<1>1. FramesInOrder'
  <2>1. \A i \in DOMAIN queue' : i + 0 = i
    BY DEF IInv, TypeOK
  <2> QED BY <2>1, OrderKept DEF RefInv
<1>2. NewUnbound'
  BY DEF RefInv, NewUnbound
<1>3. UNCHANGED <<FateMap, ToldMap, BoundMap, epoch, Holder>>
  BY FateKept, ToldKept DEF Holder
<1> QED BY <1>1, <1>2, <1>3 DEF RefInv, Access!Next, Access!Elsewhere, Access!accessVars

\* The order of frames when a step changes neither queue nor fates nor frame numbers.
LEMMA OrderUntouched ==
  ASSUME IInv, IInv', FramesInOrder, UNCHANGED <<queue, outcome>>, hand' = hand \/ hand' = None,
         \A k \in Calls : call'[k].frame = call[k].frame
  PROVE  FramesInOrder'
<1>1. \A i \in DOMAIN queue' : i + 0 = i
  BY DEF IInv, TypeOK
<1> QED BY <1>1, OrderKept

\* A call returns, with an answer the device agrees with.
LEMMA SimTell ==
  ASSUME IInv, IInv', RefInv, NEW k \in Calls, NEW r \in Results \ {"none"},
         call[k].pc # "done", call'[k].pc = "done", call'[k].result = r,
         call'[k].epoch = call[k].epoch, call'[k].frame = call[k].frame,
         \A j \in Calls : j # k => call'[j] = call[j],
         UNCHANGED <<queue, outcome, hand, epoch, connected, ownerPc>>,
         k \in Apis /\ r = "ok" => outcome[k][1] = "written",
         k \in Apis /\ r \in {"denied", "not_queued", "not_attempted"} =>
           outcome[k][1] \in {"none", "not_written"}
  PROVE  RefInv' /\ Access!Next
<1> DEFINE a == Meaning(k, r)
<1>1. FramesInOrder' /\ NewUnbound' /\ PortInv'
  BY OrderUntouched DEF RefInv, NewUnbound, PortInv
<1>2. FateMap' = FateMap /\ BoundMap' = BoundMap /\ Holder' = Holder
  BY FateKept DEF BoundMap, Holder
<1>3. ToldMap[k] = "nothing" /\ ToldMap' = [ToldMap EXCEPT ![k] = a]
  BY DEF ToldMap, Told
<1>4. a \in Access!Answers
  BY DEF Meaning, Access!Answers
<1>5. k \in Apis => FateMap[k][1] = Fate(k, 1)
  BY FateIs, Numbers
<1>6. k \in Apis /\ a = "written" => FateMap[k][1] = "written"
  BY FateIs, Numbers DEF Meaning
<1>7. k \in Apis /\ a = "refused" => FateMap[k][1] \in {"none", "refused"}
  BY FateIs, Numbers DEF Meaning
<1>8. Access!Tell(k, a)
  BY <1>2, <1>3, <1>6, <1>7 DEF Access!Tell
<1> QED BY <1>1, <1>4, <1>8 DEF RefInv, Access!Next

\* A call passes the first gate: it is tied to the connection of the moment.
LEMMA SimAdmit ==
  ASSUME IInv, IInv', RefInv, NEW k \in Calls, connected,
         call[k].pc = "new", call'[k].pc = "reserve", call'[k].epoch = epoch, call'[k].frame = 1,
         \A j \in Calls : j # k => call'[j] = call[j],
         UNCHANGED <<queue, outcome, hand, epoch, connected, ownerPc>>
  PROVE  RefInv' /\ Access!Next
<1>0. call[k].frame = 1 /\ \A f \in Frames : outcome[k][f] = "none"
  BY DEF IInv, CallInv, Unsent, Frames
<1>1. FramesInOrder' /\ NewUnbound' /\ PortInv'
  BY <1>0, OrderUntouched DEF RefInv, NewUnbound, PortInv
<1>2. FateMap' = FateMap /\ ToldMap' = ToldMap /\ Holder' = Holder /\ Holder = "hub"
  BY FateKept DEF ToldMap, Told, Holder
<1>3. BoundMap' = [BoundMap EXCEPT ![k] = epoch]
  BY DEF BoundMap
<1>4. ToldMap[k] = "nothing" /\ \A f \in Frames : FateMap[k][f] = "none"
  BY <1>0, FateIs DEF ToldMap, Told
<1>5. Access!Admit(k)
  BY <1>2, <1>3, <1>4, OrderIsFrames DEF Access!Admit
<1> QED BY <1>1, <1>5 DEF RefInv, Access!Next

\* A frame that is sent goes behind the earlier frames of its call.
LEMMA OrderOfSend ==
  ASSUME IInv, FramesInOrder, NEW k \in Calls, Send(k), hand' = hand
  PROVE  FramesInOrder'
<1> DEFINE f == call[k].frame
           last == Len(queue) + 1
<1>1. f \in Frames /\ Frames \subseteq Nat /\ outcome[k][f] = "none" /\ outcome'[k][f] = "queued"
  BY SendFrame, OrderIsFrames
<1>2. \A j \in Calls, g \in Frames : <<j, g>> # <<k, f>> => outcome'[j][g] = outcome[j][g]
  BY SendFrame
<1>3. /\ call'[k].frame = f \/ call'[k].frame = f + 1
      /\ \A j \in Calls : j # k => call'[j] = call[j]
  BY SendCall
<1>4. /\ queue'[last].call = k /\ queue'[last].frame = f
      /\ \A i \in DOMAIN queue : queue'[i] = queue[i]
  <2>1. queue'[last] = [call |-> k, frame |-> f, left |-> call[k].left]
    BY SendQueue
  <2>2. \A i \in DOMAIN queue : queue'[i] = queue[i]
    BY SendQueue
  <2> HIDE DEF f, last
  <2> QED BY <2>1, <2>2
<1>5. /\ \A i \in DOMAIN queue : i < last
      /\ \A i \in DOMAIN queue' : i \in DOMAIN queue \/ i = last
      /\ \A i \in DOMAIN queue' : i \in Nat
  <2>1. /\ DOMAIN queue = 1..Len(queue) /\ Len(queue) \in Nat
        /\ DOMAIN queue' = 1..Len(queue) + 1
    BY SendQueue
  <2> QED BY <2>1
<1>6. \A i \in DOMAIN queue : /\ queue[i].call \in Calls /\ queue[i].frame \in Frames
                              /\ outcome[queue[i].call][queue[i].frame] = "queued"
  <2>1. \A i \in DOMAIN queue : queue[i] \in Write
    BY DEF IInv, TypeOK
  <2> QED BY <2>1 DEF IInv, NoWriteLost, Queued, Write
<1>7. \A g \in Frames : (g < f => outcome[k][g] # "none") /\ (g > f => outcome[k][g] = "none")
  BY DEF FramesInOrder
<1>8. \A g \in Frames : outcome[k][g] = "queued" => g < f
  <2> HIDE DEF f
  <2>1. \A g \in Frames : g < f \/ g = f \/ g > f
    BY <1>1
  <2>2. ASSUME NEW g \in Frames, outcome[k][g] = "queued" PROVE g # f /\ ~(g > f)
    BY <1>1, <1>7, <2>2
  <2> QED BY <2>1, <2>2
<1>9. \A j \in Calls, g \in Frames : /\ g < call'[j].frame => outcome'[j][g] # "none"
                                     /\ g > call'[j].frame => outcome'[j][g] = "none"
  <2>1. \A g \in Frames : /\ g < call'[k].frame => outcome'[k][g] # "none"
                          /\ g > call'[k].frame => outcome'[k][g] = "none"
    <3> HIDE DEF f
    <3>1. \A g \in Frames : g \in Nat
      BY <1>1
    <3>2. f \in Nat /\ \A g \in Frames : g # f => outcome'[k][g] = outcome[k][g]
      BY <1>1, <1>2
    <3>3. CASE call'[k].frame = f
      BY <1>1, <1>7, <3>1, <3>2, <3>3
    <3>4. CASE call'[k].frame = f + 1
      BY <1>1, <1>7, <3>1, <3>2, <3>4
    <3> QED BY <1>3, <3>3, <3>4
  <2>2. \A j \in Calls : j # k =>
          \A g \in Frames : /\ g < call'[j].frame => outcome'[j][g] # "none"
                            /\ g > call'[j].frame => outcome'[j][g] = "none"
    BY <1>2, <1>3 DEF FramesInOrder
  <2> QED BY <2>1, <2>2
<1> HIDE DEF f, last
<1>10. ASSUME NEW i \in DOMAIN queue', NEW j \in DOMAIN queue', i < j, queue'[i].call = queue'[j].call
       PROVE  queue'[i].frame < queue'[j].frame
  <2>1. i \in DOMAIN queue
    BY <1>5, <1>10
  <2>2. CASE j \in DOMAIN queue
    BY <1>4, <1>10, <2>1, <2>2 DEF FramesInOrder
  <2>3. CASE j = last
    BY <1>4, <1>6, <1>8, <1>10, <2>1, <2>3
  <2> QED BY <1>5, <2>2, <2>3
<1>11. ASSUME NEW i \in DOMAIN queue', hand # None, queue'[i].call = hand.call
       PROVE  hand.frame < queue'[i].frame
  <2>1. CASE i \in DOMAIN queue
    BY <1>4, <1>11, <2>1 DEF FramesInOrder
  <2>2. CASE i = last
    BY <1>4, <1>8, <1>11, <2>2, HandIsQueued
  <2> QED BY <1>5, <2>1, <2>2
<1> QED BY <1>9, <1>10, <1>11 DEF FramesInOrder

\* A frame enters the queue.
LEMMA SimSend ==
  ASSUME IInv, RefInv, NEW k \in Calls, Send(k), UNCHANGED ownerVars
  PROVE  RefInv' /\ Access!Next
<1> DEFINE f == call[k].frame
<1>0. /\ call \in [Calls -> CallRecord] /\ UNCHANGED <<epoch, connected, ownerPc, hand>>
      /\ FramesInOrder
  BY DEF Send, IInv, TypeOK, writeRest, ownerVars, RefInv
<1>1. /\ f \in Frames /\ call[k].pc = "send"
      /\ outcome[k][f] = "none" /\ outcome'[k][f] = "queued"
      /\ \A j \in Calls, g \in Frames : <<j, g>> # <<k, f>> => outcome'[j][g] = outcome[j][g]
  BY SendFrame
<1>2. /\ call'[k].pc # "new" /\ call'[k].epoch = call[k].epoch
      /\ \A j \in Calls : j # k => call'[j] = call[j]
      /\ \/ call'[k].pc # "done"
         \/ k \notin Apis /\ call'[k].pc = "done" /\ call'[k].result = "ok"
  BY SendCall, Constants
<1>3. FramesInOrder'
  BY <1>0, OrderOfSend
<1>4. NewUnbound' /\ PortInv'
  BY <1>0, <1>2 DEF RefInv, NewUnbound, PortInv
<1>5. \A g \in Frames : /\ g < f => FateMap[k][g] # "none"
                        /\ g > f => FateMap[k][g] = "none"
  BY <1>0, FateIs DEF FramesInOrder
<1>6. FateMap[k][f] = "none" /\ ToldMap[k] = "nothing"
  BY <1>1, FateIs DEF ToldMap, Told
<1>7. FateMap' = [FateMap EXCEPT ![k][f] = "accepted"]
  <2>1. ~InHand(k, f)
    BY <1>1 DEF IInv, NoWriteLost
  <2>2. \A j \in Calls, g \in Frames : InHand(j, g)' <=> InHand(j, g)
    BY <1>0 DEF InHand
  <2> HIDE DEF f
  <2>3. FateMap'[k][f] = "accepted"
    BY <1>1, <2>1, <2>2, FateNext
  <2>4. \A j \in Calls, g \in Frames : <<j, g>> # <<k, f>> => FateMap'[j][g] = FateMap[j][g]
    BY <1>1, <2>2, FateSame
  <2>5. FateMap' = [j \in Calls |-> [g \in Frames |-> FateMap'[j][g]]]
    BY FateNext
  <2>6. FateMap = [j \in Calls |-> [g \in Frames |-> FateMap[j][g]]]
    BY DEF FateMap
  <2> QED BY <1>1, <2>3, <2>4, <2>5, <2>6
<1>8. BoundMap' = BoundMap /\ Holder' = Holder
  BY <1>0, <1>2 DEF BoundMap, Holder
<1>9. ToldMap' \in {ToldMap, [ToldMap EXCEPT ![k] = "taken"]}
  <2>1. CASE call'[k].pc # "done"
    <3>1. ToldMap' = ToldMap
      BY <1>1, <1>2, <2>1 DEF ToldMap, Told
    <3> QED BY <3>1
  <2>2. CASE k \notin Apis /\ call'[k].pc = "done" /\ call'[k].result = "ok"
    <3>1. ToldMap' = [ToldMap EXCEPT ![k] = "taken"]
      BY <1>2, <2>2 DEF ToldMap, Told, Meaning
    <3> QED BY <3>1
  <2> QED BY <1>2, <2>1, <2>2
<1>10. Access!Accept(k, f)
  BY <1>0, <1>1, <1>5, <1>6, <1>7, <1>8, <1>9, OrderIsFrames DEF Access!Accept
<1> QED BY <1>1, <1>3, <1>4, <1>10, OrderIsFrames DEF RefInv, Access!Next

\* Frames that wait in the queue are given up.
LEMMA SimRefuse ==
  ASSUME IInv, PortInv', FramesInOrder', RefInv,
         UNCHANGED <<call, hand, epoch, connected>>,
         ownerPc # "handoff", ownerPc' # "handoff",
         \A k \in Calls, f \in Frames :
           \/ outcome'[k][f] = outcome[k][f]
           \/ outcome[k][f] = "queued" /\ ~InHand(k, f) /\ outcome'[k][f] = "not_written"
  PROVE  RefInv' /\ Access!Next
<1> DEFINE S == {x \in Calls \X Frames :
                   outcome[x[1]][x[2]] = "queued" /\ outcome'[x[1]][x[2]] = "not_written"}
<1>1. \A k \in Calls, f \in Frames :
        <<k, f>> \in S <=> outcome[k][f] = "queued" /\ outcome'[k][f] = "not_written"
  OBVIOUS
<1>2. \A x \in S : x \in Calls \X Frames /\ x = <<x[1], x[2]>>
  OBVIOUS
<1> HIDE DEF S
<1>3. \A k \in Calls, f \in Frames : InHand(k, f)' <=> InHand(k, f)
  BY DEF InHand
<1>4. \A k \in Calls, f \in Frames :
        /\ <<k, f>> \in S => FateMap[k][f] = "accepted" /\ FateMap'[k][f] = "refused"
        /\ <<k, f>> \notin S => FateMap'[k][f] = FateMap[k][f]
  <2> SUFFICES ASSUME NEW k \in Calls, NEW f \in Frames
      PROVE  /\ <<k, f>> \in S => FateMap[k][f] = "accepted" /\ FateMap'[k][f] = "refused"
             /\ <<k, f>> \notin S => FateMap'[k][f] = FateMap[k][f]
    OBVIOUS
  <2>1. CASE outcome'[k][f] = outcome[k][f]
    BY <1>1, <1>3, <2>1, FateSame
  <2>2. CASE outcome[k][f] = "queued" /\ ~InHand(k, f) /\ outcome'[k][f] = "not_written"
    BY <1>1, <2>2, FateIs, FateNext
  <2> QED BY <2>1, <2>2
<1>5. S \in SUBSET {x \in Calls \X Frames : FateMap[x[1]][x[2]] = "accepted"}
  <2>1. \A x \in S : FateMap[x[1]][x[2]] = "accepted"
    BY <1>2, <1>4
  <2> QED BY <1>2, <2>1
<1>6. FateMap' = [k \in Calls |-> [f \in Frames |->
                    IF <<k, f>> \in S THEN "refused" ELSE FateMap[k][f]]]
  <2>1. FateMap' = [k \in Calls |-> [f \in Frames |-> FateMap'[k][f]]]
    BY FateNext
  <2> QED BY <1>4, <2>1
<1>7. UNCHANGED <<ToldMap, BoundMap, epoch, Holder>>
  BY ToldKept DEF Holder
<1>8. Access!Refuse
  BY <1>5, <1>6, <1>7, OrderIsFrames DEF Access!Refuse
<1>9. NewUnbound'
  BY DEF RefInv, NewUnbound
<1> QED BY <1>8, <1>9 DEF RefInv, Access!Next

\* The order of frames when the first write leaves the queue, or all of them do.
LEMMA OrderOfTake ==
  ASSUME IInv, IInv', FramesInOrder, queue # << >>, queue' = Tail(queue),
         \A k \in Calls : call'[k].frame = call[k].frame,
         \A k \in Calls, f \in Frames : outcome'[k][f] = "none" <=> outcome[k][f] = "none",
         \/ hand' = None
         \/ hand'.call = Head(queue).call /\ hand'.frame = Head(queue).frame
  PROVE  FramesInOrder'
<1>1. /\ Len(queue) \in Nat \ {0} /\ DOMAIN queue = 1..Len(queue) /\ Head(queue) = queue[1]
      /\ DOMAIN queue' = 1..Len(queue) - 1
      /\ \A i \in 1..Len(queue) - 1 : queue'[i] = queue[i + 1]
  BY TailEffect DEF IInv, TypeOK
<1>2. 1 \in DOMAIN queue /\ \A i \in DOMAIN queue' : i + 1 \in DOMAIN queue /\ queue'[i] = queue[i + 1]
  BY <1>1
<1> QED BY <1>1, <1>2, OrderKept

\* An empty queue is in order.
LEMMA OrderOfDrop ==
  ASSUME IInv, IInv', FramesInOrder, queue' = << >>, hand' = None,
         \A k \in Calls : call'[k].frame = call[k].frame,
         \A k \in Calls, f \in Frames : outcome'[k][f] = "none" <=> outcome[k][f] = "none"
  PROVE  FramesInOrder'
<1>1. DOMAIN queue' = {}
  OBVIOUS
<1> QED BY <1>1, OrderKept

\* The whole queue is refused, at the top of the connection loop or for a handoff.
LEMMA SimDrop ==
  ASSUME IInv, IInv', RefInv, DropPendingWrites, UNCHANGED <<rest, hand, epoch, connected>>,
         \/ ownerPc = "top" /\ ownerPc' = "opening"
         \/ ownerPc = "io" /\ ownerPc' = "releasing"
  PROVE  RefInv' /\ Access!Next
<1>0. hand = None /\ hand' = None /\ call' = call
  BY DEF IInv, OwnerInv, rest
<1>1. \A k \in Calls, f \in Frames :
        \/ outcome'[k][f] = outcome[k][f]
        \/ outcome[k][f] = "queued" /\ ~InHand(k, f) /\ outcome'[k][f] = "not_written"
  BY <1>0 DEF DropPendingWrites, NotWritten, InHand, IInv, NoWriteLost, Queued
<1>2. FramesInOrder'
  <2>1. \A k \in Calls, f \in Frames : outcome'[k][f] = "none" <=> outcome[k][f] = "none"
    BY <1>1
  <2> QED BY <1>0, <2>1, OrderOfDrop DEF DropPendingWrites, RefInv
<1>3. PortInv'
  BY DEF RefInv, PortInv
<1> QED BY <1>0, <1>1, <1>2, <1>3, SimRefuse

\* One write is refused, by validation, by the stop flag or by the shutdown drain.
LEMMA SimRefuseOne ==
  ASSUME IInv, IInv', RefInv, PortInv', queue # << >>, queue' = Tail(queue), hand = None,
         UNCHANGED <<rest, hand, epoch, connected>>,
         ownerPc # "handoff", ownerPc' # "handoff",
         \A k \in Calls, f \in Frames :
           outcome'[k][f] = IF Head(queue).call = k /\ Head(queue).frame = f
                              THEN "not_written" ELSE outcome[k][f]
  PROVE  RefInv' /\ Access!Next
<1>0. /\ Head(queue).call \in Calls /\ Head(queue).frame \in Frames
      /\ outcome[Head(queue).call][Head(queue).frame] = "queued"
  BY TakeEffect
<1>1. \A k \in Calls, f \in Frames :
        \/ outcome'[k][f] = outcome[k][f]
        \/ outcome[k][f] = "queued" /\ ~InHand(k, f) /\ outcome'[k][f] = "not_written"
  BY <1>0 DEF InHand
<1>2. FramesInOrder'
  <2>1. \A k \in Calls, f \in Frames : outcome'[k][f] = "none" <=> outcome[k][f] = "none"
    BY <1>1
  <2> QED BY <2>1, OrderOfTake DEF RefInv, rest
<1> QED BY <1>1, <1>2, SimRefuse DEF rest

\* The owner hands a write to the device: it is the first unresolved frame of its
\* call, of this connection, and an HTTP caller is still waiting for it.
LEMMA SimStart ==
  ASSUME IInv, IInv', RefInv, TakeWrite, outcome' = outcome, hand' # None
  PROVE  RefInv' /\ Access!Next
<1> DEFINE w == Head(queue)
<1>0. /\ ownerPc = "io" /\ hand = None /\ connected /\ queue # << >> /\ queue' = Tail(queue)
      /\ UNCHANGED <<rest, connected, epoch>>
  BY DEF TakeWrite, RefInv, PortInv, IInv, OwnerInv
<1>1. /\ ValidateDeviceWrite(w.call, w.left) /\ ownerPc' = "writing"
      /\ hand' = [call |-> w.call, frame |-> w.frame, seen |-> leases]
  BY <1>0 DEF TakeWrite
<1>2. /\ w.call \in Calls /\ w.frame \in Frames /\ outcome[w.call][w.frame] = "queued"
      /\ ~InHand(w.call, w.frame)
  BY <1>0, TakeEffect
<1>3. hand'.call = w.call /\ hand'.frame = w.frame
  BY <1>1
<1>4. FramesInOrder' /\ NewUnbound' /\ PortInv'
  BY <1>0, <1>1, <1>3, OrderOfTake DEF RefInv, NewUnbound, PortInv, rest
<1>5. call[w.call].epoch = epoch /\ client[call[w.call].client] = "live"
  BY <1>1 DEF ValidateDeviceWrite, CanWrite
<1>6. ASSUME NEW g \in Frames, g < w.frame
      PROVE  outcome[w.call][g] \in {"written", "failed", "not_written"}
  <2>1. outcome[w.call][g] # "none"
    <3>1. ~(w.frame > call[w.call].frame)
      BY <1>2 DEF RefInv, FramesInOrder
    <3>2. g < call[w.call].frame
      <4>1. call[w.call].frame \in Frames
        BY <1>2 DEF IInv, TypeOK, CallRecord
      <4>2. \A h \in Frames : h \in Nat
        BY OrderIsFrames
      <4> HIDE DEF w
      <4> QED BY <1>2, <1>6, <3>1, <4>1, <4>2
    <3> QED BY <1>2, <3>2 DEF RefInv, FramesInOrder
  <2>2. outcome[w.call][g] # "queued"
    <3>1. SUFFICES ASSUME NEW i \in DOMAIN queue, Queued(i, w.call, g) PROVE FALSE
      BY <1>0, <1>2 DEF IInv, NoWriteLost, InHand
    <3>2. Len(queue) \in Nat \ {0} /\ DOMAIN queue = 1..Len(queue) /\ w = queue[1]
      BY <1>0, TailEffect DEF IInv, TypeOK
    <3>3. i # 1 /\ 1 \in DOMAIN queue /\ 1 < i
      BY <1>2, <1>6, <3>1, <3>2, OrderIsFrames DEF Queued
    <3>4. w.frame < g
      BY <3>1, <3>2, <3>3 DEF Queued, RefInv, FramesInOrder
    <3> QED BY <1>2, <1>6, <3>4, OrderIsFrames
  <2>3. outcome[w.call][g] \in Fates
    BY <1>2 DEF IInv, TypeOK
  <2> QED BY <2>1, <2>2, <2>3 DEF Fates
<1>7. w.call \in Apis => call[w.call].pc # "done"
  BY <1>5 DEF IInv, ApiInv
<1> HIDE DEF w
<1>8. /\ FateMap[w.call][w.frame] = "accepted"
      /\ \A g \in Frames : g < w.frame => FateMap[w.call][g] \in {"written", "failed", "refused"}
  BY <1>2, <1>6, FateIs
<1>9. FateMap' = [FateMap EXCEPT ![w.call][w.frame] = "started"]
  <2>1. \A k \in Calls, f \in Frames : InHand(k, f)' <=> k = w.call /\ f = w.frame
    BY <1>3 DEF InHand
  <2>2. \A k \in Calls, f \in Frames : ~InHand(k, f)
    BY <1>0 DEF InHand
  <2>3. FateMap'[w.call][w.frame] = "started"
    BY <1>2, <2>1, FateNext
  <2>4. \A k \in Calls, f \in Frames :
          <<k, f>> # <<w.call, w.frame>> => FateMap'[k][f] = FateMap[k][f]
    BY <2>1, <2>2, FateSame
  <2>5. FateMap' = [k \in Calls |-> [f \in Frames |-> FateMap'[k][f]]]
    BY FateNext
  <2>6. FateMap = [k \in Calls |-> [f \in Frames |-> FateMap[k][f]]]
    BY DEF FateMap
  <2> QED BY <1>2, <2>3, <2>4, <2>5, <2>6
<1>10. UNCHANGED <<ToldMap, BoundMap, epoch, Holder>> /\ Holder = "hub"
  BY <1>0, ToldKept DEF Holder, rest
<1>11. /\ BoundMap[w.call] = epoch /\ Access!WireIdle
       /\ w.call \in Apis => ToldMap[w.call] = "nothing"
  BY <1>0, <1>2, <1>5, <1>7, EmptyHandIdle DEF BoundMap, ToldMap, Told
<1>12. Access!Start(w.call, w.frame)
  BY <1>8, <1>9, <1>10, <1>11, OrderIsFrames DEF Access!Start
<1> QED BY <1>2, <1>4, <1>12, OrderIsFrames DEF RefInv, Access!Next

\* The device takes the frame, or does not.
LEMMA SimResolve ==
  ASSUME IInv, IInv', RefInv, NEW r \in {"written", "failed"}, NEW pc \in {"io", "lost"},
         HostWriteReturns(r, pc)
  PROVE  RefInv' /\ Access!Next
<1> DEFINE k == hand.call
           f == hand.frame
<1>0. /\ hand # None /\ hand' = None /\ ownerPc = "writing" /\ ownerPc' = pc
      /\ UNCHANGED <<rest, queue, epoch, connected>>
      /\ outcome' = [outcome EXCEPT ![k][f] = r]
  BY DEF HostWriteReturns, IInv, OwnerInv
<1>1. k \in Calls /\ f \in Frames /\ outcome[k][f] = "queued" /\ InHand(k, f)
  BY <1>0, HandIsQueued DEF InHand
<1>2. /\ outcome'[k][f] = r
      /\ \A j \in Calls, g \in Frames : <<j, g>> # <<k, f>> => outcome'[j][g] = outcome[j][g]
  BY <1>0, <1>1 DEF IInv, TypeOK
<1>3. \A j \in Calls, g \in Frames : ~InHand(j, g)' /\ (<<j, g>> # <<k, f>> => ~InHand(j, g))
  BY <1>0 DEF InHand
<1> HIDE DEF k, f
<1>4. FramesInOrder' /\ NewUnbound' /\ PortInv'
  <2>1. \A j \in Calls, g \in Frames : outcome'[j][g] = "none" <=> outcome[j][g] = "none"
    BY <1>1, <1>2
  <2>2. \A i \in DOMAIN queue' : i + 0 = i
    BY DEF IInv, TypeOK
  <2>3. FramesInOrder'
    BY <1>0, <2>1, <2>2, OrderKept DEF RefInv, rest
  <2> QED BY <1>0, <2>3 DEF RefInv, NewUnbound, PortInv, rest
<1>5. FateMap[k][f] = "started"
  BY <1>1, FateIs
<1>6. FateMap' = [FateMap EXCEPT ![k][f] = r]
  <2>1. FateMap'[k][f] = r
    BY <1>1, <1>2, FateNext
  <2>2. \A j \in Calls, g \in Frames : <<j, g>> # <<k, f>> => FateMap'[j][g] = FateMap[j][g]
    BY <1>2, <1>3, FateSame
  <2>3. FateMap' = [j \in Calls |-> [g \in Frames |-> FateMap'[j][g]]]
    BY FateNext
  <2>4. FateMap = [j \in Calls |-> [g \in Frames |-> FateMap[j][g]]]
    BY DEF FateMap
  <2> QED BY <1>1, <2>1, <2>2, <2>3, <2>4
<1>7. UNCHANGED <<ToldMap, BoundMap, epoch, Holder>>
  BY <1>0, ToldKept DEF Holder, rest
<1>8. Access!Resolve(k, f)
  BY <1>5, <1>6, <1>7 DEF Access!Resolve
<1> QED BY <1>1, <1>4, <1>8, OrderIsFrames DEF RefInv, Access!Next

\* The port is opened, given up, lent to a tool or got back.
LEMMA SimPort ==
  ASSUME IInv, IInv', RefInv, PortInv', UNCHANGED <<rest, queue, outcome, hand>>, hand = None,
         \/ Holder = "nobody" /\ Holder' = "hub" /\ epoch' = epoch + 1
         \/ Holder = "hub" /\ Holder' \in {"nobody", "tool"} /\ epoch' = epoch
         \/ Holder = "tool" /\ Holder' = "nobody" /\ epoch' = epoch
  PROVE  RefInv' /\ Access!Next
<1>1. FramesInOrder' /\ NewUnbound'
  BY OrderUntouched DEF RefInv, NewUnbound, rest
<1>2. UNCHANGED <<FateMap, ToldMap, BoundMap>>
  BY FateKept, ToldKept DEF rest
<1>3. Access!Connect \/ Access!Disconnect \/ Access!Lend \/ Access!Return
  BY <1>2, EmptyHandIdle DEF Access!Connect, Access!Disconnect, Access!Lend, Access!Return
<1> QED BY <1>1, <1>3 DEF RefInv, Access!Next

-----------------------------------------------------------------------------
(* Every step of SerialHub                                                 *)

\* A returning call, by the step that ends it.
LEMMA SimFinish ==
  ASSUME IInv, IInv', RefInv, NEW k \in Calls, NEW r \in Results \ {"none"}, Finish(k, r),
         call[k].pc # "done",
         UNCHANGED <<writeRest, queue, outcome, ownerVars>>,
         k \in Apis /\ r = "ok" => outcome[k][1] = "written",
         k \in Apis /\ r \in {"denied", "not_queued", "not_attempted"} =>
           outcome[k][1] \in {"none", "not_written"}
  PROVE  RefInv' /\ Access!Next
<1>1. /\ call'[k].pc = "done" /\ call'[k].result = r /\ call'[k].epoch = call[k].epoch
      /\ call'[k].frame = call[k].frame /\ \A j \in Calls : j # k => call'[j] = call[j]
  BY FinishEffect DEF IInv
<1>2. UNCHANGED <<queue, outcome, hand, epoch, connected, ownerPc>>
  BY DEF writeRest, ownerVars
<1> QED BY <1>1, <1>2, SimTell

\* An HTTP write that has not sent its frame has no byte on the wire.
LEMMA UnsentApi ==
  ASSUME IInv, NEW k \in Apis, Unsent(k)
  PROVE  outcome[k][1] = "none"
<1>1. k \in Calls /\ call[k].frame = 1 /\ 1 \in 1..MaxFrames
  BY Constants DEF Calls, IInv, ApiInv
<1> QED BY <1>1 DEF IInv, CallInv

\* A write call: made, moved on, sent or ended.
LEMMA SimCall ==
  ASSUME IInv, IInv', RefInv, NEW k \in Calls, CallStep(k) \/ (Cancel(k) /\ UNCHANGED ownerVars)
  PROVE  RefInv' /\ Access!Next
<1>0. /\ UNCHANGED ownerVars /\ TypeOK /\ call \in [Calls -> CallRecord]
      /\ "not_queued" \in Results \ {"none"} /\ "unknown" \in Results \ {"none"}
      /\ "cancelled" \in Results \ {"none"}
  BY Members DEF CallStep, IInv, TypeOK
<1>1. ASSUME NEW pc \in {"permit", "send"}, call[k].pc \in {"reserve", "permit"},
             call' = [call EXCEPT ![k].pc = pc],
             UNCHANGED <<writeRest, queue, outcome>>
      PROVE  RefInv' /\ Access!Next
  <2>1. /\ call'[k].pc = pc /\ call'[k].result = call[k].result /\ call'[k].epoch = call[k].epoch
        /\ call'[k].frame = call[k].frame /\ \A j \in Calls : j # k => call'[j] = call[j]
    BY <1>0, <1>1 DEF CallRecord
  <2>2. UNCHANGED <<queue, outcome, hand, epoch, connected, ownerPc>>
    BY <1>0, <1>1 DEF writeRest, ownerVars
  <2>3. FramesInOrder' /\ NewUnbound' /\ PortInv'
    BY <1>1, <2>1, <2>2, OrderUntouched DEF RefInv, NewUnbound, PortInv
  <2>4. UNCHANGED <<FateMap, ToldMap, BoundMap, epoch, Holder>>
    BY <1>1, <2>1, <2>2, FateKept DEF ToldMap, Told, BoundMap, Holder
  <2> QED BY <2>3, <2>4 DEF RefInv, Access!Next, Access!Elsewhere, Access!accessVars
<1>2. CASE Reserve(k)
  BY <1>1, <1>2 DEF Reserve
<1>3. CASE ReserveFails(k)
  <2>1. k \in Apis => outcome[k][1] = "none"
    BY <1>3, UnsentApi DEF ReserveFails, Unsent
  <2> QED BY <1>0, <1>3, <2>1, SimFinish DEF ReserveFails
<1>4. CASE Recheck(k)
  <2>1. k \in Apis => outcome[k][1] = "none"
    BY <1>4, UnsentApi DEF Recheck, Unsent
  <2>2. CASE ValidateDeviceWrite(k, call[k].left)
    BY <1>1, <1>4, <2>2 DEF Recheck
  <2>3. CASE ~ValidateDeviceWrite(k, call[k].left)
    BY <1>0, <1>4, <2>1, <2>3, SimFinish DEF Recheck
  <2> QED BY <2>2, <2>3
<1>5. CASE Send(k)
  BY <1>0, <1>5, SimSend
<1>6. CASE Answered(k)
  <2>1. k \in Apis /\ call[k].frame = 1
    BY <1>6 DEF IInv, Answered, Calls, StreamInv, ApiInv
  <2>1a. PICK r \in Answer(outcome[k][call[k].frame]) : Finish(k, r)
    BY <1>6 DEF Answered
  <2>2. /\ r \in {"ok", "unknown", "not_attempted"} /\ r \in Results \ {"none"}
        /\ r = "ok" => outcome[k][1] = "written"
        /\ r = "not_attempted" => outcome[k][1] = "not_written"
    BY <1>6, <2>1, <2>1a, Members DEF Answered, Answer
  <2>3. call[k].pc = "await" /\ Finish(k, r) /\ UNCHANGED <<writeRest, lock, queue, outcome>>
    BY <1>6, <2>1a DEF Answered
  <2> QED BY <1>0, <2>2, <2>3, SimFinish
<1>7. CASE AnswerTimesOut(k)
  BY <1>0, <1>7, SimFinish DEF AnswerTimesOut
<1>8. CASE Cancel(k)
  BY <1>0, <1>8, SimFinish DEF Cancel
<1> QED BY <1>2, <1>3, <1>4, <1>5, <1>6, <1>7, <1>8 DEF CallStep

\* A write call begins: it is admitted, refused, or has nothing to send yet.
LEMMA SimEntry ==
  ASSUME IInv, IInv', RefInv, UNCHANGED ownerVars,
         \/ \E k \in Streams, c \in Peers, t \in 0..leases, n \in 0..MaxFrames : StreamWrite(k, c, t, n)
         \/ \E k \in Apis, t \in 0..leases : ApiWrite(k, t)
  PROVE  RefInv' /\ Access!Next
<1>0. call \in [Calls -> CallRecord] /\ Apis \cap Streams = {} /\ "denied" \in Results \ {"none"}
      /\ "ok" \in Results \ {"none"}
  BY Constants, Members DEF IInv, TypeOK
<1>1. ASSUME NEW k \in Calls, NEW c, NEW t, NEW n, call[k].pc = "new", connected,
             call' = [call EXCEPT ![k] = Admitted(c, t, n)],
             UNCHANGED <<writeRest, queue, outcome>>
      PROVE  RefInv' /\ Access!Next
  <2>1. /\ call'[k].pc = "reserve" /\ call'[k].epoch = epoch /\ call'[k].frame = 1
        /\ \A j \in Calls : j # k => call'[j] = call[j]
    BY <1>0, <1>1 DEF Admitted
  <2> QED BY <1>1, <2>1, SimAdmit DEF writeRest, ownerVars
<1>2. ASSUME NEW k \in Calls, NEW c, NEW t, NEW r \in {"ok", "denied"}, call[k].pc = "new",
             call' = [call EXCEPT ![k] = Returns(c, t, r)], r = "ok" => k \notin Apis,
             UNCHANGED <<writeRest, queue, outcome>>
      PROVE  RefInv' /\ Access!Next
  <2>1. /\ call'[k].pc = "done" /\ call'[k].epoch = 0 /\ call'[k].frame = 1 /\ call'[k].result = r
        /\ \A j \in Calls : j # k => call'[j] = call[j]
    BY <1>0, <1>2 DEF Returns
  <2>2. call[k].epoch = 0 /\ call[k].frame = 1
    BY <1>2 DEF RefInv, NewUnbound, IInv, CallInv
  <2>3. k \in Apis => outcome[k][1] = "none"
    BY <1>2, UnsentApi DEF Unsent
  <2> QED BY <1>0, <1>2, <2>1, <2>2, <2>3, SimTell DEF writeRest, ownerVars
<1>3. ASSUME NEW k \in Streams, NEW c \in Peers, NEW t \in 0..leases, NEW n \in 0..MaxFrames,
             StreamWrite(k, c, t, n)
      PROVE  RefInv' /\ Access!Next
  <2>0. k \in Calls /\ k \notin Apis /\ call[k].pc = "new" /\ UNCHANGED <<writeRest, queue, outcome>>
    BY <1>0, <1>3 DEF StreamWrite, Calls
  <2>1. CASE ~Admissible(c, t)
    <3>1. call' = [call EXCEPT ![k] = Returns(c, t, "denied")]
      BY <1>3, <2>1 DEF StreamWrite
    <3> QED BY <1>2, <2>0, <3>1
  <2>2. CASE Admissible(c, t) /\ n = 0
    <3>1. call' = [call EXCEPT ![k] = Returns(c, t, "ok")]
      BY <1>3, <2>2 DEF StreamWrite
    <3> QED BY <1>2, <2>0, <3>1
  <2>3. CASE Admissible(c, t) /\ n # 0
    <3>1. call' = [call EXCEPT ![k] = Admitted(c, t, n)]
      <4>1. n > 0 /\ ~(n = 0)
        BY <2>3, Constants
      <4> QED BY <1>3, <2>3, <4>1 DEF StreamWrite
    <3>2. connected
      BY <2>3 DEF Admissible
    <3> QED BY <1>1, <2>0, <3>1, <3>2
  <2> QED BY <2>1, <2>2, <2>3
<1>4. ASSUME NEW k \in Apis, NEW t \in 0..leases, ApiWrite(k, t)
      PROVE  RefInv' /\ Access!Next
  <2>0. k \in Calls /\ call[k].pc = "new" /\ UNCHANGED <<writeRest, queue, outcome>>
    BY <1>4 DEF ApiWrite, Calls
  <2>1. \/ connected /\ call' = [call EXCEPT ![k] = Admitted(k, t, 1)]
        \/ call' = [call EXCEPT ![k] = Returns(k, t, "denied")]
    BY <1>4 DEF ApiWrite
  <2> QED BY <1>1, <1>2, <2>0, <2>1
<1> QED BY <1>3, <1>4

\* A step of a control request, a lease, a client or the clock is not the device's.
LEMMA SimAside ==
  ASSUME IInv, IInv', RefInv,
         UNCHANGED <<connected, epoch, outcome, hand, ownerPc>>,
         queue' = queue,
         \A k \in Calls : /\ call'[k].pc = call[k].pc /\ call'[k].result = call[k].result
                          /\ call'[k].epoch = call[k].epoch /\ call'[k].frame = call[k].frame
  PROVE  RefInv' /\ Access!Next
<1>1. PortInv'
  BY DEF RefInv, PortInv
<1> QED BY <1>1, SimElsewhere

\* Time passes.
LEMMA SimTick ==
  ASSUME IInv, IInv', RefInv, Tick
  PROVE  RefInv' /\ Access!Next
<1>0. call \in [Calls -> CallRecord] /\ queue \in Seq(Write)
  BY DEF IInv, TypeOK
<1>1. \A k \in Calls : /\ call'[k].pc = call[k].pc /\ call'[k].result = call[k].result
                       /\ call'[k].epoch = call[k].epoch /\ call'[k].frame = call[k].frame
  BY <1>0 DEF Tick, CallRecord
<1>2. /\ DOMAIN queue' = DOMAIN queue
      /\ \A i \in DOMAIN queue : queue'[i].call = queue[i].call /\ queue'[i].frame = queue[i].frame
  <2>1. \A i \in DOMAIN queue : queue[i] \in Write
    BY <1>0
  <2> QED BY <2>1 DEF Tick, Write
<1>3. UNCHANGED <<connected, epoch, outcome, hand, ownerPc>>
  BY DEF Tick
<1>4. PortInv'
  BY <1>3 DEF RefInv, PortInv
<1> QED BY <1>1, <1>2, <1>3, <1>4, SimElsewhere

\* The owner changes place and nothing of the device.
LEMMA SimPlace ==
  ASSUME IInv, IInv', RefInv, PortInv', UNCHANGED <<rest, queue, outcome, hand, connected, epoch>>,
         ownerPc = "handoff" <=> ownerPc' = "handoff"
  PROVE  RefInv' /\ Access!Next
  BY SimElsewhere DEF rest

\* Every step of the owner thread.
LEMMA SimOwner ==
  ASSUME IInv, IInv', RefInv, OwnerStep \/ ReadFails
  PROVE  RefInv' /\ Access!Next
<1> USE DEF rest
<1>0. PortInv /\ OwnerInv /\ epoch \in Nat
  BY DEF RefInv, IInv, TypeOK
<1>1. CASE LoopTop
  <2>1. CASE stop
    <3>1. PortInv'
      BY <1>0, <1>1, <2>1 DEF LoopTop, PortInv
    <3> QED BY <1>1, <2>1, <3>1, SimPlace DEF LoopTop
  <2>2. CASE ~stop
    BY <1>1, <2>2, SimDrop DEF LoopTop
  <2> QED BY <2>1, <2>2
<1>2. CASE OpenSucceeds
  <2>1. /\ ~connected /\ connected' /\ epoch' = epoch + 1 /\ ownerPc = "opening" /\ ownerPc' = "io"
        /\ hand = None
    BY <1>0, <1>2 DEF OpenSucceeds, SetPort, PortInv, OwnerInv
  <2>2. PortInv' /\ Holder = "nobody" /\ Holder' = "hub"
    BY <2>1 DEF PortInv, Holder
  <2> QED BY <1>2, <2>1, <2>2, SimPort DEF OpenSucceeds
<1>3. CASE OpenFails
  <2>1. /\ ~connected /\ ~connected' /\ epoch' = epoch /\ ownerPc = "opening"
        /\ ownerPc' \in {"top", "stopping"}
    BY <1>0, <1>3 DEF OpenFails, SetPort, PortInv
  <2>2. PortInv'
    BY <2>1 DEF PortInv
  <2>3. UNCHANGED <<rest, queue, outcome, hand, connected, epoch>>
    BY <1>3, <2>1 DEF OpenFails, SetPort, IInv, TypeOK
  <2> QED BY <2>1, <2>2, <2>3, SimPlace
<1>4. CASE LinkLost
  <2>1. /\ connected /\ ~connected' /\ epoch' = epoch /\ ownerPc = "lost"
        /\ ownerPc' \in {"top", "stopping"} /\ hand = None
    BY <1>0, <1>4 DEF LinkLost, SetPort, PortInv, OwnerInv
  <2>2. PortInv' /\ Holder = "hub" /\ Holder' = "nobody"
    BY <2>1 DEF PortInv, Holder
  <2> QED BY <1>4, <2>1, <2>2, SimPort DEF LinkLost
<1>5. CASE IoStop \/ ReadFails
  <2>1. PortInv'
    BY <1>0, <1>5 DEF IoStop, ReadFails, PortInv, brokerVars
  <2> QED BY <1>5, <2>1, SimPlace DEF IoStop, ReadFails, brokerVars
<1>6. CASE TakeControl
  <2>1. CASE DropPendingWrites /\ ownerPc' = "releasing"
    BY <1>6, <2>1, SimDrop DEF TakeControl
  <2>2. CASE UNCHANGED <<queue, outcome, ownerPc, serving>>
    BY <1>6, <2>2, SimAside DEF TakeControl
  <2> QED BY <1>6, <2>1, <2>2 DEF TakeControl
<1>7. CASE TakeWrite
  <2>0. ownerPc = "io" /\ hand = None /\ connected
    BY <1>0, <1>7 DEF TakeWrite, OwnerInv, PortInv
  <2>1. CASE outcome' = outcome /\ hand' # None
    BY <1>7, <2>1, SimStart
  <2>2. CASE /\ outcome' = [outcome EXCEPT ![Head(queue).call][Head(queue).frame] = "not_written"]
             /\ ownerPc' \in {"io", "stopping"} /\ UNCHANGED hand
    <3>1. queue # << >> /\ queue' = Tail(queue) /\ UNCHANGED <<rest, epoch, connected>>
      BY <1>7 DEF TakeWrite
    <3>2. Head(queue).call \in Calls /\ Head(queue).frame \in Frames
      BY <3>1, TakeEffect
    <3>3. \A k \in Calls, f \in Frames :
            outcome'[k][f] = IF Head(queue).call = k /\ Head(queue).frame = f
                               THEN "not_written" ELSE outcome[k][f]
      BY <2>2, <3>2 DEF IInv, TypeOK
    <3>4. PortInv'
      BY <2>0, <2>2, <3>1 DEF PortInv
    <3> QED BY <2>0, <2>2, <3>1, <3>3, <3>4, SimRefuseOne
  <2>3. ASSUME hand' = [call |-> Head(queue).call, frame |-> Head(queue).frame, seen |-> leases]
        PROVE  hand' # None
    <3>1. Head(queue).call \in Calls /\ Head(queue).frame \in Frames /\ leases \in Tokens
      <4>1. queue # << >> /\ queue' = Tail(queue)
        BY <1>7 DEF TakeWrite
      <4> QED BY <4>1, TakeEffect, Constants DEF IInv, TypeOK, Tokens, NoToken
    <3> QED BY <2>3, <3>1, NoneAssumption
  <2> QED BY <1>7, <2>1, <2>2, <2>3 DEF TakeWrite
<1>8. CASE HostWriteOk \/ HostWriteFails
  BY <1>8, SimResolve DEF HostWriteOk, HostWriteFails
<1>9. CASE ReleasePort
  <2>1. /\ connected /\ ~connected' /\ epoch' = epoch /\ ownerPc = "releasing"
        /\ ownerPc' = "handoff" /\ hand = None
    BY <1>0, <1>9 DEF ReleasePort, SetPort, PortInv, OwnerInv
  <2>2. PortInv' /\ Holder = "hub" /\ Holder' = "tool"
    BY <2>1 DEF PortInv, Holder
  <2> QED BY <1>9, <2>1, <2>2, SimPort DEF ReleasePort
<1>10. CASE HandoffControl \/ HandoffExpires \/ HandoffStop
  <2>1. /\ ~connected /\ hand = None /\ ownerPc = "handoff"
        /\ UNCHANGED <<rest, queue, outcome, hand, connected, epoch>>
    BY <1>0, <1>10 DEF HandoffControl, HandoffExpires, HandoffStop, OwnerInv, brokerVars
  <2>2. ownerPc' \in {"handoff", "top", "stopping"}
    BY <1>10 DEF HandoffControl, HandoffExpires, HandoffStop
  <2>3. PortInv' /\ Holder = "tool" /\ (ownerPc' # "handoff" => Holder' = "nobody")
    BY <2>1, <2>2 DEF PortInv, Holder
  <2>4. CASE ownerPc' = "handoff"
    BY <2>1, <2>3, <2>4, SimPlace
  <2>5. CASE ownerPc' # "handoff"
    BY <2>1, <2>3, <2>5, SimPort
  <2> QED BY <2>4, <2>5
<1>11. CASE StopPort
  <2>1. /\ ~connected' /\ epoch' = epoch /\ ownerPc = "stopping" /\ ownerPc' = "draining"
        /\ hand = None
    BY <1>0, <1>11 DEF StopPort, SetPort, OwnerInv
  <2>2. PortInv' /\ Holder' = "nobody"
    BY <2>1 DEF PortInv, Holder
  <2>3. CASE connected
    <3>1. Holder = "hub"
      BY <2>3 DEF Holder
    <3> QED BY <1>11, <2>1, <2>2, <3>1, SimPort DEF StopPort
  <2>4. CASE ~connected
    BY <1>11, <2>1, <2>2, <2>4, SimPlace, <1>0 DEF StopPort, SetPort, IInv, TypeOK
  <2> QED BY <2>3, <2>4
<1>12. CASE DrainWrite
  <2>1. /\ ownerPc = "draining" /\ hand = None /\ queue # << >> /\ queue' = Tail(queue)
        /\ UNCHANGED <<rest, hand, epoch, connected, ownerPc>> /\ outcome' = NotWritten(<<Head(queue)>>)
    BY <1>0, <1>12 DEF DrainWrite, OwnerInv, ownerVars
  <2>2. PortInv'
    BY <1>0, <2>1 DEF PortInv
  <2>3. \A k \in Calls, f \in Frames :
          outcome'[k][f] = IF Head(queue).call = k /\ Head(queue).frame = f
                             THEN "not_written" ELSE outcome[k][f]
    BY <2>1 DEF NotWritten
  <2> QED BY <2>1, <2>2, <2>3, SimRefuseOne
<1>13. CASE Stopped
  <2>1. PortInv' /\ ownerPc = "draining" /\ ownerPc' = "stopped"
    BY <1>0, <1>13 DEF Stopped, Drained, PortInv
  <2> QED BY <1>13, <2>1, SimPlace DEF Stopped
<1> QED
  BY <1>1, <1>2, <1>3, <1>4, <1>5, <1>6, <1>7, <1>8, <1>9, <1>10, <1>11, <1>12, <1>13 DEF OwnerStep

\* Every step keeps the order of frames and is a step of DeviceAccess.
LEMMA SimNext ==
  ASSUME IInv, IInv', RefInv, [Next]_vars
  PROVE  RefInv' /\ Access!Next
<1> USE DEF ownerVars
<1>1. CASE UNCHANGED vars
  BY <1>1, SimAside DEF vars, brokerVars
<1>2. ASSUME NEW c \in Peers, Register(c) \/ Unregister(c), UNCHANGED ownerVars
      PROVE  RefInv' /\ Access!Next
  BY <1>2, SimAside DEF Register, Unregister
<1>3. ASSUME UNCHANGED ownerVars,
             AcquireLock \/ (\E t \in 1..leases : RenewLock(t) \/ ReleaseLock(t))
      PROVE  RefInv' /\ Access!Next
  BY <1>3, SimAside DEF AcquireLock, RenewLock, ReleaseLock, leaseRest
<1>4. ASSUME NEW o \in Ops, UNCHANGED ownerVars,
             SendControl(o) \/ OpFails(o) \/ OpCancel(o) \/ OpSucceeds(o)
               \/ (\E t \in 1..leases : BeginHandoff(o, t) \/ Command(o, t))
               \/ (\E h \in Ops : ResumeHandoff(o, h))
      PROVE  RefInv' /\ Access!Next
  <2>1. UNCHANGED opRest
    BY <1>4, OpType DEF IInv
  <2> QED BY <1>4, <2>1, SimAside DEF opRest
<1>5. CASE StopRequested
  BY <1>5, SimAside DEF StopRequested, brokerVars
<1>6. ASSUME NEW k \in Calls, CallStep(k) \/ (Cancel(k) /\ UNCHANGED ownerVars)
      PROVE  RefInv' /\ Access!Next
  BY <1>6, SimCall
<1>7. CASE OwnerStep \/ ReadFails
  BY <1>7, SimOwner
<1>8. ASSUME UNCHANGED ownerVars,
             \/ \E k \in Streams, c \in Peers, t \in 0..leases, n \in 0..MaxFrames :
                  StreamWrite(k, c, t, n)
             \/ \E k \in Apis, t \in 0..leases : ApiWrite(k, t)
      PROVE  RefInv' /\ Access!Next
  BY <1>8, SimEntry
<1> QED
  BY <1>1, <1>2, <1>3, <1>4, <1>5, <1>6, <1>7, <1>8, SimTick DEF Next, OpStep

\* Nothing is fated, told or held at first.
LEMMA SimInit == Init => RefInv /\ Access!Init
<1> SUFFICES ASSUME Init PROVE RefInv /\ Access!Init
  OBVIOUS
<1> USE DEF Init, BrokerInit, NewCall
<1>1. DOMAIN queue = {} /\ hand = None
  OBVIOUS
<1>2. RefInv
  BY <1>1, OrderIsFrames DEF RefInv, PortInv, FramesInOrder, NewUnbound
<1>3. FateMap = [k \in Calls |-> [f \in Frames |-> "none"]]
  BY DEF FateMap, Fate
<1>4. ToldMap = [k \in Calls |-> "nothing"] /\ BoundMap = [k \in Calls |-> 0] /\ Holder = "nobody"
  BY DEF ToldMap, Told, BoundMap, Holder
<1> QED BY <1>2, <1>3, <1>4, OrderIsFrames DEF Access!Init

-----------------------------------------------------------------------------
(* What the simulation gives                                               *)

\* Frames of a call keep their order, and the port is the hub's exactly while the
\* owner's place says so.
THEOREM OrderInvariance == Spec => []RefInv
<1>1. Init => RefInv
  BY SimInit
<1>2. IInv /\ IInv' /\ RefInv /\ [Next]_vars => RefInv'
  BY SimNext
<1> QED BY <1>1, <1>2, Invariance, PTL DEF Spec

\* The broker with its queue, slots, deadlines and leases, and the thread that owns
\* the port, implement the promise of DeviceAccess.
THEOREM Refinement == Spec => ImplementsDeviceAccess
<1>1. Init => Access!Init
  BY SimInit
<1>2. IInv /\ IInv' /\ RefInv /\ [Next]_vars => [Access!Next]_(Access!accessVars)
  BY SimNext
<1> QED BY <1>1, <1>2, Invariance, OrderInvariance, PTL DEF Spec, ImplementsDeviceAccess, Access!Spec

=============================================================================
