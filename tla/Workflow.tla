------------------------------- MODULE Workflow -------------------------------
(***************************************************************************)
(* The workflow runner over the live ledger: linear definitions of expect, *)
(* send and other steps, run once per request id, reading the canonical    *)
(* events from a bounded live subscription while the owner thread records  *)
(* what the device says and while the connection comes and goes.           *)
(*                                                                         *)
(* Deadlines, cancellation and refusals by the broker are choices: a step  *)
(* that may fail may fail.  Captures and limits are left out.              *)
(***************************************************************************)
EXTENDS EventLedger

CONSTANTS
  Runs,       \* calls of WorkflowRunner::run
  Keys,       \* request ids
  Byte,       \* what the device sends
  Workflows,  \* definitions: sequences of [op, pattern]
  Chunks,     \* what one read of the device may return: sequences of bytes
  None,
  MaxLinks    \* bound: connection epochs

ASSUME WorkflowAssumption == MaxLinks \in Nat /\ None \notin Runs

(* WorkflowDefinition::validate: there are steps, and something to expect. *)
ASSUME DefinitionAssumption ==
  /\ Chunks \subseteq Seq(Byte)
  /\ \A w \in Workflows :
       /\ w \in Seq([op : {"expect", "send", "assert", "wait", "lease", "control"}, pattern : Seq(Byte)])
       /\ w # <<>>
       /\ \A i \in DOMAIN w : w[i].op = "expect" => w[i].pattern # <<>>

VARIABLES
  link,       \* the port as the broker's state shows it: [connected, epoch]
  owner,      \* the owner thread: "idle", "lost" (its read failed) or "record"
  control,    \* the epoch a control-plane thread has read for its event, or None
  run,        \* each call
  active,     \* request ids being run
  completed   \* the run whose result a request id keeps, or None

broker == <<link, owner, control>>
runner == <<run, active, completed>>
workflowVars == <<log, oldest, persistence, stored, readable, closed, faults, link, owner, control, run, active, completed>>

Event(kind, epoch, data) == [kind |-> kind, epoch |-> epoch, data |-> data]

(* A run: where it is; request id and definition; the receiver's place and *)
(* the cursor (seq, epoch); the step, the cursor it started at, how much   *)
(* of its pattern is matched; the evidence of the finished steps; whose    *)
(* result it answered.                                                     *)
NewRun == [pc |-> "idle", key |-> None, steps |-> <<>>, next |-> 0, seq |-> 0, epoch |-> 0,
           step |-> 1, start |-> 0, matched |-> 0, evidence |-> <<>>, answer |-> None]

Init ==
  /\ LedgerInit
  /\ link = [connected |-> FALSE, epoch |-> 0] /\ owner = "idle" /\ control = None
  /\ run = [r \in Runs |-> NewRun]
  /\ active = {} /\ completed = [k \in Keys |-> None]

-----------------------------------------------------------------------------
(* The owner thread: a connection change is recorded after the broker's    *)
(* state has it.                                                           *)
Connects ==
  /\ owner = "idle" /\ ~link.connected /\ link.epoch < MaxLinks
  /\ link' = [connected |-> TRUE, epoch |-> link.epoch + 1] /\ owner' = "record"
  /\ UNCHANGED <<ledgerVars, control, runner>>

Disconnects ==
  /\ owner \in {"idle", "lost"} /\ link.connected
  /\ link' = [link EXCEPT !.connected = FALSE] /\ owner' = "record"
  /\ UNCHANGED <<ledgerVars, control, runner>>

RecordLink ==
  /\ owner = "record" /\ owner' = "idle"
  /\ AppendEvent(Event(IF link.connected THEN "up" ELSE "down", link.epoch, <<>>))
  /\ UNCHANGED <<link, control, runner>>

DeviceRx ==
  /\ owner = "idle" /\ link.connected
  /\ \E data \in Chunks : AppendEvent(Event("rx", link.epoch, data))
  /\ UNCHANGED <<broker, runner>>

ReadFails ==
  /\ owner = "idle" /\ link.connected /\ owner' = "lost"
  /\ AppendEvent(Event("rxgap", link.epoch, <<>>))
  /\ UNCHANGED <<link, control, runner>>

(* record_control: the epoch is read under the broker's lock, the event is *)
(* appended after it.                                                      *)
ReadEpoch ==
  /\ control = None /\ control' = link.epoch
  /\ UNCHANGED <<ledgerVars, link, owner, runner>>

RecordControl ==
  /\ control # None /\ control' = None
  /\ AppendEvent(Event("control", control, <<>>))
  /\ UNCHANGED <<link, owner, runner>>

-----------------------------------------------------------------------------
(* WorkflowRunner::run around run_inner. *)
Executing == {"claimed", "subscribed", "cursor", "step", "sending", "sent", "expect", "port", "succeeded", "failed"}

(* Once run_inner has returned, only the request id and the answer matter. *)
Over(x, pc) == [NewRun EXCEPT !.pc = pc, !.key = x.key]

CheckCompleted(r) ==
  /\ run[r].pc = "idle"
  /\ \E k \in Keys, w \in Workflows :
       run' = [run EXCEPT ![r] =
         IF completed[k] # None THEN [@ EXCEPT !.pc = "done", !.key = k, !.answer = completed[k]]
         ELSE [@ EXCEPT !.pc = "checked", !.key = k, !.steps = w]]
  /\ UNCHANGED <<ledgerVars, broker, active, completed>>

ClaimAnyway(r) ==  \* mutant: a duplicate is not turned away
  /\ run[r].pc = "checked"
  /\ active' = active \union {run[r].key} /\ run' = [run EXCEPT ![r].pc = "claimed"]
  /\ UNCHANGED <<ledgerVars, broker, completed>>

Claim(r) ==
  /\ run[r].pc = "checked"
  /\ IF run[r].key \in active
     THEN run' = [run EXCEPT ![r] = Over(@, "done")] /\ UNCHANGED active
     ELSE run' = [run EXCEPT ![r].pc = "claimed"] /\ active' = active \union {run[r].key}
  /\ UNCHANGED <<ledgerVars, broker, completed>>

Unclaim(r) ==
  /\ run[r].pc \in {"succeeded", "failed"}
  /\ active' = active \ {run[r].key}
  /\ run' = [run EXCEPT ![r] = Over(@, IF @.pc = "succeeded" THEN "publish" ELSE "done")]
  /\ UNCHANGED <<ledgerVars, broker, completed>>

Publish(r) ==
  /\ run[r].pc = "publish"
  /\ completed' = [completed EXCEPT ![run[r].key] = r]
  /\ run' = [run EXCEPT ![r].pc = "done", ![r].answer = r]
  /\ UNCHANGED <<ledgerVars, broker, active>>

(* The request's future is dropped at an await (the client went away, the  *)
(* hub shuts down): nothing of run() executes any more.                    *)
Abandon(r) ==
  /\ run[r].pc \in {"step", "sending", "sent", "expect"}
  /\ run' = [run EXCEPT ![r] = Over(@, "gone")]
  /\ UNCHANGED <<ledgerVars, broker, active, completed>>

-----------------------------------------------------------------------------
(* run_inner: subscription and high-water mark are one step, the epoch and *)
(* the port's state are read after it, one at a time.                      *)
Goto(r, pc) == run' = [run EXCEPT ![r].pc = pc] /\ UNCHANGED <<ledgerVars, broker, active, completed>>

SubscribePastNewest(r) ==  \* mutant: the cursor starts at next_seq instead of newest_seq
  /\ run[r].pc = "claimed"
  /\ run' = [run EXCEPT ![r].pc = "subscribed", ![r].next = Newest + 1,
                         ![r].seq = Newest + 1, ![r].start = Newest + 1]
  /\ UNCHANGED <<ledgerVars, broker, active, completed>>

Subscribe(r) ==
  /\ run[r].pc = "claimed"
  /\ run' = [run EXCEPT ![r].pc = "subscribed", ![r].next = Newest + 1,
                         ![r].seq = Newest, ![r].start = Newest]
  /\ UNCHANGED <<ledgerVars, broker, active, completed>>

ReadCursor(r) ==
  /\ run[r].pc = "subscribed"
  /\ run' = [run EXCEPT ![r].pc = "cursor", ![r].epoch = link.epoch]
  /\ UNCHANGED <<ledgerVars, broker, active, completed>>

CheckPort(r) ==
  /\ run[r].pc = "cursor"
  /\ Goto(r, IF link.epoch = run[r].epoch THEN "step" ELSE "failed")

Step(r) == run[r].steps[run[r].step]
Pattern(r) == Step(r).pattern

(* A step is over: its evidence, and the step after it. *)
Passed(x, seq) ==
  [x EXCEPT !.evidence = Append(@, [step |-> x.steps[x.step], start |-> x.start, end |-> seq]),
            !.seq = seq, !.start = seq, !.step = @ + 1, !.matched = 0,
            !.pc = IF x.step = Len(x.steps) THEN "succeeded" ELSE "step"]

Pass(r) == run' = [run EXCEPT ![r] = Passed(@, @.seq)] /\ UNCHANGED <<ledgerVars, broker, active, completed>>

BeginStep(r) ==
  /\ run[r].pc = "step"
  /\ \/ Step(r).op = "expect" /\ Goto(r, "expect")
     \/ Step(r).op = "send" /\ Goto(r, "sending")
     \/ Step(r).op = "assert" /\ link.connected /\ Pass(r)
     \/ Step(r).op \notin {"expect", "send", "assert"} /\ Pass(r)

(* The owner has written the bytes and recorded them; then the runner sees *)
(* the answer.                                                             *)
HostWrites(r) ==
  /\ run[r].pc = "sending" /\ owner = "idle" /\ link.connected
  /\ AppendEvent(Event("tx", link.epoch, <<>>))
  /\ run' = [run EXCEPT ![r].pc = "sent"]
  /\ UNCHANGED <<broker, active, completed>>

SendReturns(r) ==
  /\ run[r].pc = "sent" /\ Pass(r)

(* Permission, lease, cancellation, deadline, a broker's refusal.          *)
StepFails(r) == run[r].pc \in {"step", "sending", "sent", "expect"} /\ Goto(r, "failed")

-----------------------------------------------------------------------------
(* expect_bytes: Knuth-Morris-Pratt over the bytes of the RX events.       *)
(* A mismatch falls back to the longest shorter match that goes on with    *)
(* this byte, whether the byte is the stream's or the pattern's own.       *)
FallToZero(pattern, table, matched, byte) ==  \* mutant: a mismatch starts over
  IF matched = 0 \/ pattern[matched + 1] = byte THEN matched ELSE 0
Fall(pattern, table, matched, byte) ==
  LET back[k \in 0 .. matched] == IF k = 0 \/ pattern[k + 1] = byte THEN k ELSE back[table[k]]
  IN back[matched]

Advance(pattern, table, matched, byte) ==
  LET kept == Fall(pattern, table, matched, byte)
  IN IF pattern[kept + 1] = byte THEN kept + 1 ELSE kept

PrefixTable(pattern) ==
  LET table[i \in 1 .. Len(pattern)] == IF i = 1 THEN 0 ELSE Advance(pattern, table, table[i - 1], pattern[i])
  IN table

Feed(pattern, matched, data) ==
  LET table == PrefixTable(pattern)
      after[i \in 0 .. Len(data)] ==
        IF i = 0 THEN matched
        ELSE IF after[i - 1] = Len(pattern) THEN Len(pattern)
        ELSE Advance(pattern, table, after[i - 1], data[i])
  IN after[Len(data)]

(* consume_event, and what the events other than RX say. *)
ConsumesAnyEpoch(r, event) ==  \* mutant: the epoch of an event is not compared with the cursor's
  /\ run[r].next <= run[r].seq + 1
  /\ event.kind \notin {"down", "rxgap"}
Consumes(r, event) ==
  /\ run[r].next <= run[r].seq + 1
  /\ event.epoch = run[r].epoch \/ (run[r].next <= run[r].seq /\ event.kind # "up")
  /\ event.kind \notin {"down", "rxgap"}

Expect(r) ==
  LET x == run[r]
      event == log[x.next]
      seq == Max({x.seq, x.next})
      matched == Feed(Pattern(r), x.matched, event.data)
  IN /\ x.pc = "expect" /\ Pending(x.next)
     /\ run' = [run EXCEPT ![r] =
          IF Lagged(x.next) \/ ~Consumes(r, event) THEN [x EXCEPT !.pc = "failed"]
          ELSE IF matched = Len(Pattern(r)) THEN [Passed(x, seq) EXCEPT !.next = x.next + 1]
          ELSE [x EXCEPT !.pc = "port", !.matched = matched, !.next = @ + 1, !.seq = seq]]
     /\ UNCHANGED <<ledgerVars, broker, active, completed>>

(* After an event without a match, the port's own state. *)
ExpectPort(r) ==
  /\ run[r].pc = "port"
  /\ Goto(r, IF link.connected /\ link.epoch = run[r].epoch THEN "expect" ELSE "failed")
-----------------------------------------------------------------------------
RunStep(r) ==
  \/ CheckCompleted(r) \/ Claim(r) \/ Unclaim(r) \/ Publish(r)
  \/ Subscribe(r) \/ ReadCursor(r) \/ CheckPort(r)
  \/ BeginStep(r) \/ SendReturns(r) \/ Expect(r) \/ ExpectPort(r)

Next ==
  \/ Connects \/ Disconnects \/ RecordLink \/ DeviceRx \/ ReadFails
  \/ ReadEpoch \/ RecordControl
  \/ \E r \in Runs : RunStep(r) \/ HostWrites(r) \/ StepFails(r) \/ Abandon(r)

Spec == Init /\ [][Next]_workflowVars

-----------------------------------------------------------------------------
TypeOK ==
  /\ LedgerTypeOK
  /\ link \in [connected : BOOLEAN, epoch : 0 .. MaxLinks] /\ owner \in {"idle", "lost", "record"}
  /\ active \subseteq Keys /\ completed \in [Keys -> Runs \union {None}]
  /\ \A r \in Runs :
       LET x == run[r] IN
       /\ x.pc \in Executing \union {"idle", "checked", "publish", "done", "gone"}
       /\ x.seq \in 0 .. Newest /\ x.next \in 0 .. Newest + 1
       /\ x.pc \in {"expect", "port"} => x.matched \in 0 .. Len(Pattern(r)) - 1

(* The bytes the device sent in the events after `from' up to `to'.        *)
Bytes(from, to) == FlattenSeq([i \in 1 .. to - from |-> log[from + i].data])
Occurs(pattern, bytes) ==
  \E i \in 0 .. Len(bytes) - Len(pattern) : SubSeq(bytes, i + 1, i + Len(pattern)) = pattern

(* A passed expect is evidence: its pattern occurs in what was received    *)
(* from its start to its end, over one connection, with no disconnect and  *)
(* no observation gap in between, however reads cut the stream, events of  *)
(* other threads mix in and the subscriber lags (expect_bytes).            *)
ExpectSound ==
  \A r \in Runs : \A i \in DOMAIN run[r].evidence :
    LET e == run[r].evidence[i] IN
    e.step.op = "expect" =>
      /\ Occurs(e.step.pattern, Bytes(e.start, e.end))
      /\ \A n \in e.start + 1 .. e.end :
           log[n].epoch = run[r].epoch /\ log[n].kind \notin {"down", "rxgap"}

(* An expect passes at the first occurrence and does not overlook one: the *)
(* pattern is not in what a waiting expect has consumed, nor in what one   *)
(* that passed consumed before its last event (prefix_table).              *)
ExpectMissesNothing ==
  \A r \in Runs :
    /\ run[r].pc \in {"expect", "port"} => ~Occurs(Pattern(r), Bytes(run[r].start, run[r].seq))
    /\ \A i \in DOMAIN run[r].evidence :
         LET e == run[r].evidence[i] IN
         e.step.op = "expect" => ~Occurs(e.step.pattern, Bytes(e.start, e.end - 1))

(* No two runs of a request id execute at the same time ("a concurrent     *)
(* duplicate is rejected").                                                *)
OneRunPerKey ==
  \A r, q \in Runs :
    run[r].pc \in Executing /\ run[q].pc \in Executing /\ run[r].key = run[q].key => r = q

(* "A completed key returns the exact previous result" (WORKFLOWS.md):     *)
(* whoever is answered for one request id is answered the same run.        *)
SameAnswer ==
  \A r, q \in Runs :
    run[r].key = run[q].key /\ None \notin {run[r].answer, run[q].answer} => run[r].answer = run[q].answer
=============================================================================
