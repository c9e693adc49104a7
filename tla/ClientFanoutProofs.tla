------------------------- MODULE ClientFanoutProofs -------------------------
(***************************************************************************)
(* For any number of readers, any capacity and any policy: one chunk holds *)
(* the serial thread no longer than the budget, no reader sleeps on        *)
(* something to receive, a reader's stream is in order and without a hole, *)
(* and rx_drops and the gap events account for every chunk missed.         *)
(*                                                                         *)
(* A permit alone would not do: NoLostWakeup needs to know in which places *)
(* of recv a wake-up can have been handed over already, and that only      *)
(* awaiting readers look before they sleep.                                *)
(*                                                                         *)
(* The stream and the accounts need the middle of a chunk: between the     *)
(* snapshot and its turn in the loop a recipient is owed the chunk         *)
(* (StillDue), and between its turn and the end of the loop what it missed *)
(* is only in the locals (dropped, gaps).  FanoutInv says for every state  *)
(* what DropsExact and GapsNameTheVictims say between chunks.              *)
(***************************************************************************)
EXTENDS ClientFanout, FiniteSetTheorems, SequenceTheorems, TLAPS

OwnerFields == {"pc", "chunk", "todo", "blockedOn", "until", "elapsed", "dropped", "gaps", "dead"}

\* The owner's clock: what is left of the budget shrinks, and a deadline is within it.
ClockInv ==
  /\ setup.policy \in Policies
  /\ DOMAIN owner = OwnerFields
  /\ owner.elapsed \in 0..SlowBlock
  /\ owner.pc = "blocked" => owner.until \in 0..SlowBlock

\* One reader: a wake-up is handed over only where one can be waited for, and if
\* there is something to receive it is there before the reader sleeps.
Due(c) == queue[c].pending # <<>> \/ queue[c].closed

ReaderOK(c) ==
  /\ reader[c].pc \in {"armed", "checked"} => c \in setup.awaiting /\ reader[c].woken \in {"no", "all"}
  /\ reader[c].pc \in {"new", "joined", "out"} => reader[c].woken = "no"
  /\ reader[c].pc = "waiting" /\ Due(c) => reader[c].woken # "no"
  /\ reader[c].pc = "checked" /\ Due(c) => reader[c].woken = "all" \/ reader[c].permit

QueueShape ==
  /\ DOMAIN queue = Clients /\ DOMAIN reader = Clients
  /\ \A c \in Clients : /\ DOMAIN queue[c] = {"pending", "closed"}
                        /\ DOMAIN reader[c] = {"pc", "permit", "woken"}

WakeInv == setup.policy \in Policies /\ QueueShape /\ \A c \in Clients : ReaderOK(c)

\* What a full queue comes to under the four policies.
LEMMA OverflowCases ==
  ASSUME setup.policy \in Policies, NEW c, Overflow(c)
  PROVE  \/ Push(c, Tail(queue[c].pending)) /\ Evicted(c)
         \/ Evicted(c) /\ UNCHANGED <<queue, reader>>
         \/ Shut(c) /\ Disconnected(c)
         \/ /\ owner' = [owner EXCEPT !.pc = "blocked", !.blockedOn = {c},
                                       !.until = owner.elapsed + Remaining]
            /\ UNCHANGED <<queue, reader, abandoned>>
<1>1. setup.policy \in {"drop_oldest", "drop_newest", "disconnect_slow", "block"}
  BY FanoutAssumption
<1>2. CASE setup.policy = "drop_oldest"
  BY <1>2 DEF Overflow
<1>3. CASE setup.policy = "drop_newest"
  BY <1>3 DEF Overflow
<1>4. CASE setup.policy = "disconnect_slow"
  BY <1>4 DEF Overflow
<1>5. CASE setup.policy = "block"
  BY <1>5 DEF Overflow
<1> QED BY <1>1, <1>2, <1>3, <1>4, <1>5

-----------------------------------------------------------------------------
(* The budget of a chunk                                                   *)

\* No chunk has begun.
LEMMA ClockInit ==
  ASSUME Init
  PROVE  ClockInv
  BY FanoutAssumption DEF Init, Idle, ClockInv, OwnerFields

\* What the loop notes after a queue is served leaves the clock alone.
LEMMA NotesKeepClock ==
  ASSUME ClockInv, NEW c, Delivered(c) \/ Evicted(c) \/ Closed(c) \/ Disconnected(c), setup' = setup
  PROVE  ClockInv'
  BY DEF ClockInv, OwnerFields, Delivered, Evicted, Closed, Disconnected, Served

\* A wait begins with what is left of the budget.
LEMMA WaitIsWithin ==
  ASSUME ClockInv
  PROVE  owner.elapsed + Remaining \in 0..SlowBlock
  BY FanoutAssumption DEF ClockInv, Remaining

\* Time passes only while the budget lasts, and every chunk starts at zero.
LEMMA ClockNext ==
  ASSUME ClockInv, [Next]_fanoutVars
  PROVE  ClockInv'
<1>1. CASE Tick
  BY <1>1, FanoutAssumption DEF Tick, ClockInv, OwnerFields
<1>2. CASE DeviceRx \/ Snapshot \/ Count
  BY <1>2 DEF DeviceRx, Snapshot, Count, ClockInv, OwnerFields
<1>3. CASE RecordGap
  BY <1>3, FanoutAssumption DEF RecordGap, Idle, ClockInv, OwnerFields
<1>4. ASSUME NEW c \in Clients, Enqueue(c) \/ BlockEnds(c) \/ BlockTimesOut(c)
      PROVE  ClockInv'
  <2>1. setup.policy \in Policies /\ setup' = setup
    BY <1>4 DEF ClockInv, Enqueue, BlockEnds, BlockTimesOut
  <2>2. CASE Delivered(c) \/ Evicted(c) \/ Closed(c) \/ Disconnected(c)
    BY <2>1, <2>2, NotesKeepClock
  <2>3. CASE owner' = [owner EXCEPT !.pc = "blocked", !.blockedOn = {c},
                                    !.until = owner.elapsed + Remaining]
    <3> DEFINE until == owner.elapsed + Remaining
    <3>1. until \in 0..SlowBlock
      BY WaitIsWithin
    <3> HIDE DEF until
    <3>2. owner' = [owner EXCEPT !.pc = "blocked", !.blockedOn = {c}, !.until = until]
      BY <2>3 DEF until
    <3> QED BY <2>1, <3>1, <3>2 DEF ClockInv, OwnerFields
  <2>4. CASE Overflow(c)
    BY <2>1, <2>2, <2>3, <2>4, OverflowCases
  <2>5. CASE ~Overflow(c)
    BY <1>4, <2>2, <2>5 DEF Enqueue, BlockEnds, BlockTimesOut
  <2> QED BY <2>4, <2>5
<1>5. ASSUME NEW c \in Clients, Reap(c)
      PROVE  ClockInv'
  BY <1>5 DEF Reap, ClockInv, OwnerFields
<1>6. CASE UNCHANGED <<setup, owner>>
  BY <1>6 DEF ClockInv
<1>7. ASSUME NEW c \in Clients,
             \/ Register(c) \/ ReadHistory(c) \/ Unregister(c) \/ DropRx(c)
             \/ Enter(c) \/ Inspect(c) \/ Poll(c) \/ Wake(c) \/ CancelRecv(c)
      PROVE  UNCHANGED <<setup, owner>>
  BY <1>7 DEF Register, ReadHistory, Unregister, DropRx, Enter, Inspect, Poll, Wake, CancelRecv
<1> QED BY <1>1, <1>2, <1>3, <1>4, <1>5, <1>6, <1>7 DEF Next, fanoutVars

\* However many clients are slow, one chunk holds the serial thread no longer than
\* slow_block_ms.  (block_deadline of on_device_rx)
THEOREM StallIsBounded == Spec => []StallBounded
<1>1. ClockInv => StallBounded
  BY FanoutAssumption DEF ClockInv, StallBounded
<1> QED BY <1>1, ClockInit, ClockNext, PTL DEF Spec

-----------------------------------------------------------------------------
(* Wake-ups                                                                *)

\* Nobody is inside recv yet.
LEMMA WakeInit ==
  ASSUME Init
  PROVE  WakeInv
  BY DEF Init, WakeInv, QueueShape, ReaderOK, Due

\* A step touches the queue and the place of one reader at most.
Touches(c) ==
  /\ setup' = setup
  /\ DOMAIN queue' = Clients /\ DOMAIN reader' = Clients
  /\ DOMAIN queue'[c] = {"pending", "closed"} /\ DOMAIN reader'[c] = {"pc", "permit", "woken"}
  /\ \A d \in Clients : d # c => queue'[d] = queue[d] /\ reader'[d] = reader[d]

\* It is enough to look at that reader.
LEMMA OneReader ==
  ASSUME WakeInv, NEW c \in Clients, Touches(c), ReaderOK(c)'
  PROVE  WakeInv'
<1>1. QueueShape'
  BY DEF WakeInv, QueueShape, Touches
<1>2. \A d \in Clients : d # c => ReaderOK(d)'
  BY DEF WakeInv, ReaderOK, Due, Touches
<1> QED BY <1>1, <1>2 DEF WakeInv, Touches

\* A chunk in the queue wakes its reader, or leaves a permit for one about to sleep.
LEMMA PushWakes ==
  ASSUME WakeInv, NEW c \in Clients, NEW rest, Push(c, rest), setup' = setup
  PROVE  WakeInv'
<1>0. QueueShape /\ ReaderOK(c)
  BY DEF WakeInv
<1>1. Touches(c)
  BY <1>0 DEF Push, NotifyOne, Touches, QueueShape
<1>2. \/ reader[c].pc = "waiting" /\ reader[c].woken = "no" /\ reader'[c] = [reader[c] EXCEPT !.woken = "one"]
      \/ /\ ~(reader[c].pc = "waiting" /\ reader[c].woken = "no")
         /\ reader'[c] = [reader[c] EXCEPT !.permit = c \in setup.awaiting]
  BY <1>0 DEF Push, NotifyOne, QueueShape
<1>3. ReaderOK(c)'
  <2>1. CASE reader'[c].woken = "one" /\ reader'[c].pc = "waiting"
    BY <2>1 DEF ReaderOK
  <2>2. CASE /\ ~(reader[c].pc = "waiting" /\ reader[c].woken = "no")
             /\ reader'[c].pc = reader[c].pc /\ reader'[c].woken = reader[c].woken
             /\ reader'[c].permit = (c \in setup.awaiting)
    BY <1>0, <2>2 DEF ReaderOK
  <2> QED BY <1>0, <1>2, <2>1, <2>2 DEF QueueShape
<1> QED BY <1>1, <1>3, OneReader

\* A queue that closes wakes everybody who may be about to wait.
LEMMA ShutWakes ==
  ASSUME WakeInv, NEW c \in Clients, Shut(c), setup' = setup
  PROVE  WakeInv'
<1>0. QueueShape /\ ReaderOK(c)
  BY DEF WakeInv
<1>1. Touches(c)
  BY <1>0 DEF Shut, NotifyAll, Touches, QueueShape
<1>2. /\ reader'[c].pc = reader[c].pc /\ reader'[c].permit = reader[c].permit
      /\ reader'[c].woken = IF reader[c].pc \in {"armed", "checked", "waiting"} /\ reader[c].woken = "no"
                            THEN "all" ELSE reader[c].woken
  BY <1>0 DEF Shut, NotifyAll, QueueShape
<1>3. ReaderOK(c)'
  BY <1>0, <1>2 DEF ReaderOK
<1> QED BY <1>1, <1>3, OneReader

\* Closing a closed queue does nothing.
LEMMA CloseWakes ==
  ASSUME WakeInv, NEW c \in Clients, Close(c), setup' = setup
  PROVE  WakeInv'
<1>1. CASE UNCHANGED <<queue, reader>>
  BY <1>1, OneReader DEF WakeInv, QueueShape, ReaderOK, Due, Touches
<1>2. CASE Shut(c)
  BY <1>2, ShutWakes
<1> QED BY <1>1, <1>2 DEF Close

\* What a reader does itself.
LEMMA ReaderSteps ==
  ASSUME WakeInv, NEW c \in Clients,
         \/ Register(c) \/ ReadHistory(c) \/ DropRx(c) \/ Enter(c) \/ Inspect(c)
         \/ Poll(c) \/ Wake(c) \/ CancelRecv(c)
  PROVE  WakeInv'
<1>0. QueueShape /\ ReaderOK(c)
  BY DEF WakeInv
<1>1. CASE Register(c)
  <2>1. Touches(c)
    BY <1>0, <1>1 DEF Register, Touches, QueueShape
  <2>2. ReaderOK(c)'
    BY <1>0, <1>1 DEF Register, ReaderOK, Due, QueueShape
  <2> QED BY <2>1, <2>2, OneReader
<1>2. CASE ReadHistory(c)
  <2>1. Touches(c)
    BY <1>0, <1>2 DEF ReadHistory, Touches, QueueShape
  <2>2. ReaderOK(c)'
    BY <1>0, <1>2 DEF ReadHistory, ReaderOK, Due, QueueShape
  <2> QED BY <2>1, <2>2, OneReader
<1>3. CASE DropRx(c)
  <2>1. Touches(c)
    BY <1>0, <1>3 DEF DropRx, Touches, QueueShape
  <2>2. ReaderOK(c)'
    BY <1>0, <1>3 DEF DropRx, ReaderOK, Due, QueueShape
  <2> QED BY <2>1, <2>2, OneReader
<1>4. CASE Enter(c)
  <2>1. Touches(c)
    BY <1>0, <1>4 DEF Enter, Touches, QueueShape
  <2>2. ReaderOK(c)'
    BY <1>0, <1>4 DEF Enter, ReaderOK, Due, QueueShape
  <2> QED BY <2>1, <2>2, OneReader
<1>5. CASE Inspect(c)
  <2>1. Touches(c)
    BY <1>0, <1>5 DEF Inspect, Touches, QueueShape
  <2>2. ReaderOK(c)'
    BY <1>0, <1>5 DEF Inspect, ReaderOK, Due, QueueShape, Looking
  <2> QED BY <2>1, <2>2, OneReader
<1>6. CASE Poll(c)
  <2>1. Touches(c)
    BY <1>0, <1>6 DEF Poll, Touches, QueueShape
  <2>2. ReaderOK(c)'
    BY <1>0, <1>6 DEF Poll, ReaderOK, Due, QueueShape
  <2> QED BY <2>1, <2>2, OneReader
<1>7. CASE Wake(c)
  <2>1. Touches(c)
    BY <1>0, <1>7 DEF Wake, Touches, QueueShape
  <2>2. ReaderOK(c)'
    BY <1>0, <1>7 DEF Wake, ReaderOK, Due, QueueShape
  <2> QED BY <2>1, <2>2, OneReader
<1>8. CASE CancelRecv(c)
  <2>1. Touches(c)
    BY <1>0, <1>8 DEF CancelRecv, Touches, QueueShape
  <2>2. ReaderOK(c)'
    BY <1>0, <1>8 DEF CancelRecv, ReaderOK, Due, QueueShape
  <2> QED BY <2>1, <2>2, OneReader
<1> QED BY <1>1, <1>2, <1>3, <1>4, <1>5, <1>6, <1>7, <1>8

\* Every step keeps every reader's wake-up.
LEMMA WakeNext ==
  ASSUME WakeInv, [Next]_fanoutVars
  PROVE  WakeInv'
<1>1. CASE UNCHANGED <<setup, queue, reader>>
  BY <1>1 DEF WakeInv, QueueShape, ReaderOK, Due
<1>2. CASE DeviceRx \/ Snapshot \/ Count \/ RecordGap \/ Tick
  BY <1>1, <1>2 DEF DeviceRx, Snapshot, Count, RecordGap, Tick
<1>3. ASSUME NEW c \in Clients, Unregister(c) \/ Reap(c)
      PROVE  WakeInv'
  BY <1>1, <1>3, CloseWakes DEF Unregister, Reap
<1>4. ASSUME NEW c \in Clients, Enqueue(c) \/ BlockEnds(c) \/ BlockTimesOut(c)
      PROVE  WakeInv'
  <2>1. setup' = setup
    BY <1>4 DEF Enqueue, BlockEnds, BlockTimesOut
  <2>2. \/ UNCHANGED <<queue, reader>>
        \/ \E rest : Push(c, rest)
        \/ Shut(c)
    <3>1. setup.policy \in Policies
      BY DEF WakeInv
    <3>2. CASE Overflow(c)
      BY <3>1, <3>2, OverflowCases
    <3>3. CASE ~Overflow(c)
      BY <1>4, <3>3 DEF Enqueue, BlockEnds, BlockTimesOut
    <3> QED BY <3>2, <3>3
  <2> QED BY <1>1, <2>1, <2>2, PushWakes, ShutWakes
<1>5. ASSUME NEW c \in Clients,
             \/ Register(c) \/ ReadHistory(c) \/ DropRx(c) \/ Enter(c) \/ Inspect(c)
             \/ Poll(c) \/ Wake(c) \/ CancelRecv(c)
      PROVE  WakeInv'
  BY <1>5, ReaderSteps
<1> QED BY <1>1, <1>2, <1>3, <1>4, <1>5 DEF Next, fanoutVars

\* A reader that sleeps has nothing to receive, and one about to sleep with something to
\* receive finds a wake-up waiting.  (ClientRx::recv's notified() before the lock)
THEOREM NoWakeupLost == Spec => []NoLostWakeup
<1>1. WakeInv => NoLostWakeup
  BY DEF WakeInv, ReaderOK, Due, NoLostWakeup
<1> QED BY <1>1, WakeInit, WakeNext, PTL DEF Spec

-----------------------------------------------------------------------------
(* The stream                                                              *)

\* How many chunks were read, and the last one whose recipients were settled.
Read == Cardinality({i \in DOMAIN ledger : ledger[i].type = "rx"})
Settled == IF owner.pc = "recorded" THEN Read - 1 ELSE Read

LedgerEvent == [type : {"rx", "gap"}, chunk : Nat, clients : SUBSET Clients]

\* The owner's locals: a chunk under way is the last one read, and outside a
\* chunk nobody is left to serve or to report.
OwnerInv ==
  /\ DOMAIN owner = OwnerFields
  /\ owner.pc \in {"idle", "recorded", "fanout", "blocked", "reaping"}
  /\ owner.todo \in SUBSET Clients /\ owner.gaps \in SUBSET Clients /\ owner.dead \in SUBSET Clients
  /\ owner.blockedOn \subseteq owner.todo
  /\ owner.dropped \in Nat /\ drops \in Nat
  /\ owner.pc # "idle" => owner.chunk = Read /\ Read >= 1
  /\ owner.pc \in {"idle", "recorded"} => owner.gaps = {} /\ owner.dropped = 0
  /\ owner.pc \in {"idle", "recorded", "reaping"} => owner.todo = {}
  /\ owner.pc \in {"idle", "reaping"} => owner.dropped = 0
  /\ ledger \in Seq(LedgerEvent)
  /\ Read \in 0 .. Chunks

\* The ring is the last chunks, up to the last one settled.
HistoryInv ==
  /\ history \in Seq(Nat) /\ Len(history) <= HistoryCap /\ Len(history) <= Settled
  /\ \A i \in 1 .. Len(history) : history[i] = Settled - Len(history) + i

Rising(s) == \A i, j \in 1 .. Len(s) : i < j => s[i] < s[j]
Seen(c) == ToSet(replayed[c]) \union offered[c]

\* The variables a client has.
ClientShape ==
  /\ queue \in [Clients -> [pending : Seq(Nat), closed : BOOLEAN]]
  /\ reader \in [Clients -> [pc : {"new", "joined", "out", "armed", "checked", "waiting", "gone"},
                             permit : BOOLEAN, woken : {"no", "one", "all"}]]
  /\ taken \in [Clients -> Seq(Nat)] /\ replayed \in [Clients -> Seq(Nat)]
  /\ offered \in [Clients -> SUBSET Nat] /\ abandoned \in [Clients -> SUBSET Nat]
  /\ setup \in [policy : Policies, awaiting : Awaiting] /\ joined \in SUBSET Clients

\* The stream of one client: it was offered the chunks `o', took t, has p waiting in its
\* queue and gave up a; `due' is the chunk it is to be served next.
\* What it took and what waits rises, was offered and is not what it gave up; what is
\* due is none of these yet.
Stream(t, p, o, a, due) ==
  /\ Len(p) <= Capacity
  /\ Rising(t) /\ Rising(p)
  /\ \A i \in 1 .. Len(t) : \A j \in 1 .. Len(p) : t[i] < p[j]
  /\ ToSet(t) \subseteq o /\ ToSet(p) \subseteq o /\ a \subseteq o /\ due \subseteq o
  /\ \A k \in due : k \notin a /\ k \notin ToSet(t) /\ k \notin ToSet(p)

\* What it will never get.
NeverGot(t, p, o, a, due) == (o \ (ToSet(t) \union ToSet(p) \union a)) \ due

StreamWith(t, p, o, a, due, lost) == Stream(t, p, o, a, due) /\ NeverGot(t, p, o, a, due) = lost

\* The chunk under way, for a recipient whose turn is to come.
StillDue(c) == IF c \in owner.todo THEN {owner.chunk} ELSE {}
StreamOK(c) ==
  /\ Stream(taken[c], queue[c].pending, offered[c], abandoned[c], StillDue(c))
  /\ offered[c] \subseteq 1 .. Settled
  /\ IF queue[c].closed THEN queue[c].pending = <<>> ELSE abandoned[c] = {}

\* One client: from the first chunk it was given or offered to the last one settled
\* it was given or offered every chunk.
JoinOK(c) ==
  /\ reader[c].pc = "new" => c \notin joined /\ offered[c] = {}
  /\ reader[c].pc \in {"new", "joined"} => replayed[c] = <<>>
  /\ c \in joined => \E first \in 1 .. Settled + 1 : Seen(c) = first .. Settled

StreamInv == \A c \in Clients : StreamOK(c)
JoinInv == \A c \in Clients : JoinOK(c)

\* What a client has missed for good: it is not to be served any more.
Lost(c) == NeverGot(taken[c], queue[c].pending, offered[c], abandoned[c], StillDue(c))
Named(c, k) == \/ c \in owner.gaps
               \/ \E g \in Gaps : c \in g.clients /\ g.chunk >= k

\* Who lost something is named, and nobody else.
GapInv ==
  \A c \in Clients :
    /\ \A k \in Lost(c) : Named(c, k)
    /\ c \in owner.gaps => Lost(c) # {}
    /\ \A g \in Gaps : c \in g.clients => Lost(c) # {}

\* What was counted, and what is about to be, is every chunk lost.
LostPairs == {p \in Clients \X Chunk : p[2] \in Lost(p[1])}
DropInv == drops + owner.dropped = Cardinality(LostPairs)

\* An event at the end of the ledger: one more chunk, or none.
LEMMA ReadAppend ==
  ASSUME ledger \in Seq(LedgerEvent), NEW e \in LedgerEvent, ledger' = Append(ledger, e)
  PROVE  /\ ledger' \in Seq(LedgerEvent) /\ Read \in Nat
         /\ Read' = IF e.type = "rx" THEN Read + 1 ELSE Read
<1> DEFINE n == Len(ledger)
           rx == {i \in DOMAIN ledger : ledger[i].type = "rx"}
<1>1. /\ ledger' \in Seq(LedgerEvent) /\ n \in Nat /\ DOMAIN ledger = 1 .. n /\ DOMAIN ledger' = 1 .. n + 1
      /\ \A i \in 1 .. n : ledger'[i] = ledger[i]
      /\ ledger'[n + 1] = e
  OBVIOUS
<1>2. IsFiniteSet(rx) /\ n + 1 \notin rx
  <2>1. IsFiniteSet(1 .. n)
    BY <1>1, FS_Interval
  <2> QED BY <1>1, <2>1, FS_Subset
<1>3. Cardinality(rx) \in Nat /\ Cardinality(rx \union {n + 1}) = Cardinality(rx) + 1
  BY <1>2, FS_CardinalityType, FS_AddElement
<1>4. CASE e.type = "rx"
  <2>1. {i \in DOMAIN ledger' : ledger'[i].type = "rx"} = rx \union {n + 1}
    BY <1>1, <1>4
  <2> QED BY <1>1, <1>3, <1>4, <2>1 DEF Read
<1>5. CASE e.type # "rx"
  <2>1. {i \in DOMAIN ledger' : ledger'[i].type = "rx"} = rx
    BY <1>1, <1>5
  <2> QED BY <1>1, <1>3, <1>5, <2>1 DEF Read
<1> QED BY <1>4, <1>5

\* Nothing was read yet.
LEMMA OwnerInit ==
  ASSUME Init
  PROVE  OwnerInv /\ HistoryInv
<1>1. {i \in DOMAIN ledger : ledger[i].type = "rx"} = {}
  BY DEF Init
<1>2. Read = 0
  BY <1>1, FS_EmptySet DEF Read
<1> QED BY <1>2, FanoutAssumption DEF Init, Idle, OwnerInv, HistoryInv, Settled, OwnerFields

\* What the loop notes about one client, field by field.
LEMMA ServedFields ==
  ASSUME DOMAIN owner = OwnerFields, NEW c
  PROVE  /\ DOMAIN Served(c) = OwnerFields /\ Served(c).pc = "fanout" /\ Served(c).chunk = owner.chunk
         /\ Served(c).todo = owner.todo \ {c} /\ Served(c).blockedOn = {}
         /\ Served(c).dropped = owner.dropped /\ Served(c).gaps = owner.gaps /\ Served(c).dead = owner.dead
  BY DEF Served, OwnerFields

\* What the loop writes down after the turn of client c.
Notes(c, missed, gaps, dead) ==
  /\ DOMAIN owner' = OwnerFields /\ owner'.pc = "fanout" /\ owner'.chunk = owner.chunk
  /\ owner'.todo = owner.todo \ {c} /\ owner'.blockedOn = {}
  /\ owner'.dropped = owner.dropped + missed
  /\ owner'.gaps = owner.gaps \union gaps /\ owner'.dead = owner.dead \union dead

\* The four answers of enqueue, as the loop notes them.
LEMMA NotesAre ==
  ASSUME DOMAIN owner = OwnerFields, owner.dropped \in Nat, NEW c, Len(queue[c].pending) \in Nat
  PROVE  /\ Delivered(c) => Notes(c, 0, {}, {})
         /\ Evicted(c) => Notes(c, 1, {c}, {})
         /\ Closed(c) => Notes(c, 0, {}, {c})
         /\ Disconnected(c) => Notes(c, Len(queue[c].pending) + 1, {c}, {c})
<1> DEFINE s == Served(c)
           n == Len(queue[c].pending)
<1>1. /\ DOMAIN s = OwnerFields /\ s.pc = "fanout" /\ s.chunk = owner.chunk
      /\ s.todo = owner.todo \ {c} /\ s.blockedOn = {}
      /\ s.dropped = owner.dropped /\ s.gaps = owner.gaps /\ s.dead = owner.dead
  BY ServedFields
<1>2. /\ Delivered(c) => owner' = s
      /\ Evicted(c) => owner' = [s EXCEPT !.dropped = @ + 1, !.gaps = @ \union {c}]
      /\ Closed(c) => owner' = [s EXCEPT !.dead = @ \union {c}]
      /\ Disconnected(c) => owner' = [s EXCEPT !.dropped = @ + n + 1,
                                               !.gaps = @ \union {c}, !.dead = @ \union {c}]
  BY DEF Delivered, Evicted, Closed, Disconnected
<1>3. n \in Nat
  OBVIOUS
<1> HIDE DEF s, n
<1>4. Delivered(c) => Notes(c, 0, {}, {})
  BY <1>1, <1>2 DEF Notes
<1>5. Evicted(c) => Notes(c, 1, {c}, {})
  BY <1>1, <1>2 DEF Notes, OwnerFields
<1>6. Closed(c) => Notes(c, 0, {}, {c})
  BY <1>1, <1>2 DEF Notes, OwnerFields
<1>7. ASSUME Disconnected(c)
      PROVE  Notes(c, n + 1, {c}, {c})
  <2> DEFINE total == s.dropped + n + 1
  <2>1. total = owner.dropped + (n + 1)
    BY <1>1, <1>3
  <2> HIDE DEF total
  <2>2. owner' = [s EXCEPT !.dropped = total, !.gaps = @ \union {c}, !.dead = @ \union {c}]
    BY <1>2, <1>7 DEF total
  <2>3. owner'.dropped = total
    BY <1>1, <2>2 DEF OwnerFields
  <2>4. /\ DOMAIN owner' = OwnerFields /\ owner'.pc = "fanout" /\ owner'.chunk = owner.chunk
        /\ owner'.todo = owner.todo \ {c} /\ owner'.blockedOn = {}
        /\ owner'.gaps = owner.gaps \union {c} /\ owner'.dead = owner.dead \union {c}
    BY <1>1, <2>2 DEF OwnerFields
  <2> QED BY <2>1, <2>3, <2>4 DEF Notes
<1> QED BY <1>4, <1>5, <1>6, <1>7 DEF n

\* Notes about one client leave the rest of the owner's business in order.
LEMMA NotesKeepOwner ==
  ASSUME OwnerInv, owner.pc \in {"fanout", "blocked"}, NEW c \in Clients, NEW missed \in Nat,
         NEW gaps \in SUBSET {c}, NEW dead \in SUBSET {c},
         Notes(c, missed, gaps, dead), UNCHANGED <<ledger, drops>>
  PROVE  OwnerInv'
<1>1. Read' = Read
  BY DEF Read
<1> QED BY <1>1 DEF OwnerInv, Notes

-----------------------------------------------------------------------------
(* The owner's locals and the history ring                                 *)

\* The ring after one more chunk: the last of what it held, and the chunk.
LEMMA RemembersLast ==
  ASSUME history \in Seq(Nat), NEW k \in Nat, Len(history) <= HistoryCap,
         \A i \in 1 .. Len(history) : history[i] = k - 1 - Len(history) + i,
         Len(history) <= k - 1
  PROVE  /\ Remember(k) \in Seq(Nat) /\ Len(Remember(k)) <= HistoryCap /\ Len(Remember(k)) <= k
         /\ \A i \in 1 .. Len(Remember(k)) : Remember(k)[i] = k - Len(Remember(k)) + i
<1> DEFINE all == Append(history, k)
           n == Len(all)
           keep == IF n < HistoryCap THEN n ELSE HistoryCap
<1>1. /\ all \in Seq(Nat) /\ n = Len(history) + 1 /\ n \in Nat
      /\ \A i \in 1 .. n : all[i] = k - n + i
  OBVIOUS
<1>2. keep \in 0 .. n /\ keep <= HistoryCap /\ n - keep + 1 \in Int
  BY <1>1, FanoutAssumption
<1> DEFINE m == n - keep + 1
<1>3. Remember(k) = SubSeq(all, m, n)
  BY DEF Remember
<1> HIDE DEF all, n, keep
<1>4. \A i \in m .. n : all[i] \in Nat
  BY <1>1, <1>2
<1>5. /\ SubSeq(all, m, n) \in Seq(Nat)
      /\ Len(SubSeq(all, m, n)) = keep
      /\ \A i \in 1 .. keep : SubSeq(all, m, n)[i] = all[m + i - 1]
  <2>1. m \in Int /\ n \in Int /\ (IF m <= n THEN n - m + 1 ELSE 0) = keep /\ n - m + 1 = keep
    BY <1>1, <1>2
  <2> HIDE DEF m
  <2> QED BY <1>4, <2>1, SubSeqProperties
<1>6. \A i \in 1 .. keep : m + i - 1 \in 1 .. n /\ all[m + i - 1] = k - keep + i
  BY <1>1, <1>2
<1>7. keep <= k
  BY <1>1, <1>2 DEF n
<1> QED BY <1>2, <1>3, <1>5, <1>6, <1>7

\* The shapes of the clients' state, as steps see them.
LEMMA PendingShape ==
  ASSUME ClientShape, NEW c \in Clients
  PROVE  queue[c].pending \in Seq(Nat) /\ Len(queue[c].pending) \in Nat
<1>1. queue[c].pending \in Seq(Nat)
  BY DEF ClientShape
<1> QED BY <1>1

\* How a recipient is served: the queue takes the chunk, the loop notes the rest.
LEMMA ServeCases ==
  ASSUME OwnerInv, ClientShape, NEW c \in Clients, Enqueue(c) \/ BlockEnds(c) \/ BlockTimesOut(c)
  PROVE  /\ c \in owner.todo /\ owner.pc \in {"fanout", "blocked"}
         /\ UNCHANGED <<setup, joined, ledger, drops, history, replayed, taken, offered>>
         /\ \/ /\ queue[c].closed /\ UNCHANGED <<queue, reader>> /\ Notes(c, 0, {}, {c})
               /\ abandoned' = [abandoned EXCEPT ![c] = @ \union {owner.chunk}]
            \/ /\ ~queue[c].closed /\ ~Full(c) /\ Push(c, queue[c].pending) /\ UNCHANGED abandoned
               /\ Notes(c, 0, {}, {})
            \/ /\ ~queue[c].closed /\ Full(c) /\ Push(c, Tail(queue[c].pending)) /\ UNCHANGED abandoned
               /\ Notes(c, 1, {c}, {})
            \/ /\ ~queue[c].closed /\ Full(c) /\ UNCHANGED <<queue, reader, abandoned>>
               /\ Notes(c, 1, {c}, {})
            \/ /\ ~queue[c].closed /\ Full(c) /\ Shut(c) /\ UNCHANGED abandoned
               /\ Notes(c, Len(queue[c].pending) + 1, {c}, {c})
            \/ /\ owner.pc = "fanout" /\ UNCHANGED <<queue, reader, abandoned>>
               /\ owner' = [owner EXCEPT !.pc = "blocked", !.blockedOn = {c},
                                         !.until = owner.elapsed + Remaining]
<1>1. c \in owner.todo /\ owner.pc \in {"fanout", "blocked"}
  BY DEF Enqueue, BlockEnds, BlockTimesOut, OwnerInv
<1>2. /\ setup.policy \in Policies
      /\ Len(queue[c].pending) \in Nat /\ DOMAIN owner = OwnerFields /\ owner.dropped \in Nat
  BY PendingShape DEF ClientShape, OwnerInv
<1>3. UNCHANGED <<setup, joined, ledger, drops, history, replayed, taken, offered>>
  BY DEF Enqueue, BlockEnds, BlockTimesOut
<1>4. /\ Delivered(c) => Notes(c, 0, {}, {}) /\ UNCHANGED abandoned
      /\ Evicted(c) => Notes(c, 1, {c}, {}) /\ UNCHANGED abandoned
      /\ Closed(c) => Notes(c, 0, {}, {c}) /\ abandoned' = [abandoned EXCEPT ![c] = @ \union {owner.chunk}]
      /\ Disconnected(c) => Notes(c, Len(queue[c].pending) + 1, {c}, {c}) /\ UNCHANGED abandoned
  <2>1. /\ Delivered(c) => UNCHANGED abandoned
        /\ Evicted(c) => UNCHANGED abandoned
        /\ Closed(c) => abandoned' = [abandoned EXCEPT ![c] = @ \union {owner.chunk}]
        /\ Disconnected(c) => UNCHANGED abandoned
    BY DEF Delivered, Evicted, Closed, Disconnected
  <2> QED BY <1>2, <2>1, NotesAre
<1>5. CASE queue[c].closed /\ Closed(c) /\ UNCHANGED <<queue, reader>>
  BY <1>1, <1>3, <1>4, <1>5
<1>6. CASE ~queue[c].closed /\ ~Full(c) /\ Push(c, queue[c].pending) /\ Delivered(c)
  BY <1>1, <1>3, <1>4, <1>6
<1>7. CASE ~queue[c].closed /\ Full(c) /\ Shut(c) /\ Disconnected(c)
  BY <1>1, <1>3, <1>4, <1>7
<1>8. CASE ~queue[c].closed /\ Full(c) /\ Overflow(c) /\ owner.pc = "fanout"
  <2>1. CASE Push(c, Tail(queue[c].pending)) /\ Evicted(c)
    BY <1>1, <1>3, <1>4, <1>8, <2>1
  <2>2. CASE Evicted(c) /\ UNCHANGED <<queue, reader>>
    BY <1>1, <1>3, <1>4, <1>8, <2>2
  <2>3. CASE Shut(c) /\ Disconnected(c)
    BY <1>7, <1>8, <2>3
  <2>4. CASE /\ owner' = [owner EXCEPT !.pc = "blocked", !.blockedOn = {c},
                                       !.until = owner.elapsed + Remaining]
             /\ UNCHANGED <<queue, reader, abandoned>>
    BY <1>1, <1>3, <1>8, <2>4
  <2> QED BY <1>2, <1>8, <2>1, <2>2, <2>3, <2>4, OverflowCases
<1> QED BY <1>5, <1>6, <1>7, <1>8 DEF Enqueue, BlockEnds, BlockTimesOut

BaseInv == OwnerInv /\ HistoryInv /\ ClientShape

\* A wake-up moves a reader's marks, not its place.
LEMMA WakesAreMarks ==
  ASSUME ClientShape, NEW c \in Clients
  PROVE  /\ NotifyOne(c) \in [pc : {reader[c].pc}, permit : BOOLEAN, woken : {"no", "one", "all"}]
         /\ NotifyAll(c) \in [pc : {reader[c].pc}, permit : BOOLEAN, woken : {"no", "one", "all"}]
<1> DEFINE r == reader[c]
           b == c \in setup.awaiting
<1>1. r \in [pc : {"new", "joined", "out", "armed", "checked", "waiting", "gone"},
             permit : BOOLEAN, woken : {"no", "one", "all"}]
  BY DEF ClientShape
<1>2. b \in BOOLEAN
  OBVIOUS
<1>3. NotifyOne(c) \in {[r EXCEPT !.woken = "one"], [r EXCEPT !.permit = b]}
  BY DEF NotifyOne
<1>4. NotifyAll(c) \in {r, [r EXCEPT !.woken = "all"]}
  BY DEF NotifyAll
<1> HIDE DEF r, b
<1>5. /\ r \in [pc : {r.pc}, permit : BOOLEAN, woken : {"no", "one", "all"}]
      /\ [r EXCEPT !.woken = "one"] \in [pc : {r.pc}, permit : BOOLEAN, woken : {"no", "one", "all"}]
      /\ [r EXCEPT !.woken = "all"] \in [pc : {r.pc}, permit : BOOLEAN, woken : {"no", "one", "all"}]
      /\ [r EXCEPT !.permit = b] \in [pc : {r.pc}, permit : BOOLEAN, woken : {"no", "one", "all"}]
  BY <1>1, <1>2
<1>6. /\ NotifyOne(c) \in [pc : {r.pc}, permit : BOOLEAN, woken : {"no", "one", "all"}]
      /\ NotifyAll(c) \in [pc : {r.pc}, permit : BOOLEAN, woken : {"no", "one", "all"}]
  BY <1>3, <1>4, <1>5
<1> QED BY <1>6 DEF r

\* What a chunk in a queue, or the end of a queue, does to the queues and the readers.
LEMMA PushShape ==
  ASSUME ClientShape, NEW c \in Clients, NEW rest \in Seq(Nat), owner.chunk \in Nat, Push(c, rest)
  PROVE  /\ queue' \in [Clients -> [pending : Seq(Nat), closed : BOOLEAN]]
         /\ reader' \in [Clients -> [pc : {"new", "joined", "out", "armed", "checked", "waiting", "gone"},
                                     permit : BOOLEAN, woken : {"no", "one", "all"}]]
         /\ \A d \in Clients : /\ reader'[d].pc = reader[d].pc
                               /\ queue'[d].closed = queue[d].closed
                               /\ d # c => queue'[d].pending = queue[d].pending
         /\ queue'[c].pending = Append(rest, owner.chunk)
<1> DEFINE more == Append(rest, owner.chunk)
           r == NotifyOne(c)
<1>1. more \in Seq(Nat)
  OBVIOUS
<1>2. r \in [pc : {reader[c].pc}, permit : BOOLEAN, woken : {"no", "one", "all"}]
  BY WakesAreMarks
<1>3. queue' = [queue EXCEPT ![c].pending = more] /\ reader' = [reader EXCEPT ![c] = r]
  BY DEF Push
<1> HIDE DEF more, r
<1>4. /\ queue' \in [Clients -> [pending : Seq(Nat), closed : BOOLEAN]]
      /\ \A d \in Clients : /\ queue'[d].closed = queue[d].closed
                            /\ d # c => queue'[d].pending = queue[d].pending
      /\ queue'[c].pending = more
  BY <1>1, <1>3 DEF ClientShape
<1>5. /\ reader' \in [Clients -> [pc : {"new", "joined", "out", "armed", "checked", "waiting", "gone"},
                                  permit : BOOLEAN, woken : {"no", "one", "all"}]]
      /\ \A d \in Clients : reader'[d].pc = reader[d].pc
  BY <1>2, <1>3 DEF ClientShape
<1> QED BY <1>4, <1>5 DEF more

\* A queue that closes is empty; the readers keep their places.
LEMMA ShutShape ==
  ASSUME ClientShape, NEW c \in Clients, Shut(c)
  PROVE  /\ queue' \in [Clients -> [pending : Seq(Nat), closed : BOOLEAN]]
         /\ reader' \in [Clients -> [pc : {"new", "joined", "out", "armed", "checked", "waiting", "gone"},
                                     permit : BOOLEAN, woken : {"no", "one", "all"}]]
         /\ \A d \in Clients : /\ reader'[d].pc = reader[d].pc
                               /\ d # c => queue'[d] = queue[d]
         /\ queue'[c].pending = <<>> /\ queue'[c].closed = TRUE
<1> DEFINE r == NotifyAll(c)
<1>1. r \in [pc : {reader[c].pc}, permit : BOOLEAN, woken : {"no", "one", "all"}]
  BY WakesAreMarks
<1>2. queue' = [queue EXCEPT ![c] = [pending |-> <<>>, closed |-> TRUE]] /\ reader' = [reader EXCEPT ![c] = r]
  BY DEF Shut
<1> HIDE DEF r
<1>3. <<>> \in Seq(Nat)
  OBVIOUS
<1> QED BY <1>1, <1>2, <1>3 DEF ClientShape

\* The elements of a sequence.
LEMMA ElementsOf ==
  ASSUME NEW s \in Seq(Nat)
  PROVE  /\ ToSet(s) = {s[i] : i \in 1 .. Len(s)} /\ ToSet(s) \in SUBSET Nat
         /\ ToSet(<<>>) = {}
         /\ \A e \in Nat : ToSet(Append(s, e)) = ToSet(s) \union {e}
         /\ s # <<>> => ToSet(s) = {Head(s)} \union ToSet(Tail(s))
<1>1. ToSet(s) = {s[i] : i \in 1 .. Len(s)} /\ ToSet(s) \in SUBSET Nat /\ ToSet(<<>>) = {}
  BY DEF ToSet
<1>2. ASSUME NEW e \in Nat
      PROVE  ToSet(Append(s, e)) = ToSet(s) \union {e}
  <2>1. /\ DOMAIN Append(s, e) = 1 .. Len(s) + 1 /\ DOMAIN s = 1 .. Len(s) /\ Len(s) \in Nat
        /\ \A i \in 1 .. Len(s) : Append(s, e)[i] = s[i]
        /\ Append(s, e)[Len(s) + 1] = e
    OBVIOUS
  <2> QED BY <2>1 DEF ToSet
<1>3. ASSUME s # <<>>
      PROVE  ToSet(s) = {Head(s)} \union ToSet(Tail(s))
  <2> DEFINE t == Tail(s)
  <2>1. /\ DOMAIN t = 1 .. Len(s) - 1 /\ DOMAIN s = 1 .. Len(s) /\ Len(s) \in Nat /\ Len(s) >= 1
        /\ \A i \in 1 .. Len(s) - 1 : t[i] = s[i + 1]
        /\ Head(s) = s[1]
    BY <1>3
  <2>2. \A i \in 2 .. Len(s) : i - 1 \in DOMAIN t /\ t[i - 1] = s[i]
    BY <2>1
  <2> HIDE DEF t
  <2>3. ASSUME NEW i \in DOMAIN s
        PROVE  s[i] \in {s[1]} \union ToSet(t)
    <3>1. CASE i = 1
      BY <3>1
    <3>2. CASE i # 1
      <4>1. i - 1 \in DOMAIN t /\ t[i - 1] = s[i]
        BY <2>1, <2>2, <2>3, <3>2
      <4> QED BY <4>1 DEF ToSet
    <3> QED BY <3>1, <3>2
  <2>4. ASSUME NEW j \in DOMAIN t
        PROVE  t[j] \in ToSet(s)
    <3>1. j + 1 \in DOMAIN s /\ t[j] = s[j + 1]
      BY <2>1, <2>4
    <3> QED BY <3>1 DEF ToSet
  <2>5. s[1] \in ToSet(s)
    BY <2>1 DEF ToSet
  <2>6. ToSet(s) \subseteq {s[1]} \union ToSet(t)
    BY <2>3 DEF ToSet
  <2>7. ToSet(t) \subseteq ToSet(s)
    <3>1. \A x \in ToSet(t) : \E j \in DOMAIN t : x = t[j]
      BY DEF ToSet
    <3> QED BY <2>4, <3>1
  <2> QED BY <2>1, <2>5, <2>6, <2>7 DEF t
<1> QED BY <1>1, <1>2, <1>3

\* Closing a queue: what it held is given up.
LEMMA CloseShape ==
  ASSUME ClientShape, NEW c \in Clients, Close(c)
  PROVE  /\ queue' \in [Clients -> [pending : Seq(Nat), closed : BOOLEAN]]
         /\ reader' \in [Clients -> [pc : {"new", "joined", "out", "armed", "checked", "waiting", "gone"},
                                     permit : BOOLEAN, woken : {"no", "one", "all"}]]
         /\ abandoned' \in [Clients -> SUBSET Nat]
         /\ \A d \in Clients : /\ reader'[d].pc = reader[d].pc
                               /\ d # c => queue'[d] = queue[d] /\ abandoned'[d] = abandoned[d]
         /\ \/ UNCHANGED <<queue, abandoned>>
            \/ /\ ~queue[c].closed /\ queue'[c].pending = <<>> /\ queue'[c].closed = TRUE
               /\ abandoned'[c] = ToSet(queue[c].pending)
<1> DEFINE left == ToSet(queue[c].pending)
<1>1. left \in SUBSET Nat
  BY PendingShape, ElementsOf
<1>2. CASE UNCHANGED <<queue, reader, abandoned>>
  BY <1>2 DEF ClientShape
<1>3. CASE ~queue[c].closed /\ Shut(c) /\ abandoned' = [abandoned EXCEPT ![c] = left]
  <2> HIDE DEF left
  <2>1. /\ abandoned' \in [Clients -> SUBSET Nat] /\ abandoned'[c] = left
        /\ \A d \in Clients : d # c => abandoned'[d] = abandoned[d]
    BY <1>1, <1>3 DEF ClientShape
  <2> QED BY <1>3, <2>1, ShutShape DEF left
<1> QED BY <1>2, <1>3 DEF Close

\* A gap is not a chunk.
LEMMA GapKeepsRead ==
  ASSUME OwnerInv, RecordGap
  PROVE  ledger' \in Seq(LedgerEvent) /\ Read' = Read
<1> DEFINE e == [type |-> "gap", chunk |-> owner.chunk, clients |-> owner.gaps]
<1>1. ledger' = ledger \/ ledger' = Append(ledger, e)
  BY DEF RecordGap
<1>2. e \in LedgerEvent /\ e.type # "rx" /\ ledger \in Seq(LedgerEvent)
  BY DEF LedgerEvent, OwnerInv, RecordGap
<1>3. CASE ledger' = ledger
  BY <1>2, <1>3 DEF Read
<1>4. CASE ledger' = Append(ledger, e)
  BY <1>2, <1>4, ReadAppend
<1> QED BY <1>1, <1>3, <1>4

\* The steps of the owner that concern no single client.
LEMMA OwnerSteps ==
  ASSUME BaseInv, DeviceRx \/ Snapshot \/ Count \/ RecordGap \/ Tick
  PROVE  OwnerInv' /\ HistoryInv'
<1>0. OwnerInv /\ HistoryInv /\ joined \in SUBSET Clients /\ Read \in Nat
  BY DEF BaseInv, ClientShape, OwnerInv
<1>1. CASE DeviceRx
  <2> DEFINE k == Read + 1
             e == [type |-> "rx", chunk |-> k, clients |-> {}]
  <2>1. k \in Chunk /\ owner.pc = "idle" /\ ledger' = Append(ledger, e)
        /\ owner' = [owner EXCEPT !.pc = "recorded", !.chunk = k] /\ UNCHANGED <<drops, history>>
    BY <1>1 DEF DeviceRx, Read
  <2>2. e \in LedgerEvent
    BY <1>0 DEF LedgerEvent
  <2>3. ledger' \in Seq(LedgerEvent) /\ Read' = k
    BY <1>0, <2>1, <2>2, ReadAppend DEF OwnerInv
  <2> HIDE DEF e
  <2>4. OwnerInv'
    BY <1>0, <2>1, <2>3, FanoutAssumption DEF OwnerInv, OwnerFields, Chunk
  <2>5. Settled' = Read /\ Settled = Read
    BY <1>0, <2>1, <2>3 DEF Settled, OwnerInv, OwnerFields
  <2>6. HistoryInv'
    BY <1>0, <2>1, <2>5 DEF HistoryInv
  <2> QED BY <2>4, <2>6
<1>2. CASE Snapshot
  <2>1. /\ owner.pc = "recorded" /\ history' = Remember(owner.chunk)
        /\ owner' = [owner EXCEPT !.pc = "fanout", !.todo = joined] /\ UNCHANGED <<ledger, drops>>
    BY <1>2 DEF Snapshot
  <2>2. Read' = Read /\ owner.chunk = Read /\ Settled = Read - 1 /\ Settled' = Read
    BY <1>0, <2>1 DEF Read, Settled, OwnerInv, OwnerFields
  <2>3. OwnerInv'
    BY <1>0, <2>1, <2>2 DEF OwnerInv, OwnerFields
  <2> DEFINE r == Remember(Read)
  <2>4. /\ r \in Seq(Nat) /\ Len(r) <= HistoryCap /\ Len(r) <= Read
        /\ \A i \in 1 .. Len(r) : r[i] = Read - Len(r) + i
    <3>1. /\ history \in Seq(Nat) /\ Len(history) <= HistoryCap /\ Len(history) <= Read - 1
          /\ \A i \in 1 .. Len(history) : history[i] = Read - 1 - Len(history) + i
      BY <1>0, <2>2 DEF HistoryInv
    <3> QED BY <1>0, <3>1, RemembersLast
  <2>5. history' = r
    BY <2>1, <2>2
  <2> HIDE DEF r
  <2>6. HistoryInv'
    BY <2>2, <2>4, <2>5 DEF HistoryInv
  <2> QED BY <2>3, <2>6
<1>3. CASE Count
  <2>1. /\ owner.pc = "fanout" /\ owner.todo = {} /\ drops' = drops + owner.dropped
        /\ owner' = [owner EXCEPT !.pc = "reaping", !.dropped = 0] /\ UNCHANGED <<ledger, history>>
    BY <1>3 DEF Count
  <2>2. Read' = Read
    BY <2>1 DEF Read
  <2>3. OwnerInv'
    BY <1>0, <2>1, <2>2 DEF OwnerInv, OwnerFields
  <2>4. Settled' = Settled
    BY <1>0, <2>1, <2>2 DEF Settled, OwnerInv, OwnerFields
  <2> QED BY <1>0, <2>1, <2>3, <2>4 DEF HistoryInv
<1>4. CASE RecordGap
  <2>1. /\ owner.pc = "reaping" /\ owner' = Idle /\ UNCHANGED <<drops, history>>
    BY <1>4 DEF RecordGap
  <2>3. ledger' \in Seq(LedgerEvent) /\ Read' = Read
    BY <1>0, <1>4, GapKeepsRead
  <2>4. OwnerInv'
    BY <1>0, <2>1, <2>3 DEF OwnerInv, OwnerFields, Idle
  <2>5. Settled' = Settled
    BY <1>0, <2>1, <2>3 DEF Settled, Idle
  <2> QED BY <1>0, <2>1, <2>4, <2>5 DEF HistoryInv
<1>5. CASE Tick
  <2>1. /\ owner' = [owner EXCEPT !.elapsed = @ + 1] /\ UNCHANGED <<ledger, drops, history>>
    BY <1>5 DEF Tick
  <2>2. Read' = Read
    BY <2>1 DEF Read
  <2>3. OwnerInv'
    BY <1>0, <2>1, <2>2 DEF OwnerInv, OwnerFields
  <2>4. Settled' = Settled
    BY <1>0, <2>1, <2>2 DEF Settled, OwnerInv, OwnerFields
  <2> QED BY <1>0, <2>1, <2>3, <2>4 DEF HistoryInv
<1> QED BY <1>1, <1>2, <1>3, <1>4, <1>5

\* The steps of the owner that serve or reap one client.
LEMMA ServingSteps ==
  ASSUME BaseInv, NEW c \in Clients, Enqueue(c) \/ BlockEnds(c) \/ BlockTimesOut(c) \/ Reap(c)
  PROVE  OwnerInv' /\ HistoryInv' /\ Settled' = Settled
<1>0. OwnerInv /\ HistoryInv /\ ClientShape /\ Len(queue[c].pending) \in Nat
  BY PendingShape DEF BaseInv
<1>1. CASE Enqueue(c) \/ BlockEnds(c) \/ BlockTimesOut(c)
  <2>1. /\ c \in owner.todo /\ owner.pc \in {"fanout", "blocked"} /\ UNCHANGED <<ledger, drops, history>>
        /\ \/ \E missed \in Nat, gaps \in SUBSET {c}, dead \in SUBSET {c} : Notes(c, missed, gaps, dead)
           \/ /\ owner.pc = "fanout"
              /\ owner' = [owner EXCEPT !.pc = "blocked", !.blockedOn = {c},
                                        !.until = owner.elapsed + Remaining]
    <3>1. 0 \in Nat /\ 1 \in Nat /\ Len(queue[c].pending) + 1 \in Nat
      BY <1>0
    <3>2. {} \in SUBSET {c} /\ {c} \in SUBSET {c}
      OBVIOUS
    <3> HIDE DEF Notes
    <3> QED BY <1>0, <1>1, <3>1, <3>2, ServeCases
  <2>2. Read' = Read
    BY <2>1 DEF Read
  <2>3. CASE \E missed \in Nat, gaps \in SUBSET {c}, dead \in SUBSET {c} : Notes(c, missed, gaps, dead)
    <3>1. PICK missed \in Nat, gaps \in SUBSET {c}, dead \in SUBSET {c} : Notes(c, missed, gaps, dead)
      BY <2>3
    <3>2. OwnerInv'
      BY <1>0, <2>1, <3>1, NotesKeepOwner
    <3>3. Settled' = Settled
      BY <2>1, <2>2, <3>1 DEF Settled, Notes
    <3> QED BY <1>0, <2>1, <3>2, <3>3 DEF HistoryInv
  <2>4. CASE /\ owner.pc = "fanout"
             /\ owner' = [owner EXCEPT !.pc = "blocked", !.blockedOn = {c},
                                       !.until = owner.elapsed + Remaining]
    <3> DEFINE until == owner.elapsed + Remaining
    <3>1. owner' = [owner EXCEPT !.pc = "blocked", !.blockedOn = {c}, !.until = until]
      BY <2>4
    <3> HIDE DEF until
    <3>2. OwnerInv'
      BY <1>0, <2>1, <2>2, <2>4, <3>1 DEF OwnerInv, OwnerFields
    <3>3. Settled' = Settled
      BY <1>0, <2>2, <2>4, <3>1 DEF Settled, OwnerInv, OwnerFields
    <3> QED BY <1>0, <2>1, <3>2, <3>3 DEF HistoryInv
  <2> QED BY <2>1, <2>3, <2>4
<1>2. CASE Reap(c)
  <2>1. /\ owner.pc = "reaping" /\ owner' = [owner EXCEPT !.dead = @ \ {c}]
        /\ UNCHANGED <<ledger, drops, history>>
    BY <1>2 DEF Reap
  <2>2. Read' = Read
    BY <2>1 DEF Read
  <2>3. OwnerInv'
    BY <1>0, <2>1, <2>2 DEF OwnerInv, OwnerFields
  <2>4. Settled' = Settled
    BY <1>0, <2>1, <2>2 DEF Settled, OwnerInv, OwnerFields
  <2> QED BY <1>0, <2>1, <2>3, <2>4 DEF HistoryInv
<1> QED BY <1>1, <1>2

\* What a client or its adapter does.
ClientSteps(c) ==
  \/ Register(c) \/ ReadHistory(c) \/ Unregister(c) \/ DropRx(c)
  \/ Enter(c) \/ Inspect(c) \/ Poll(c) \/ Wake(c) \/ CancelRecv(c)

\* A client's steps are none of the owner's business.
LEMMA ClientStepsKeepOwner ==
  ASSUME BaseInv, NEW c \in Clients, ClientSteps(c) \/ UNCHANGED fanoutVars
  PROVE  OwnerInv' /\ HistoryInv' /\ Settled' = Settled
<1>1. UNCHANGED <<owner, ledger, drops, history>>
  BY DEF ClientSteps, Register, ReadHistory, Unregister, DropRx, Enter, Inspect, Poll, Wake, CancelRecv, fanoutVars
<1>2. Read' = Read /\ Settled' = Settled
  BY <1>1 DEF Read, Settled
<1> QED BY <1>1, <1>2 DEF BaseInv, OwnerInv, HistoryInv

-----------------------------------------------------------------------------
(* The stream of one client, step by step                                  *)

\* A later chunk at the end of what rises.
LEMMA RisingAppend ==
  ASSUME NEW s \in Seq(Nat), Rising(s), NEW e \in Nat, \A i \in 1 .. Len(s) : s[i] < e
  PROVE  Rising(Append(s, e))
<1>1. /\ Len(Append(s, e)) = Len(s) + 1 /\ Len(s) \in Nat
      /\ \A i \in 1 .. Len(s) : Append(s, e)[i] = s[i] /\ s[i] \in Nat
      /\ Append(s, e)[Len(s) + 1] = e
  OBVIOUS
<1> DEFINE s2 == Append(s, e)
<1> HIDE DEF s2
<1>2. ASSUME NEW i \in 1 .. Len(s) + 1, NEW j \in 1 .. Len(s) + 1, i < j
      PROVE  s2[i] < s2[j]
  <2>1. i \in 1 .. Len(s) /\ s2[i] = s[i] /\ s[i] < e
    BY <1>1, <1>2 DEF s2
  <2>2. CASE j = Len(s) + 1
    BY <1>1, <2>1, <2>2 DEF s2
  <2>3. CASE j # Len(s) + 1
    BY <1>1, <1>2, <2>1, <2>3 DEF s2, Rising
  <2> QED BY <2>2, <2>3
<1> QED BY <1>1, <1>2 DEF Rising, s2

\* The head of what rises is before its tail.
LEMMA RisingTail ==
  ASSUME NEW s \in Seq(Nat), Rising(s), s # <<>>
  PROVE  Rising(Tail(s)) /\ \A i \in 1 .. Len(Tail(s)) : Head(s) < Tail(s)[i]
<1>1. /\ Len(Tail(s)) = Len(s) - 1 /\ Len(s) \in Nat \ {0} /\ Head(s) = s[1]
      /\ \A i \in 1 .. Len(s) - 1 : Tail(s)[i] = s[i + 1]
  OBVIOUS
<1>2. \A i \in 1 .. Len(s) - 1 : i + 1 \in 1 .. Len(s) /\ 1 < i + 1
  BY <1>1
<1>3. \A i \in 1 .. Len(Tail(s)) : Head(s) < Tail(s)[i]
  BY <1>1, <1>2 DEF Rising
<1>4. ASSUME NEW i \in 1 .. Len(s) - 1, NEW j \in 1 .. Len(s) - 1, i < j
      PROVE  Tail(s)[i] < Tail(s)[j]
  <2>1. i + 1 \in 1 .. Len(s) /\ j + 1 \in 1 .. Len(s) /\ i + 1 < j + 1
    BY <1>1, <1>4
  <2> QED BY <1>1, <1>4, <2>1 DEF Rising
<1> QED BY <1>1, <1>3, <1>4 DEF Rising

\* As many elements as places.
LEMMA RisingCount ==
  ASSUME NEW s \in Seq(Nat), Rising(s)
  PROVE  IsFiniteSet(ToSet(s)) /\ Cardinality(ToSet(s)) = Len(s)
<1>1. Len(s) \in Nat /\ s \in [1 .. Len(s) -> ToSet(s)]
  BY DEF ToSet
<1>2. \A i, j \in 1 .. Len(s) : s[i] = s[j] => i = j
  <2>1. \A i \in 1 .. Len(s) : s[i] \in Nat
    OBVIOUS
  <2> QED BY <1>1, <2>1 DEF Rising
<1>3. \A x \in ToSet(s) : \E i \in 1 .. Len(s) : s[i] = x
  BY <1>1 DEF ToSet
<1>4. s \in Bijection(1 .. Len(s), ToSet(s))
  BY <1>1, <1>2, <1>3 DEF Bijection, Injection, Surjection, IsInjective
<1>5. ExistsBijection(1 .. Len(s), ToSet(s))
  BY <1>4 DEF ExistsBijection
<1> QED BY <1>1, <1>5, FS_NatBijection, FS_CountingElements

\* A receive moves the head of the queue; nothing is missed by it.
LEMMA TakeKeepsStream ==
  ASSUME NEW t \in Seq(Nat), NEW p \in Seq(Nat), NEW o \in SUBSET Nat, NEW a \in SUBSET Nat, NEW due,
         Stream(t, p, o, a, due), p # <<>>
  PROVE  StreamWith(Append(t, Head(p)), Tail(p), o, a, due, NeverGot(t, p, o, a, due))
<1>1. Head(p) \in Nat /\ Tail(p) \in Seq(Nat) /\ Len(Tail(p)) <= Len(p) /\ Len(p) \in Nat /\ Len(Tail(p)) \in Nat
  OBVIOUS
<1>2. /\ ToSet(Append(t, Head(p))) = ToSet(t) \union {Head(p)}
      /\ ToSet(p) = {Head(p)} \union ToSet(Tail(p))
  BY <1>1, ElementsOf
<1>3. \A i \in 1 .. Len(t) : t[i] < Head(p)
  BY DEF Stream
<1>4. Rising(Append(t, Head(p))) /\ Rising(Tail(p))
  BY <1>1, <1>3, RisingAppend, RisingTail DEF Stream
<1>5. \A i \in 1 .. Len(t) + 1 : \A j \in 1 .. Len(Tail(p)) : Append(t, Head(p))[i] < Tail(p)[j]
  <2>1. \A j \in 1 .. Len(Tail(p)) : Head(p) < Tail(p)[j]
    BY RisingTail DEF Stream
  <2>2. \A j \in 1 .. Len(Tail(p)) : j + 1 \in 1 .. Len(p) /\ Tail(p)[j] = p[j + 1]
    OBVIOUS
  <2>3. \A i \in 1 .. Len(t) : \A j \in 1 .. Len(Tail(p)) : t[i] < Tail(p)[j]
    BY <2>2 DEF Stream
  <2>4. /\ \A i \in 1 .. Len(t) : Append(t, Head(p))[i] = t[i]
        /\ Append(t, Head(p))[Len(t) + 1] = Head(p) /\ Len(t) \in Nat
    BY <1>1
  <2> QED BY <2>1, <2>3, <2>4
<1>6. Len(Append(t, Head(p))) = Len(t) + 1
  BY <1>1
<1>7. Len(Tail(p)) <= Capacity
  BY <1>1, FanoutAssumption DEF Stream
<1> DEFINE t2 == Append(t, Head(p))
           p2 == Tail(p)
<1>8. /\ ToSet(t2) \subseteq o /\ ToSet(p2) \subseteq o
      /\ \A k \in due : k \notin a /\ k \notin ToSet(t2) /\ k \notin ToSet(p2)
      /\ ToSet(t2) \union ToSet(p2) = ToSet(t) \union ToSet(p)
  BY <1>2 DEF Stream
<1>9. /\ Rising(t2) /\ Rising(p2) /\ Len(p2) <= Capacity
      /\ \A i \in 1 .. Len(t2) : \A j \in 1 .. Len(p2) : t2[i] < p2[j]
  BY <1>4, <1>5, <1>6, <1>7
<1> HIDE DEF t2, p2
<1>10. Stream(t2, p2, o, a, due) /\ NeverGot(t2, p2, o, a, due) = NeverGot(t, p, o, a, due)
  BY <1>8, <1>9 DEF Stream, NeverGot
<1> QED BY <1>10 DEF StreamWith, t2, p2

\* A queue that is closed leaves what it held to be given up; nothing is missed by it.
LEMMA GivingUpKeepsStream ==
  ASSUME NEW t \in Seq(Nat), NEW p \in Seq(Nat), NEW o \in SUBSET Nat, NEW a \in SUBSET Nat, NEW due,
         Stream(t, p, o, a, due), a = {}
  PROVE  StreamWith(t, <<>>, o, ToSet(p), due, NeverGot(t, p, o, a, due))
<1>1. ToSet(<<>>) = {} /\ Rising(<<>>) /\ Len(<<>>) = 0
  BY ElementsOf DEF Rising
<1>2. /\ a = {} /\ Rising(t) /\ ToSet(t) \subseteq o /\ ToSet(p) \subseteq o /\ due \subseteq o
      /\ \A k \in due : k \notin ToSet(t) /\ k \notin ToSet(p)
  BY DEF Stream
<1>3. Stream(t, <<>>, o, ToSet(p), due)
  BY <1>1, <1>2, FanoutAssumption DEF Stream
<1>4. o \ (ToSet(t) \union ToSet(<<>>) \union ToSet(p)) = o \ (ToSet(t) \union ToSet(p) \union a)
  BY <1>1, <1>2
<1> QED BY <1>3, <1>4 DEF StreamWith, NeverGot

\* A new chunk is offered, and due at once.
LEMMA OfferKeepsStream ==
  ASSUME NEW t \in Seq(Nat), NEW p \in Seq(Nat), NEW o \in SUBSET Nat, NEW a \in SUBSET Nat,
         NEW k \in Nat, k \notin o, Stream(t, p, o, a, {})
  PROVE  StreamWith(t, p, o \union {k}, a, {k}, NeverGot(t, p, o, a, {}))
  BY DEF Stream, StreamWith, NeverGot

\* What is due comes after all that was taken or waits.
LEMMA DueIsLast ==
  ASSUME NEW t \in Seq(Nat), NEW p \in Seq(Nat), NEW a, NEW k \in Nat, NEW o \in SUBSET (1 .. k),
         Stream(t, p, o, a, {k})
  PROVE  /\ \A i \in 1 .. Len(t) : t[i] < k
         /\ \A i \in 1 .. Len(p) : p[i] < k
<1>1. /\ \A i \in 1 .. Len(t) : t[i] \in ToSet(t)
      /\ \A i \in 1 .. Len(p) : p[i] \in ToSet(p)
  BY ElementsOf
<1>2. /\ ToSet(t) \subseteq 1 .. k /\ ToSet(p) \subseteq 1 .. k
      /\ k \notin ToSet(t) /\ k \notin ToSet(p)
  BY DEF Stream
<1> QED BY <1>1, <1>2

\* A closed queue: the client gave the chunk up.
LEMMA ClosedKeepsStream ==
  ASSUME NEW t \in Seq(Nat), NEW p \in Seq(Nat), NEW o, NEW a, NEW k, Stream(t, p, o, a, {k})
  PROVE  StreamWith(t, p, o, a \union {k}, {}, NeverGot(t, p, o, a, {k}))
  BY DEF Stream, StreamWith, NeverGot

\* A chunk at the end of a queue with room.
LEMMA PushKeepsStream ==
  ASSUME NEW t \in Seq(Nat), NEW p \in Seq(Nat), NEW a, NEW k \in Nat, NEW o \in SUBSET (1 .. k),
         Stream(t, p, o, a, {k}), Len(p) < Capacity
  PROVE  StreamWith(t, Append(p, k), o, a, {}, NeverGot(t, p, o, a, {k}))
<1> DEFINE q == Append(p, k)
<1>1. ToSet(q) = ToSet(p) \union {k} /\ Len(q) = Len(p) + 1 /\ Len(p) \in Nat
  BY ElementsOf
<1>2. (\A i \in 1 .. Len(t) : t[i] < k) /\ (\A i \in 1 .. Len(p) : p[i] < k)
  BY DueIsLast
<1>3. Rising(q)
  BY <1>2, RisingAppend DEF Stream
<1>4. (\A i \in 1 .. Len(p) : q[i] = p[i]) /\ q[Len(p) + 1] = k
  OBVIOUS
<1> HIDE DEF q
<1>5. \A i \in 1 .. Len(t) : \A j \in 1 .. Len(q) : t[i] < q[j]
  <2>1. \A i \in 1 .. Len(t) : \A j \in 1 .. Len(p) : t[i] < p[j]
    BY DEF Stream
  <2>2. ASSUME NEW j \in 1 .. Len(q), j # Len(p) + 1
        PROVE  j \in 1 .. Len(p)
    BY <1>1, <2>2
  <2> QED BY <1>2, <1>4, <2>1, <2>2
<1>6. Len(q) <= Capacity
  BY <1>1, FanoutAssumption
<1>7. Stream(t, q, o, a, {})
  <2>1. a \subseteq o /\ Rising(t) /\ ToSet(t) \subseteq o /\ ToSet(q) \subseteq o
    BY <1>1 DEF Stream
  <2> QED BY <1>3, <1>5, <1>6, <2>1 DEF Stream
<1>8. NeverGot(t, q, o, a, {}) = NeverGot(t, p, o, a, {k})
  BY <1>1 DEF NeverGot
<1> QED BY <1>7, <1>8 DEF StreamWith, q

\* A full queue that drops its oldest chunk: that one is missed now.
LEMMA EvictingKeepsStream ==
  ASSUME NEW t \in Seq(Nat), NEW p \in Seq(Nat), NEW a, NEW k \in Nat, NEW o \in SUBSET (1 .. k),
         Stream(t, p, o, a, {k}), a = {}, Len(p) >= Capacity
  PROVE  /\ StreamWith(t, Append(Tail(p), k), o, a, {}, NeverGot(t, p, o, a, {k}) \union {Head(p)})
         /\ Head(p) \in o /\ Head(p) \notin NeverGot(t, p, o, a, {k})
<1> DEFINE q == Tail(p)
           h == Head(p)
<1>1. p # <<>> /\ Len(p) = Capacity /\ Len(p) \in Nat
  BY FanoutAssumption DEF Stream
<1>2. q \in Seq(Nat) /\ Len(q) = Len(p) - 1 /\ h \in Nat /\ h = p[1] /\ 1 \in 1 .. Len(p)
  BY <1>1
<1>3. ToSet(p) = {h} \union ToSet(q)
  BY <1>1, ElementsOf
<1>4. Rising(q) /\ \A i \in 1 .. Len(q) : h < q[i]
  BY <1>1, RisingTail DEF Stream
<1>5. h \notin ToSet(q)
  <2>1. ToSet(q) = {q[i] : i \in 1 .. Len(q)}
    BY <1>2, ElementsOf
  <2> QED BY <1>2, <1>4, <2>1
<1>6. h \notin ToSet(t)
  <2>1. \A x \in ToSet(t) : \E i \in 1 .. Len(t) : x = t[i] /\ x \in Nat
    BY ElementsOf
  <2>2. \A i \in 1 .. Len(t) : t[i] < h
    BY <1>2 DEF Stream
  <2> QED BY <1>2, <2>1, <2>2
<1>7. \A i \in 1 .. Len(t) : \A j \in 1 .. Len(q) : t[i] < q[j]
  <2>1. \A j \in 1 .. Len(q) : j + 1 \in 1 .. Len(p) /\ q[j] = p[j + 1]
    BY <1>1, <1>2
  <2> HIDE DEF q
  <2> QED BY <2>1 DEF Stream
<1> HIDE DEF q, h
<1>8. a \subseteq o /\ Rising(t) /\ ToSet(t) \subseteq o /\ ToSet(p) \subseteq o /\ k \in o
      /\ k \notin ToSet(t) /\ k \notin ToSet(p)
  BY DEF Stream
<1>9. Stream(t, q, o, a, {k}) /\ Len(q) < Capacity
  <2>1. Len(q) < Capacity /\ Len(q) <= Capacity
    BY <1>1, <1>2, FanoutAssumption
  <2> QED BY <1>3, <1>4, <1>7, <1>8, <2>1 DEF Stream
<1>10. StreamWith(t, Append(q, k), o, a, {}, NeverGot(t, q, o, a, {k}))
  BY <1>2, <1>9, PushKeepsStream
<1>11. NeverGot(t, q, o, a, {k}) = NeverGot(t, p, o, a, {k}) \union {h}
  BY <1>3, <1>5, <1>6, <1>8 DEF NeverGot
<1>12. h \in o /\ h \notin NeverGot(t, p, o, a, {k})
  BY <1>3, <1>8 DEF NeverGot
<1> QED BY <1>10, <1>11, <1>12 DEF q, h

\* A full queue that drops the new chunk: that one is missed now.
LEMMA DroppingKeepsStream ==
  ASSUME NEW t, NEW p, NEW o, NEW a, NEW k, Stream(t, p, o, a, {k})
  PROVE  /\ StreamWith(t, p, o, a, {}, NeverGot(t, p, o, a, {k}) \union {k})
         /\ k \in o /\ k \notin NeverGot(t, p, o, a, {k})
  BY DEF Stream, StreamWith, NeverGot

\* A full queue that is shut: all it held and the new chunk are missed now.
LEMMA ShuttingKeepsStream ==
  ASSUME NEW t \in Seq(Nat), NEW p \in Seq(Nat), NEW a, NEW k \in Nat, NEW o \in SUBSET (1 .. k),
         Stream(t, p, o, a, {k}), a = {}
  PROVE  LET missed == ToSet(p) \union {k} IN
         /\ StreamWith(t, <<>>, o, a, {}, NeverGot(t, p, o, a, {k}) \union missed)
         /\ missed \subseteq o /\ missed \intersect NeverGot(t, p, o, a, {k}) = {}
         /\ IsFiniteSet(missed) /\ Cardinality(missed) = Len(p) + 1
<1>1. ToSet(<<>>) = {} /\ Rising(<<>>) /\ Len(<<>>) = 0
  BY ElementsOf DEF Rising
<1>2. /\ a = {} /\ Rising(t) /\ Rising(p) /\ ToSet(t) \subseteq o /\ ToSet(p) \subseteq o
      /\ k \in o /\ k \notin ToSet(t) /\ k \notin ToSet(p)
  BY DEF Stream
<1>3. Stream(t, <<>>, o, a, {})
  BY <1>1, <1>2, FanoutAssumption DEF Stream
<1>4. \A x \in ToSet(p) : x \notin ToSet(t)
  <2>1. \A x \in ToSet(t) : \E i \in 1 .. Len(t) : x = t[i] /\ x \in Nat
    BY ElementsOf
  <2>2. \A x \in ToSet(p) : \E i \in 1 .. Len(p) : x = p[i] /\ x \in Nat
    BY ElementsOf
  <2>3. \A i \in 1 .. Len(t) : \A j \in 1 .. Len(p) : t[i] < p[j] /\ t[i] \in Nat /\ p[j] \in Nat
    BY DEF Stream
  <2>4. \A i \in 1 .. Len(t) : \A j \in 1 .. Len(p) : t[i] # p[j]
    BY <2>3
  <2> QED BY <2>1, <2>2, <2>4
<1>5. NeverGot(t, <<>>, o, a, {}) = NeverGot(t, p, o, a, {k}) \union (ToSet(p) \union {k})
  BY <1>1, <1>2, <1>4 DEF NeverGot
<1>6. (ToSet(p) \union {k}) \intersect NeverGot(t, p, o, a, {k}) = {} /\ ToSet(p) \union {k} \subseteq o
  BY <1>2 DEF NeverGot
<1>7. IsFiniteSet(ToSet(p) \union {k}) /\ Cardinality(ToSet(p) \union {k}) = Len(p) + 1
  BY <1>2, RisingCount, FS_AddElement
<1> QED BY <1>3, <1>5, <1>6, <1>7 DEF StreamWith

-----------------------------------------------------------------------------
(* The stream of every client, action by action                            *)

\* The stream of c stands still.
Unmoved(c) ==
  /\ taken'[c] = taken[c] /\ queue'[c].pending = queue[c].pending /\ queue'[c].closed = queue[c].closed
  /\ offered'[c] = offered[c] /\ abandoned'[c] = abandoned[c]

\* A client whose stream did not move.
LEMMA UnmovedKeepsStream ==
  ASSUME NEW c \in Clients, StreamOK(c), Unmoved(c), StillDue(c)' = StillDue(c), Settled' = Settled
  PROVE  StreamOK(c)' /\ Lost(c)' = Lost(c)
  BY DEF StreamOK, Lost, Unmoved

\* A client whose stream moved as one of the lemmas above says.
LEMMA StreamMoved ==
  ASSUME NEW c \in Clients, NEW lost,
         StreamWith(taken'[c], queue'[c].pending, offered'[c], abandoned'[c], StillDue(c)', lost),
         offered'[c] \subseteq 1 .. Settled',
         IF queue'[c].closed THEN queue'[c].pending = <<>> ELSE abandoned'[c] = {}
  PROVE  StreamOK(c)' /\ Lost(c)' = lost
  BY DEF StreamOK, Lost, StreamWith

\* Nobody misses anything by the step.
Quiet == \A c \in Clients : Lost(c)' = Lost(c)

\* What is in the stream of a client.
LEMMA StreamShape ==
  ASSUME BaseInv, NEW c \in Clients
  PROVE  /\ taken[c] \in Seq(Nat) /\ queue[c].pending \in Seq(Nat) /\ queue[c].closed \in BOOLEAN
         /\ offered[c] \in SUBSET Nat /\ abandoned[c] \in SUBSET Nat
         /\ Settled \in Nat /\ Read \in Nat
<1>1. Settled \in Nat /\ Read \in Nat
  BY DEF BaseInv, OwnerInv, Settled
<1>2. queue[c] \in [pending : Seq(Nat), closed : BOOLEAN]
  BY DEF BaseInv, ClientShape
<1> QED BY <1>1, <1>2 DEF BaseInv, ClientShape

\* A client joins, reads the history, or moves inside recv without a chunk.
LEMMA StepsWithoutChunk ==
  ASSUME BaseInv, StreamInv, NEW c \in Clients,
         \/ Register(c) \/ ReadHistory(c) \/ Enter(c) \/ Poll(c) \/ Wake(c) \/ CancelRecv(c)
         \/ UNCHANGED fanoutVars
  PROVE  ClientShape' /\ StreamInv' /\ Quiet
<1>1. UNCHANGED <<setup, owner, queue, taken, offered, abandoned>>
  BY DEF Register, ReadHistory, Enter, Poll, Wake, CancelRecv, fanoutVars
<1>2. Settled' = Settled
  BY ClientStepsKeepOwner DEF ClientSteps
<1>3. StreamInv' /\ Quiet
  BY <1>1, <1>2, UnmovedKeepsStream DEF StreamInv, Quiet, Unmoved, StillDue
<1>4. /\ joined' \in SUBSET Clients /\ replayed' \in [Clients -> Seq(Nat)]
  <2>1. history \in Seq(Nat) /\ joined \in SUBSET Clients /\ replayed \in [Clients -> Seq(Nat)]
    BY DEF BaseInv, HistoryInv, ClientShape
  <2> QED BY <2>1 DEF Register, ReadHistory, Enter, Poll, Wake, CancelRecv, fanoutVars
<1>5. reader' \in [Clients -> [pc : {"new", "joined", "out", "armed", "checked", "waiting", "gone"},
                               permit : BOOLEAN, woken : {"no", "one", "all"}]]
  <2>0. reader \in [Clients -> [pc : {"new", "joined", "out", "armed", "checked", "waiting", "gone"},
                                permit : BOOLEAN, woken : {"no", "one", "all"}]]
    BY DEF BaseInv, ClientShape
  <2>1. CASE Register(c)
    BY <2>0, <2>1 DEF Register
  <2>2. CASE ReadHistory(c)
    BY <2>0, <2>2 DEF ReadHistory
  <2>3. CASE Enter(c)
    BY <2>0, <2>3 DEF Enter
  <2>4. CASE Poll(c)
    BY <2>0, <2>4 DEF Poll
  <2>5. CASE Wake(c)
    BY <2>0, <2>5 DEF Wake
  <2>6. CASE CancelRecv(c)
    <3> DEFINE r == reader[c]
               b == r.permit \/ r.woken = "one"
               q == [pc |-> "out", permit |-> b, woken |-> "no"]
    <3>1. b \in BOOLEAN /\ reader' = [reader EXCEPT ![c] = q]
      BY <2>6 DEF CancelRecv
    <3> HIDE DEF b, r
    <3>2. q \in [pc : {"new", "joined", "out", "armed", "checked", "waiting", "gone"},
                 permit : BOOLEAN, woken : {"no", "one", "all"}]
      BY <3>1
    <3> HIDE DEF q
    <3> QED BY <2>0, <3>1, <3>2
  <2>7. CASE UNCHANGED fanoutVars
    BY <2>0, <2>7 DEF fanoutVars
  <2> QED BY <2>1, <2>2, <2>3, <2>4, <2>5, <2>6, <2>7
<1> QED BY <1>1, <1>3, <1>4, <1>5 DEF BaseInv, ClientShape

\* A reader looks into its queue: it takes the head, or nothing moves.
LEMMA InspectKeepsStream ==
  ASSUME BaseInv, StreamInv, NEW c \in Clients, Inspect(c)
  PROVE  ClientShape' /\ StreamInv' /\ Quiet
<1> DEFINE p == queue[c].pending
           t == taken[c]
           o == offered[c]
           a == abandoned[c]
<1>1. UNCHANGED <<setup, joined, owner, offered, abandoned, replayed>>
  BY DEF Inspect
<1>2. Settled' = Settled
  BY ClientStepsKeepOwner DEF ClientSteps
<1>3. t \in Seq(Nat) /\ p \in Seq(Nat) /\ o \in SUBSET Nat /\ a \in SUBSET Nat
  BY StreamShape
<1>4. reader' \in [Clients -> [pc : {"new", "joined", "out", "armed", "checked", "waiting", "gone"},
                               permit : BOOLEAN, woken : {"no", "one", "all"}]]
  <2>1. reader \in [Clients -> [pc : {"new", "joined", "out", "armed", "checked", "waiting", "gone"},
                                permit : BOOLEAN, woken : {"no", "one", "all"}]]
    BY DEF BaseInv, ClientShape
  <2>2. \E x \in {"out", "gone", "checked", "waiting"}, y \in {"no", "one", "all"} :
          reader' = [reader EXCEPT ![c].pc = x, ![c].woken = y]
    BY <2>1 DEF Inspect
  <2>3. PICK x \in {"out", "gone", "checked", "waiting"}, y \in {"no", "one", "all"} :
          reader' = [reader EXCEPT ![c].pc = x, ![c].woken = y]
    BY <2>2
  <2>4. x \in {"new", "joined", "out", "armed", "checked", "waiting", "gone"} /\ y \in {"no", "one", "all"}
    BY <2>3
  <2> QED BY <2>1, <2>3, <2>4
<1>5. CASE p # <<>>
  <2>1. /\ taken' = [taken EXCEPT ![c] = Append(t, Head(p))]
        /\ queue' = [queue EXCEPT ![c].pending = Tail(p)]
    BY <1>5 DEF Inspect
  <2>2. Append(t, Head(p)) \in Seq(Nat) /\ Tail(p) \in Seq(Nat)
    BY <1>3, <1>5
  <2>3. ClientShape'
    <3> DEFINE t2 == Append(t, Head(p))
               p2 == Tail(p)
    <3> HIDE DEF t2, p2
    <3>1. taken' = [taken EXCEPT ![c] = t2] /\ queue' = [queue EXCEPT ![c].pending = p2]
          /\ t2 \in Seq(Nat) /\ p2 \in Seq(Nat)
      BY <2>1, <2>2 DEF t2, p2
    <3> QED BY <1>1, <1>4, <3>1 DEF BaseInv, ClientShape
  <2>4. /\ taken'[c] = Append(t, Head(p)) /\ queue'[c].pending = Tail(p) /\ queue'[c].closed = queue[c].closed
        /\ \A d \in Clients : d # c => Unmoved(d)
    BY <1>1, <2>1 DEF BaseInv, ClientShape, Unmoved
  <2>5. Stream(t, p, o, a, StillDue(c)) /\ o \subseteq 1 .. Settled
        /\ (IF queue[c].closed THEN p = <<>> ELSE a = {})
    BY DEF StreamInv, StreamOK
  <2>6. StreamWith(Append(t, Head(p)), Tail(p), o, a, StillDue(c), Lost(c))
    <3> DEFINE due == StillDue(c)
    <3>1. StreamWith(Append(t, Head(p)), Tail(p), o, a, due, NeverGot(t, p, o, a, due))
      <4> HIDE DEF p, t, o, a, due
      <4>1. Stream(t, p, o, a, due)
        BY <2>5 DEF due
      <4> QED BY <1>3, <1>5, <4>1, TakeKeepsStream
    <3> QED BY <3>1 DEF Lost
  <2>7. StreamOK(c)' /\ Lost(c)' = Lost(c)
    <3>1. StillDue(c)' = StillDue(c)
      BY <1>1 DEF StillDue
    <3> QED BY <1>1, <1>2, <1>5, <2>4, <2>5, <2>6, <3>1, StreamMoved
  <2>8. \A d \in Clients : d # c => StreamOK(d)' /\ Lost(d)' = Lost(d)
    BY <1>1, <1>2, <2>4, UnmovedKeepsStream DEF StreamInv, StillDue
  <2> QED BY <2>3, <2>7, <2>8 DEF StreamInv, Quiet
<1>6. CASE p = <<>>
  <2>1. UNCHANGED <<taken, queue>>
    BY <1>6 DEF Inspect
  <2>2. StreamInv' /\ Quiet
    BY <1>1, <1>2, <2>1, UnmovedKeepsStream DEF StreamInv, Quiet, Unmoved, StillDue
  <2> QED BY <1>1, <1>4, <2>1, <2>2 DEF BaseInv, ClientShape
<1> QED BY <1>5, <1>6

\* A queue closed with all it held given up.
LEMMA GivingUpIsQuiet ==
  ASSUME BaseInv, StreamInv, NEW c \in Clients,
         UNCHANGED <<taken, offered>>, Settled' = Settled,
         \A d \in Clients : StillDue(d)' = StillDue(d),
         \A d \in Clients : d # c => queue'[d] = queue[d] /\ abandoned'[d] = abandoned[d],
         \/ UNCHANGED <<queue, abandoned>>
         \/ /\ ~queue[c].closed /\ queue'[c].pending = <<>> /\ queue'[c].closed = TRUE
            /\ abandoned'[c] = ToSet(queue[c].pending)
  PROVE  StreamInv' /\ Quiet
<1> DEFINE p == queue[c].pending
           t == taken[c]
           o == offered[c]
           a == abandoned[c]
<1>1. \A d \in Clients : d # c => StreamOK(d)' /\ Lost(d)' = Lost(d)
  BY UnmovedKeepsStream DEF StreamInv, Unmoved
<1>2. CASE UNCHANGED <<queue, abandoned>>
  BY <1>1, <1>2, UnmovedKeepsStream DEF StreamInv, Unmoved, Quiet
<1>3. CASE /\ ~queue[c].closed /\ queue'[c].pending = <<>> /\ queue'[c].closed = TRUE
           /\ abandoned'[c] = ToSet(p)
  <2>1. t \in Seq(Nat) /\ p \in Seq(Nat) /\ o \in SUBSET Nat /\ a \in SUBSET Nat
    BY StreamShape
  <2>2. Stream(t, p, o, a, StillDue(c)) /\ o \subseteq 1 .. Settled /\ a = {}
    BY <1>3 DEF StreamInv, StreamOK
  <2> DEFINE due == StillDue(c)
  <2>3. StreamWith(t, <<>>, o, ToSet(p), due, NeverGot(t, p, o, a, due))
    <3> HIDE DEF p, t, o, a, due
    <3>1. Stream(t, p, o, a, due)
      BY <2>2 DEF due
    <3> QED BY <2>1, <2>2, <3>1, GivingUpKeepsStream
  <2>4. StreamWith(taken'[c], queue'[c].pending, offered'[c], abandoned'[c], StillDue(c)', Lost(c))
    BY <1>3, <2>3 DEF Lost
  <2>5. StreamOK(c)' /\ Lost(c)' = Lost(c)
    BY <1>3, <2>2, <2>4, StreamMoved
  <2> QED BY <1>1, <2>5 DEF StreamInv, Quiet
<1> QED BY <1>2, <1>3

\* A client leaves.
LEMMA LeavingKeepsStream ==
  ASSUME BaseInv, StreamInv, NEW c \in Clients, Unregister(c) \/ DropRx(c)
  PROVE  ClientShape' /\ StreamInv' /\ Quiet
<1>0. ClientShape /\ Settled' = Settled
  BY ClientStepsKeepOwner DEF ClientSteps, BaseInv
<1>1. CASE Unregister(c)
  <2>1. Close(c) /\ joined' = joined \ {c} /\ UNCHANGED <<setup, owner, replayed, taken, offered>>
    BY <1>1 DEF Unregister
  <2>2. StreamInv' /\ Quiet
    BY <1>0, <2>1, CloseShape, GivingUpIsQuiet DEF StillDue
  <2> QED BY <1>0, <2>1, <2>2, CloseShape DEF ClientShape
<1>2. CASE DropRx(c)
  <2> DEFINE left == ToSet(queue[c].pending)
  <2>0. left \in SUBSET Nat /\ <<>> \in Seq(Nat)
    BY <1>0, PendingShape, ElementsOf
  <2>1. UNCHANGED <<setup, joined, owner, replayed, taken, offered>> /\ reader' = [reader EXCEPT ![c].pc = "gone"]
    BY <1>2 DEF DropRx
  <2>2. \/ UNCHANGED <<queue, abandoned>>
        \/ /\ ~queue[c].closed
           /\ queue' = [queue EXCEPT ![c] = [pending |-> <<>>, closed |-> TRUE]]
           /\ abandoned' = [abandoned EXCEPT ![c] = left]
    BY <1>2 DEF DropRx
  <2> HIDE DEF left
  <2>3. /\ queue' \in [Clients -> [pending : Seq(Nat), closed : BOOLEAN]]
        /\ abandoned' \in [Clients -> SUBSET Nat]
        /\ \A d \in Clients : d # c => queue'[d] = queue[d] /\ abandoned'[d] = abandoned[d]
        /\ \/ UNCHANGED <<queue, abandoned>>
           \/ /\ ~queue[c].closed /\ queue'[c].pending = <<>> /\ queue'[c].closed = TRUE
              /\ abandoned'[c] = left
    <3>1. CASE UNCHANGED <<queue, abandoned>>
      BY <1>0, <3>1 DEF ClientShape
    <3>2. CASE /\ ~queue[c].closed
               /\ queue' = [queue EXCEPT ![c] = [pending |-> <<>>, closed |-> TRUE]]
               /\ abandoned' = [abandoned EXCEPT ![c] = left]
      <4>1. /\ abandoned' \in [Clients -> SUBSET Nat] /\ abandoned'[c] = left
            /\ \A d \in Clients : d # c => abandoned'[d] = abandoned[d]
        BY <1>0, <2>0, <3>2 DEF ClientShape
      <4>2. /\ queue' \in [Clients -> [pending : Seq(Nat), closed : BOOLEAN]]
            /\ \A d \in Clients : d # c => queue'[d] = queue[d]
            /\ queue'[c] = [pending |-> <<>>, closed |-> TRUE]
        BY <1>0, <2>0, <3>2 DEF ClientShape
      <4>3. queue'[c].pending = <<>> /\ queue'[c].closed = TRUE
        BY <4>2
      <4> QED BY <3>2, <4>1, <4>2, <4>3
    <3> QED BY <2>2, <3>1, <3>2
  <2>4. StreamInv' /\ Quiet
    BY <1>0, <2>1, <2>3, GivingUpIsQuiet DEF StillDue, left
  <2>5. reader' \in [Clients -> [pc : {"new", "joined", "out", "armed", "checked", "waiting", "gone"},
                                 permit : BOOLEAN, woken : {"no", "one", "all"}]]
    BY <1>0, <2>1 DEF ClientShape
  <2> QED BY <1>0, <2>1, <2>3, <2>4, <2>5 DEF ClientShape
<1> QED BY <1>1, <1>2

\* The owner unregisters a dead client.
LEMMA ReapKeepsStream ==
  ASSUME BaseInv, StreamInv, NEW c \in Clients, Reap(c)
  PROVE  ClientShape' /\ StreamInv' /\ Quiet
<1>0. ClientShape /\ OwnerInv /\ Settled' = Settled
  BY ServingSteps DEF BaseInv
<1>1. /\ joined' = joined \ {c} /\ UNCHANGED <<setup, replayed, taken, offered>>
      /\ owner' = [owner EXCEPT !.dead = @ \ {c}]
      /\ Close(c) \/ UNCHANGED <<queue, reader, abandoned>>
  BY DEF Reap
<1>2. \A d \in Clients : StillDue(d)' = StillDue(d)
  BY <1>0, <1>1 DEF StillDue, OwnerInv, OwnerFields
<1>3. CASE Close(c)
  <2>1. StreamInv' /\ Quiet
    BY <1>0, <1>1, <1>2, <1>3, CloseShape, GivingUpIsQuiet
  <2> QED BY <1>0, <1>1, <1>3, <2>1, CloseShape DEF ClientShape
<1>4. CASE UNCHANGED <<queue, reader, abandoned>>
  <2>1. StreamInv' /\ Quiet
    BY <1>0, <1>1, <1>2, <1>4, GivingUpIsQuiet
  <2> QED BY <1>0, <1>1, <1>4, <2>1 DEF ClientShape
<1> QED BY <1>1, <1>3, <1>4

\* Only a snapshot settles a chunk.
LEMMA OwnStepsKeepSettled ==
  ASSUME BaseInv, DeviceRx \/ Count \/ RecordGap \/ Tick
  PROVE  Settled' = Settled
<1>0. OwnerInv /\ OwnerInv'
  BY OwnerSteps DEF BaseInv
<1>1. CASE DeviceRx
  <2>1. owner.pc = "idle" /\ owner'.pc = "recorded" /\ owner'.chunk = Read + 1
    BY <1>0, <1>1 DEF DeviceRx, Read, OwnerInv, OwnerFields
  <2>2. Read' = Read + 1 /\ Read \in Nat
    BY <1>0, <2>1 DEF OwnerInv
  <2> QED BY <2>1, <2>2 DEF Settled
<1>2. CASE Count
  BY <1>0, <1>2 DEF Count, Settled, Read, OwnerInv, OwnerFields
<1>3. CASE RecordGap
  BY <1>0, <1>3, GapKeepsRead DEF RecordGap, Idle, Settled, OwnerInv, OwnerFields
<1>4. CASE Tick
  BY <1>0, <1>4 DEF Tick, Settled, Read, OwnerInv, OwnerFields
<1> QED BY <1>1, <1>2, <1>3, <1>4

\* The owner's own steps: only the snapshot touches what clients are offered.
LEMMA OwnerStepsKeepStream ==
  ASSUME BaseInv, StreamInv, DeviceRx \/ Snapshot \/ Count \/ RecordGap \/ Tick
  PROVE  ClientShape' /\ StreamInv' /\ Quiet
<1>0. ClientShape /\ OwnerInv /\ HistoryInv /\ joined \in SUBSET Clients /\ OwnerInv'
  BY OwnerSteps DEF BaseInv, ClientShape
<1>1. CASE Snapshot
  <2>1. /\ owner.pc = "recorded" /\ owner' = [owner EXCEPT !.pc = "fanout", !.todo = joined]
        /\ offered' = [c \in Clients |-> IF c \in joined THEN offered[c] \union {owner.chunk} ELSE offered[c]]
        /\ UNCHANGED <<setup, joined, queue, reader, ledger, replayed, taken, abandoned>>
    BY <1>1 DEF Snapshot
  <2>2. Read' = Read /\ owner.chunk = Read /\ Settled = Read - 1 /\ Settled' = Read /\ Read \in Nat \ {0}
    BY <1>0, <2>1 DEF Read, Settled, OwnerInv, OwnerFields
  <2>3. ClientShape'
    BY <1>0, <2>1, <2>2 DEF ClientShape
  <2>4. ASSUME NEW c \in Clients
        PROVE  StreamOK(c)' /\ Lost(c)' = Lost(c)
    <3> DEFINE p == queue[c].pending
               t == taken[c]
               o == offered[c]
               a == abandoned[c]
               k == owner.chunk
    <3>1. StillDue(c) = {} /\ StillDue(c)' = IF c \in joined THEN {k} ELSE {}
      BY <1>0, <2>1 DEF StillDue, OwnerInv, OwnerFields
    <3>2. Stream(t, p, o, a, {}) /\ o \subseteq 1 .. Settled
          /\ (IF queue[c].closed THEN p = <<>> ELSE a = {}) /\ Lost(c) = NeverGot(t, p, o, a, {})
      BY <3>1 DEF StreamInv, StreamOK, Lost
    <3>3. t \in Seq(Nat) /\ p \in Seq(Nat) /\ o \in SUBSET Nat /\ a \in SUBSET Nat /\ k \in Nat
      BY <2>2, StreamShape
    <3>4. /\ taken'[c] = t /\ queue'[c].pending = p /\ queue'[c].closed = queue[c].closed /\ abandoned'[c] = a
          /\ offered'[c] = IF c \in joined THEN o \union {k} ELSE o
      BY <2>1
    <3> HIDE DEF p, t, o, a, k
    <3>5. CASE c \in joined
      <4>1. k \notin o
        BY <2>2, <3>2 DEF k
      <4>2. StreamWith(t, p, o \union {k}, a, {k}, NeverGot(t, p, o, a, {}))
        BY <3>2, <3>3, <4>1, OfferKeepsStream
      <4>3. o \union {k} \subseteq 1 .. Settled'
        BY <2>2, <3>2 DEF k
      <4> QED BY <3>1, <3>2, <3>4, <3>5, <4>2, <4>3, StreamMoved
    <3>6. CASE c \notin joined
      <4>1. StreamWith(t, p, o, a, {}, NeverGot(t, p, o, a, {}))
        BY <3>2 DEF StreamWith
      <4>2. o \subseteq 1 .. Settled'
        BY <2>2, <3>2
      <4> QED BY <3>1, <3>2, <3>4, <3>6, <4>1, <4>2, StreamMoved
    <3> QED BY <3>5, <3>6
  <2> QED BY <2>3, <2>4 DEF StreamInv, Quiet
<1>2. CASE DeviceRx \/ Count \/ RecordGap \/ Tick
  <2>1. UNCHANGED <<setup, joined, queue, reader, replayed, taken, offered, abandoned>>
    BY <1>2 DEF DeviceRx, Count, RecordGap, Tick
  <2>2. \A c \in Clients : StillDue(c)' = StillDue(c)
    <3>1. CASE DeviceRx
      BY <1>0, <3>1 DEF DeviceRx, StillDue, OwnerInv, OwnerFields
    <3>2. CASE Count
      BY <1>0, <3>2 DEF Count, StillDue, OwnerInv, OwnerFields
    <3>3. CASE RecordGap
      BY <1>0, <3>3 DEF RecordGap, Idle, StillDue, OwnerInv, OwnerFields
    <3>4. CASE Tick
      BY <1>0, <3>4 DEF Tick, StillDue, OwnerInv, OwnerFields
    <3> QED BY <1>2, <3>1, <3>2, <3>3, <3>4
  <2>3. Settled' = Settled
    BY <1>2, OwnStepsKeepSettled
  <2>4. StreamInv' /\ Quiet
    BY <2>1, <2>2, <2>3, UnmovedKeepsStream DEF StreamInv, Quiet, Unmoved
  <2> QED BY <1>0, <2>1, <2>4 DEF ClientShape
<1> QED BY <1>1, <1>2

\* Client c misses the chunks `lost', which are counted and c named.
Losing(c, lost) ==
  /\ Lost(c)' = Lost(c) \union lost /\ lost # {} /\ lost \intersect Lost(c) = {}
  /\ IsFiniteSet(lost) /\ Cardinality(lost) \in Nat
  /\ \A d \in Clients : d # c => Lost(d)' = Lost(d)
  /\ owner'.dropped = owner.dropped + Cardinality(lost) /\ owner'.gaps = owner.gaps \union {c}

\* A recipient is served: nothing is missed, or what is missed is counted and named.
LEMMA ServingKeepsStream ==
  ASSUME BaseInv, StreamInv, NEW c \in Clients, Enqueue(c) \/ BlockEnds(c) \/ BlockTimesOut(c)
  PROVE  /\ ClientShape' /\ StreamInv'
         /\ \/ Quiet /\ owner'.dropped = owner.dropped /\ owner'.gaps = owner.gaps
            \/ \E lost \in SUBSET Chunk : Losing(c, lost)
<1> DEFINE p == queue[c].pending
           t == taken[c]
           o == offered[c]
           a == abandoned[c]
           k == owner.chunk
<1>0. OwnerInv /\ ClientShape /\ Settled' = Settled /\ owner.dropped \in Nat
  BY ServingSteps DEF BaseInv, OwnerInv
<1>1. /\ c \in owner.todo /\ owner.pc \in {"fanout", "blocked"}
      /\ UNCHANGED <<setup, joined, ledger, drops, history, replayed, taken, offered>>
  BY <1>0, ServeCases
<1>2. /\ k = Read /\ Settled = k /\ k \in Nat /\ StillDue(c) = {k} /\ k \in 1 .. Chunks
  BY <1>0, <1>1, FanoutAssumption DEF OwnerInv, Settled, StillDue
<1>3. /\ t \in Seq(Nat) /\ p \in Seq(Nat) /\ o \in SUBSET Nat /\ a \in SUBSET Nat /\ Len(p) \in Nat
      /\ Stream(t, p, o, a, {k}) /\ o \in SUBSET (1 .. k) /\ o \subseteq Chunk
      /\ (IF queue[c].closed THEN p = <<>> ELSE a = {}) /\ Lost(c) = NeverGot(t, p, o, a, {k})
  <2>1. t \in Seq(Nat) /\ p \in Seq(Nat) /\ o \in SUBSET Nat /\ a \in SUBSET Nat
    BY StreamShape
  <2>2. Stream(t, p, o, a, {k}) /\ o \in SUBSET (1 .. k) /\ Lost(c) = NeverGot(t, p, o, a, {k})
        /\ (IF queue[c].closed THEN p = <<>> ELSE a = {})
    BY <1>2 DEF StreamInv, StreamOK, Lost
  <2>3. 1 .. k \subseteq Chunk
    BY <1>2, FanoutAssumption DEF Chunk
  <2>4. Len(p) \in Nat
    BY <2>1
  <2> QED BY <2>1, <2>2, <2>3, <2>4
<1>4. /\ taken' = taken /\ offered' = offered /\ taken'[c] = t /\ offered'[c] = o
      /\ o \subseteq 1 .. Settled'
  BY <1>0, <1>1, <1>2, <1>3
\* The others are as they were.
<1>5. ASSUME NEW missed, NEW gaps, NEW dead, Notes(c, missed, gaps, dead),
             \A d \in Clients : d # c => /\ queue'[d].pending = queue[d].pending
                                         /\ queue'[d].closed = queue[d].closed
                                         /\ abandoned'[d] = abandoned[d]
      PROVE  /\ StillDue(c)' = {}
             /\ \A d \in Clients : d # c => StreamOK(d)' /\ Lost(d)' = Lost(d)
  <2>1. StillDue(c)' = {} /\ \A d \in Clients : d # c => StillDue(d)' = StillDue(d)
    BY <1>5 DEF Notes, StillDue
  <2> QED BY <1>0, <1>4, <1>5, <2>1, UnmovedKeepsStream DEF StreamInv, Unmoved
<1> HIDE DEF p, t, o, a, k
<1>6. CASE /\ queue[c].closed /\ UNCHANGED <<queue, reader>> /\ Notes(c, 0, {}, {c})
           /\ abandoned' = [abandoned EXCEPT ![c] = @ \union {owner.chunk}]
  <2>1. /\ abandoned' \in [Clients -> SUBSET Nat] /\ abandoned'[c] = a \union {k}
        /\ \A d \in Clients : d # c => abandoned'[d] = abandoned[d]
    BY <1>0, <1>2, <1>6 DEF ClientShape, a, k
  <2>2. StillDue(c)' = {} /\ \A d \in Clients : d # c => StreamOK(d)' /\ Lost(d)' = Lost(d)
    BY <1>5, <1>6, <2>1
  <2>3. StreamWith(t, p, o, a \union {k}, {}, Lost(c))
    BY <1>3, ClosedKeepsStream
  <2>4. StreamOK(c)' /\ Lost(c)' = Lost(c)
    BY <1>3, <1>4, <1>6, <2>1, <2>2, <2>3, StreamMoved DEF p
  <2>5. ClientShape'
    BY <1>0, <1>1, <1>6, <2>1 DEF ClientShape
  <2>6. owner'.dropped = owner.dropped /\ owner'.gaps = owner.gaps
    BY <1>0, <1>6 DEF Notes
  <2> QED BY <2>2, <2>4, <2>5, <2>6 DEF StreamInv, Quiet
<1>7. CASE /\ ~queue[c].closed /\ ~Full(c) /\ Push(c, queue[c].pending) /\ UNCHANGED abandoned
           /\ Notes(c, 0, {}, {})
  <2>1. /\ queue' \in [Clients -> [pending : Seq(Nat), closed : BOOLEAN]]
        /\ reader' \in [Clients -> [pc : {"new", "joined", "out", "armed", "checked", "waiting", "gone"},
                                    permit : BOOLEAN, woken : {"no", "one", "all"}]]
        /\ \A d \in Clients : /\ queue'[d].closed = queue[d].closed
                              /\ d # c => queue'[d].pending = queue[d].pending
        /\ queue'[c].pending = Append(p, k)
    BY <1>0, <1>2, <1>3, <1>7, PushShape DEF p, k
  <2>2. StillDue(c)' = {} /\ \A d \in Clients : d # c => StreamOK(d)' /\ Lost(d)' = Lost(d)
    BY <1>5, <1>7, <2>1
  <2>3. StreamWith(t, Append(p, k), o, a, {}, Lost(c))
    <3>1. Len(p) < Capacity
      BY <1>3, <1>7, FanoutAssumption DEF Full, p
    <3> QED BY <1>2, <1>3, <3>1, PushKeepsStream
  <2>4. StreamOK(c)' /\ Lost(c)' = Lost(c)
    BY <1>3, <1>4, <1>7, <2>1, <2>2, <2>3, StreamMoved DEF a
  <2>5. ClientShape'
    BY <1>0, <1>1, <1>7, <2>1 DEF ClientShape
  <2>6. owner'.dropped = owner.dropped /\ owner'.gaps = owner.gaps
    BY <1>0, <1>7 DEF Notes
  <2> QED BY <2>2, <2>4, <2>5, <2>6 DEF StreamInv, Quiet
<1>8. CASE /\ ~queue[c].closed /\ Full(c) /\ Push(c, Tail(queue[c].pending)) /\ UNCHANGED abandoned
           /\ Notes(c, 1, {c}, {})
  <2>0. Len(p) >= Capacity /\ p # <<>> /\ Tail(p) \in Seq(Nat) /\ a = {}
    BY <1>3, <1>8, FanoutAssumption DEF Full, p
  <2>1. /\ queue' \in [Clients -> [pending : Seq(Nat), closed : BOOLEAN]]
        /\ reader' \in [Clients -> [pc : {"new", "joined", "out", "armed", "checked", "waiting", "gone"},
                                    permit : BOOLEAN, woken : {"no", "one", "all"}]]
        /\ \A d \in Clients : /\ queue'[d].closed = queue[d].closed
                              /\ d # c => queue'[d].pending = queue[d].pending
        /\ queue'[c].pending = Append(Tail(p), k)
    BY <1>0, <1>2, <1>8, <2>0, PushShape DEF p, k
  <2>2. StillDue(c)' = {} /\ \A d \in Clients : d # c => StreamOK(d)' /\ Lost(d)' = Lost(d)
    BY <1>5, <1>8, <2>1
  <2> DEFINE lost == {Head(p)}
  <2>3. /\ StreamWith(t, Append(Tail(p), k), o, a, {}, Lost(c) \union lost)
        /\ Head(p) \in o /\ Head(p) \notin Lost(c)
    <3> DEFINE before == NeverGot(t, p, o, a, {k})
    <3>1. /\ StreamWith(t, Append(Tail(p), k), o, a, {}, before \union {Head(p)})
          /\ Head(p) \in o /\ Head(p) \notin before
      BY <1>2, <1>3, <2>0, EvictingKeepsStream
    <3>2. Lost(c) = before
      BY <1>3
    <3> HIDE DEF before
    <3> QED BY <3>1, <3>2
  <2>4. StreamOK(c)' /\ Lost(c)' = Lost(c) \union lost
    <3> DEFINE all == Lost(c) \union lost
    <3>1. StreamWith(t, Append(Tail(p), k), o, a, {}, all)
      BY <2>3
    <3> HIDE DEF all
    <3>2. StreamOK(c)' /\ Lost(c)' = all
      BY <1>3, <1>4, <1>8, <2>1, <2>2, <3>1, StreamMoved DEF a
    <3> QED BY <3>2 DEF all
  <2>5. ClientShape'
    BY <1>0, <1>1, <1>8, <2>1 DEF ClientShape
  <2>6. owner'.dropped = owner.dropped + 1 /\ owner'.gaps = owner.gaps \union {c}
    BY <1>8 DEF Notes
  <2>7. IsFiniteSet(lost) /\ Cardinality(lost) = 1 /\ lost # {} /\ lost \intersect Lost(c) = {}
    BY <2>3, FS_Singleton
  <2>8. lost \in SUBSET Chunk
    BY <1>3, <2>3
  <2>9. Losing(c, lost)
    <3> HIDE DEF lost
    <3> QED BY <2>2, <2>4, <2>6, <2>7 DEF Losing
  <2> HIDE DEF lost
  <2> QED BY <2>2, <2>4, <2>5, <2>8, <2>9 DEF StreamInv
<1>9. CASE /\ ~queue[c].closed /\ Full(c) /\ UNCHANGED <<queue, reader, abandoned>>
           /\ Notes(c, 1, {c}, {})
  <2>2. StillDue(c)' = {} /\ \A d \in Clients : d # c => StreamOK(d)' /\ Lost(d)' = Lost(d)
    BY <1>5, <1>9
  <2> DEFINE lost == {k}
  <2>3. StreamWith(t, p, o, a, {}, Lost(c) \union lost) /\ k \in o /\ k \notin Lost(c)
    <3> DEFINE before == NeverGot(t, p, o, a, {k})
    <3>1. StreamWith(t, p, o, a, {}, before \union {k}) /\ k \in o /\ k \notin before
      BY <1>3, DroppingKeepsStream
    <3>2. Lost(c) = before
      BY <1>3
    <3> HIDE DEF before
    <3> QED BY <3>1, <3>2
  <2>4. StreamOK(c)' /\ Lost(c)' = Lost(c) \union lost
    <3> DEFINE all == Lost(c) \union lost
    <3>1. StreamWith(t, p, o, a, {}, all)
      BY <2>3
    <3> HIDE DEF all
    <3>2. StreamOK(c)' /\ Lost(c)' = all
      BY <1>3, <1>4, <1>9, <2>2, <3>1, StreamMoved DEF a, p
    <3> QED BY <3>2 DEF all
  <2>5. ClientShape'
    BY <1>0, <1>1, <1>9 DEF ClientShape
  <2>6. owner'.dropped = owner.dropped + 1 /\ owner'.gaps = owner.gaps \union {c}
    BY <1>9 DEF Notes
  <2>7. IsFiniteSet(lost) /\ Cardinality(lost) = 1 /\ lost # {} /\ lost \intersect Lost(c) = {}
    BY <2>3, FS_Singleton
  <2>8. lost \in SUBSET Chunk
    BY <1>3, <2>3
  <2>9. Losing(c, lost)
    <3> HIDE DEF lost
    <3> QED BY <2>2, <2>4, <2>6, <2>7 DEF Losing
  <2> HIDE DEF lost
  <2> QED BY <2>2, <2>4, <2>5, <2>8, <2>9 DEF StreamInv
<1>10. CASE /\ ~queue[c].closed /\ Full(c) /\ Shut(c) /\ UNCHANGED abandoned
            /\ Notes(c, Len(queue[c].pending) + 1, {c}, {c})
  <2>1. /\ queue' \in [Clients -> [pending : Seq(Nat), closed : BOOLEAN]]
        /\ reader' \in [Clients -> [pc : {"new", "joined", "out", "armed", "checked", "waiting", "gone"},
                                    permit : BOOLEAN, woken : {"no", "one", "all"}]]
        /\ \A d \in Clients : d # c => queue'[d] = queue[d]
        /\ queue'[c].pending = <<>> /\ queue'[c].closed = TRUE
    BY <1>0, <1>10, ShutShape
  <2>2. StillDue(c)' = {} /\ \A d \in Clients : d # c => StreamOK(d)' /\ Lost(d)' = Lost(d)
    BY <1>5, <1>10, <2>1
  <2> DEFINE lost == ToSet(p) \union {k}
  <2>3. /\ StreamWith(t, <<>>, o, a, {}, Lost(c) \union lost)
        /\ lost \subseteq o /\ lost \intersect Lost(c) = {}
        /\ IsFiniteSet(lost) /\ Cardinality(lost) = Len(p) + 1
    <3>1. a = {}
      BY <1>3, <1>10
    <3> DEFINE before == NeverGot(t, p, o, a, {k})
    <3>2. /\ StreamWith(t, <<>>, o, a, {}, before \union (ToSet(p) \union {k}))
          /\ ToSet(p) \union {k} \subseteq o /\ (ToSet(p) \union {k}) \intersect before = {}
          /\ IsFiniteSet(ToSet(p) \union {k}) /\ Cardinality(ToSet(p) \union {k}) = Len(p) + 1
      BY <1>2, <1>3, <3>1, ShuttingKeepsStream
    <3>3. Lost(c) = before
      BY <1>3
    <3> HIDE DEF before
    <3> QED BY <3>2, <3>3
  <2>4. StreamOK(c)' /\ Lost(c)' = Lost(c) \union lost
    <3> DEFINE all == Lost(c) \union lost
    <3>1. StreamWith(t, <<>>, o, a, {}, all)
      BY <2>3
    <3> HIDE DEF all
    <3>2. StreamOK(c)' /\ Lost(c)' = all
      BY <1>3, <1>4, <1>10, <2>1, <2>2, <3>1, StreamMoved DEF a
    <3> QED BY <3>2 DEF all
  <2>5. ClientShape'
    BY <1>0, <1>1, <1>10, <2>1 DEF ClientShape
  <2>6. owner'.dropped = owner.dropped + (Len(p) + 1) /\ owner'.gaps = owner.gaps \union {c}
    BY <1>10 DEF Notes, p
  <2>7. lost # {} /\ Len(p) + 1 \in Nat
    BY <1>3
  <2>8. lost \in SUBSET Chunk
    BY <1>3, <2>3
  <2>9. Losing(c, lost)
    <3> HIDE DEF lost
    <3> QED BY <2>2, <2>3, <2>4, <2>6, <2>7 DEF Losing
  <2> HIDE DEF lost
  <2> QED BY <2>2, <2>4, <2>5, <2>8, <2>9 DEF StreamInv
<1>11. CASE /\ owner.pc = "fanout" /\ UNCHANGED <<queue, reader, abandoned>>
            /\ owner' = [owner EXCEPT !.pc = "blocked", !.blockedOn = {c},
                                      !.until = owner.elapsed + Remaining]
  <2> DEFINE until == owner.elapsed + Remaining
  <2>1. owner' = [owner EXCEPT !.pc = "blocked", !.blockedOn = {c}, !.until = until]
    BY <1>11
  <2> HIDE DEF until
  <2>2. /\ owner'.todo = owner.todo /\ owner'.chunk = owner.chunk
        /\ owner'.dropped = owner.dropped /\ owner'.gaps = owner.gaps
    BY <1>0, <2>1 DEF OwnerInv, OwnerFields
  <2>3. \A d \in Clients : StillDue(d)' = StillDue(d)
    BY <2>2 DEF StillDue
  <2>4. StreamInv' /\ Quiet
    BY <1>0, <1>4, <1>11, <2>3, UnmovedKeepsStream DEF StreamInv, Quiet, Unmoved
  <2> QED BY <1>0, <1>1, <1>11, <2>2, <2>4 DEF ClientShape
<1> QED BY <1>0, <1>6, <1>7, <1>8, <1>9, <1>10, <1>11, ServeCases

-----------------------------------------------------------------------------
(* Nothing between the history and the queue                               *)

\* Nobody's offers, history or place moved, but for readers that went on and clients that left.
LEMMA JoinFrame ==
  ASSUME JoinInv, UNCHANGED <<offered, replayed>>, Settled' = Settled, joined' \subseteq joined,
         \A c \in Clients : reader'[c].pc \in {"new", "joined"} => reader[c].pc = reader'[c].pc
  PROVE  JoinInv'
<1>1. ASSUME NEW c \in Clients
      PROVE  JoinOK(c)'
  <2>1. JoinOK(c) /\ Seen(c)' = Seen(c)
    BY DEF JoinInv, Seen
  <2>2. reader'[c].pc = "new" => c \notin joined' /\ offered'[c] = {}
    BY <2>1 DEF JoinOK
  <2>3. reader'[c].pc \in {"new", "joined"} => replayed'[c] = <<>>
    BY <2>1 DEF JoinOK
  <2>4. c \in joined' => \E first \in 1 .. Settled + 1 : Seen(c)' = first .. Settled
    BY <2>1 DEF JoinOK
  <2> QED BY <2>2, <2>3, <2>4 DEF JoinOK
<1> QED BY <1>1 DEF JoinInv

\* Serving moves no reader.
LEMMA ServingKeepsPlaces ==
  ASSUME BaseInv, NEW c \in Clients, Enqueue(c) \/ BlockEnds(c) \/ BlockTimesOut(c)
  PROVE  \A d \in Clients : reader'[d].pc = reader[d].pc
<1>0. OwnerInv /\ ClientShape
  BY DEF BaseInv
<1>1. owner.chunk \in Nat /\ queue[c].pending \in Seq(Nat)
  <2>1. owner.pc \in {"fanout", "blocked"} /\ queue[c].pending \in Seq(Nat)
    BY <1>0, ServeCases, PendingShape
  <2> QED BY <1>0, <2>1 DEF OwnerInv
<1>2. CASE UNCHANGED reader
  BY <1>2
<1>3. CASE Push(c, queue[c].pending)
  BY <1>0, <1>1, <1>3, PushShape
<1>4. CASE Full(c) /\ Push(c, Tail(queue[c].pending))
  <2>1. Tail(queue[c].pending) \in Seq(Nat)
    BY <1>1, <1>4, FanoutAssumption DEF Full
  <2> QED BY <1>0, <1>1, <1>4, <2>1, PushShape
<1>5. CASE Shut(c)
  BY <1>0, <1>5, ShutShape
<1> QED BY <1>0, <1>2, <1>3, <1>4, <1>5, ServeCases

\* The ring as a set.
LEMMA HistoryIsRecent ==
  ASSUME BaseInv
  PROVE  \E first \in 1 .. Settled + 1 : ToSet(history) = first .. Settled
<1>1. /\ history \in Seq(Nat) /\ Len(history) <= Settled /\ Settled \in Nat /\ Len(history) \in Nat
      /\ \A i \in 1 .. Len(history) : history[i] = Settled - Len(history) + i
  <2>1. Settled \in Nat
    <3>1. Read \in Nat /\ (owner.pc = "recorded" => Read >= 1)
      BY DEF BaseInv, OwnerInv
    <3> QED BY <3>1 DEF Settled
  <2>2. HistoryInv
    BY DEF BaseInv
  <2> QED BY <2>1, <2>2 DEF HistoryInv
<1> DEFINE n == Len(history)
           first == Settled - n + 1
<1>2. ToSet(history) = {history[i] : i \in 1 .. n}
  BY <1>1, ElementsOf
<1>3. \A i \in 1 .. n : history[i] \in first .. Settled
  BY <1>1
<1>4. \A k \in first .. Settled : k - (Settled - n) \in 1 .. n /\ history[k - (Settled - n)] = k
  BY <1>1
<1>5. ToSet(history) = first .. Settled
  <2> HIDE DEF n, first
  <2> QED BY <1>2, <1>3, <1>4
<1>6. first \in 1 .. Settled + 1
  BY <1>1
<1> QED BY <1>5, <1>6

\* Two runs of chunks that end together are one.
LEMMA RunsMeet ==
  ASSUME NEW last \in Nat, NEW i \in 1 .. last + 1, NEW j \in 1 .. last + 1
  PROVE  \E first \in 1 .. last + 1 : (i .. last) \union (j .. last) = first .. last
<1>1. CASE i <= j
  <2>1. (i .. last) \union (j .. last) = i .. last
    BY <1>1
  <2> QED BY <2>1
<1>2. CASE j <= i
  <2>1. (i .. last) \union (j .. last) = j .. last
    BY <1>2
  <2> QED BY <2>1
<1> QED BY <1>1, <1>2

\* A client's first chunk is the oldest it replayed or the first it was offered.
LEMMA JoinNext ==
  ASSUME BaseInv, JoinInv, [Next]_fanoutVars
  PROVE  JoinInv'
<1>0. /\ ClientShape /\ HistoryInv /\ OwnerInv /\ history \in Seq(Nat) /\ Settled \in Nat /\ Read \in Nat
      /\ joined \in SUBSET Clients /\ offered \in [Clients -> SUBSET Nat] /\ replayed \in [Clients -> Seq(Nat)]
  BY DEF BaseInv, ClientShape, HistoryInv, OwnerInv, Settled
<1>1. ASSUME NEW c \in Clients, Register(c)
      PROVE  JoinInv'
  <2>1. /\ reader[c].pc = "new" /\ joined' = joined \union {c} /\ UNCHANGED <<offered, replayed>>
        /\ reader' = [reader EXCEPT ![c].pc = "joined"]
    BY <1>1 DEF Register
  <2>2. Settled' = Settled
    BY <1>1, ClientStepsKeepOwner DEF ClientSteps
  <2>3. /\ reader'[c].pc = "joined" /\ \A d \in Clients : d # c => reader'[d] = reader[d]
    BY <1>0, <2>1 DEF ClientShape
  <2>4. JoinOK(c)'
    <3>1. offered[c] = {} /\ replayed[c] = <<>>
      BY <2>1 DEF JoinInv, JoinOK
    <3>2. Seen(c)' = {}
      <4>1. ToSet(<<>>) = {}
        BY DEF ToSet
      <4> QED BY <2>1, <3>1, <4>1 DEF Seen
    <3>3. Settled + 1 \in 1 .. Settled + 1 /\ {} = (Settled + 1) .. Settled
      BY <1>0
    <3> QED BY <2>1, <2>2, <2>3, <3>1, <3>2, <3>3 DEF JoinOK
  <2>5. ASSUME NEW d \in Clients, d # c
        PROVE  JoinOK(d)'
    <3>1. JoinOK(d) /\ Seen(d)' = Seen(d)
      BY <2>1 DEF JoinInv, Seen
    <3> QED BY <2>1, <2>2, <2>3, <2>5, <3>1 DEF JoinOK
  <2> QED BY <2>4, <2>5 DEF JoinInv
<1>2. ASSUME NEW c \in Clients, ReadHistory(c)
      PROVE  JoinInv'
  <2>1. /\ reader[c].pc = "joined" /\ UNCHANGED <<joined, offered>>
        /\ replayed' = replayed \/ replayed' = [replayed EXCEPT ![c] = history]
        /\ reader' = [reader EXCEPT ![c].pc = "out"]
    BY <1>2 DEF ReadHistory
  <2>2. Settled' = Settled
    BY <1>2, ClientStepsKeepOwner DEF ClientSteps
  <2>3. reader'[c].pc = "out" /\ \A d \in Clients : d # c => reader'[d] = reader[d]
    BY <1>0, <2>1 DEF ClientShape
  <2>4. \A d \in Clients : d # c => replayed'[d] = replayed[d]
    BY <1>0, <2>1
  <2>5. JoinOK(c)'
    <3>1. replayed[c] = <<>> /\ ToSet(<<>>) = {}
      BY <1>0, <2>1, ElementsOf DEF JoinInv, JoinOK
    <3>2. ASSUME c \in joined
          PROVE  \E first \in 1 .. Settled + 1 : Seen(c)' = first .. Settled
      <4>1. PICK i \in 1 .. Settled + 1 : offered[c] = i .. Settled
        BY <3>1, <3>2 DEF JoinInv, JoinOK, Seen
      <4>2. PICK j \in 1 .. Settled + 1 : ToSet(history) = j .. Settled
        BY HistoryIsRecent
      <4>3. ToSet(replayed'[c]) = {} \/ ToSet(replayed'[c]) = j .. Settled
        BY <1>0, <2>1, <3>1, <4>2
      <4>4. Seen(c)' = i .. Settled \/ Seen(c)' = (j .. Settled) \union (i .. Settled)
        BY <2>1, <4>1, <4>3 DEF Seen
      <4>5. CASE Seen(c)' = i .. Settled
        BY <4>5
      <4>6. CASE Seen(c)' = (j .. Settled) \union (i .. Settled)
        <5>1. PICK first \in 1 .. Settled + 1 : (j .. Settled) \union (i .. Settled) = first .. Settled
          BY <1>0, RunsMeet
        <5> QED BY <4>6, <5>1
      <4> QED BY <4>4, <4>5, <4>6
    <3> QED BY <2>1, <2>2, <2>3, <3>2 DEF JoinOK
  <2>6. ASSUME NEW d \in Clients, d # c
        PROVE  JoinOK(d)'
    <3>1. JoinOK(d) /\ Seen(d)' = Seen(d)
      BY <2>1, <2>4, <2>6 DEF JoinInv, Seen
    <3> QED BY <2>1, <2>2, <2>3, <2>4, <2>6, <3>1 DEF JoinOK
  <2> QED BY <2>5, <2>6 DEF JoinInv
<1>3. CASE Snapshot
  <2>1. /\ owner.pc = "recorded" /\ owner' = [owner EXCEPT !.pc = "fanout", !.todo = joined]
        /\ offered' = [c \in Clients |-> IF c \in joined THEN offered[c] \union {owner.chunk} ELSE offered[c]]
        /\ UNCHANGED <<joined, reader, ledger, replayed>>
    BY <1>3 DEF Snapshot
  <2>2. owner.chunk = Settled + 1 /\ Settled' = Settled + 1
    BY <1>0, <2>1 DEF Read, Settled, OwnerInv, OwnerFields
  <2>3. ASSUME NEW c \in Clients
        PROVE  JoinOK(c)'
    <3>1. JoinOK(c)
      BY DEF JoinInv
    <3>2. ASSUME c \in joined
          PROVE  \E first \in 1 .. (Settled + 1) + 1 : Seen(c)' = first .. (Settled + 1)
      <4>1. PICK i \in 1 .. Settled + 1 : Seen(c) = i .. Settled
        BY <3>1, <3>2 DEF JoinOK
      <4>2. Seen(c)' = Seen(c) \union {Settled + 1}
        BY <2>1, <2>2, <3>2 DEF Seen
      <4>3. (i .. Settled) \union {Settled + 1} = i .. (Settled + 1) /\ i \in 1 .. (Settled + 1) + 1
        BY <1>0
      <4> QED BY <4>1, <4>2, <4>3
    <3> QED BY <2>1, <2>2, <3>1, <3>2 DEF JoinOK
  <2> QED BY <2>3 DEF JoinInv
<1>4. CASE DeviceRx \/ Count \/ RecordGap \/ Tick
  <2>1. UNCHANGED <<joined, reader, replayed, offered>>
    BY <1>4 DEF DeviceRx, Count, RecordGap, Tick
  <2> QED BY <1>4, <2>1, OwnStepsKeepSettled, JoinFrame
<1>5. ASSUME NEW c \in Clients, Enqueue(c) \/ BlockEnds(c) \/ BlockTimesOut(c)
      PROVE  JoinInv'
  <2>1. UNCHANGED <<joined, replayed, offered>>
    BY <1>5 DEF Enqueue, BlockEnds, BlockTimesOut
  <2>2. Settled' = Settled /\ \A d \in Clients : reader'[d].pc = reader[d].pc
    BY <1>5, ServingSteps, ServingKeepsPlaces
  <2> QED BY <2>1, <2>2, JoinFrame
<1>6. ASSUME NEW c \in Clients, Unregister(c) \/ Reap(c)
      PROVE  JoinInv'
  <2>1. UNCHANGED <<replayed, offered>> /\ joined' \subseteq joined /\ (Close(c) \/ UNCHANGED reader)
    BY <1>6 DEF Unregister, Reap
  <2>2. Settled' = Settled
    BY <1>6, ServingSteps, ClientStepsKeepOwner DEF ClientSteps
  <2>3. \A d \in Clients : reader'[d].pc = reader[d].pc
    BY <1>0, <2>1, CloseShape
  <2> QED BY <2>1, <2>2, <2>3, JoinFrame
<1>7. ASSUME NEW c \in Clients, DropRx(c) \/ Enter(c) \/ Inspect(c) \/ Poll(c) \/ Wake(c) \/ CancelRecv(c)
      PROVE  JoinInv'
  <2>1. UNCHANGED <<joined, replayed, offered>>
    BY <1>7 DEF DropRx, Enter, Inspect, Poll, Wake, CancelRecv
  <2>2. Settled' = Settled
    BY <1>7, ClientStepsKeepOwner DEF ClientSteps
  <2>3. \A d \in Clients : reader'[d].pc \in {"new", "joined"} => reader[d].pc = reader'[d].pc
    <3>0. DOMAIN reader = Clients /\ DOMAIN reader[c] = {"pc", "permit", "woken"}
      <4>1. reader[c] \in [pc : {"new", "joined", "out", "armed", "checked", "waiting", "gone"},
                           permit : BOOLEAN, woken : {"no", "one", "all"}]
        BY <1>0 DEF ClientShape
      <4> QED BY <1>0, <4>1 DEF ClientShape
    <3>1. CASE DropRx(c)
      BY <3>0, <3>1 DEF DropRx
    <3>2. CASE Inspect(c)
      <4>1. \E x \in {"out", "gone", "checked", "waiting"} : \E y : reader' = [reader EXCEPT ![c].pc = x, ![c].woken = y]
        BY <3>2 DEF Inspect
      <4> QED BY <3>0, <4>1
    <3>3. CASE Poll(c)
      BY <3>0, <3>3 DEF Poll
    <3>4. CASE CancelRecv(c)
      BY <3>0, <3>4 DEF CancelRecv
    <3>5. CASE Enter(c) \/ Wake(c)
      BY <3>0, <3>5 DEF Enter, Wake
    <3> QED BY <1>7, <3>1, <3>2, <3>3, <3>4, <3>5
  <2> QED BY <2>1, <2>2, <2>3, JoinFrame
<1>8. CASE UNCHANGED fanoutVars
  <2>1. Settled' = Settled
    BY <1>8 DEF fanoutVars, Settled, Read
  <2> QED BY <1>8, <2>1, JoinFrame DEF fanoutVars
<1> QED BY <1>1, <1>2, <1>3, <1>4, <1>5, <1>6, <1>7, <1>8 DEF Next

-----------------------------------------------------------------------------
(* Drops and gaps                                                          *)

\* The gaps of a longer ledger.
LEMMA GapsAppend ==
  ASSUME ledger \in Seq(LedgerEvent), NEW e \in LedgerEvent, ledger' = Append(ledger, e)
  PROVE  /\ e.type = "gap" => Gaps' = Gaps \union {e}
         /\ e.type # "gap" => Gaps' = Gaps
<1> DEFINE n == Len(ledger)
           gap == {j \in DOMAIN ledger : ledger[j].type = "gap"}
<1>1. /\ n \in Nat /\ DOMAIN ledger = 1 .. n /\ DOMAIN ledger' = 1 .. n + 1
      /\ \A i \in 1 .. n : ledger'[i] = ledger[i]
      /\ ledger'[n + 1] = e
  OBVIOUS
<1>2. Gaps = {ledger[i] : i \in gap}
  BY DEF Gaps
<1>3. ASSUME e.type = "gap"
      PROVE  Gaps' = Gaps \union {e}
  <2>1. {j \in DOMAIN ledger' : ledger'[j].type = "gap"} = gap \union {n + 1}
    BY <1>1, <1>3
  <2>2. Gaps' = {ledger'[i] : i \in gap \union {n + 1}}
    BY <2>1 DEF Gaps
  <2>3. \A i \in gap : ledger'[i] = ledger[i]
    BY <1>1
  <2> HIDE DEF gap
  <2> QED BY <1>1, <1>2, <2>2, <2>3
<1>4. ASSUME e.type # "gap"
      PROVE  Gaps' = Gaps
  <2>1. {j \in DOMAIN ledger' : ledger'[j].type = "gap"} = gap
    BY <1>1, <1>4
  <2>2. Gaps' = {ledger'[i] : i \in gap}
    BY <2>1 DEF Gaps
  <2>3. \A i \in gap : ledger'[i] = ledger[i]
    BY <1>1
  <2> HIDE DEF gap
  <2> QED BY <1>2, <2>2, <2>3
<1> QED BY <1>3, <1>4

\* What is missed was offered, so it is no later than the last chunk settled.
LEMMA LostWasOffered ==
  ASSUME StreamInv, NEW c \in Clients
  PROVE  Lost(c) \subseteq 1 .. Settled
  BY DEF StreamInv, StreamOK, Lost, NeverGot

\* Nothing was missed, and nothing was named.
LEMMA QuietKeepsGaps ==
  ASSUME GapInv, Quiet, owner'.gaps = owner.gaps, Gaps' = Gaps
  PROVE  GapInv'
<1> SUFFICES ASSUME NEW c \in Clients
             PROVE  /\ \A k \in Lost(c)' : Named(c, k)'
                    /\ c \in owner'.gaps => Lost(c)' # {}
                    /\ \A g \in Gaps' : c \in g.clients => Lost(c)' # {}
  BY DEF GapInv
<1>1. Lost(c)' = Lost(c) /\ \A k : Named(c, k)' = Named(c, k)
  BY DEF Quiet, Named
<1> QED BY <1>1 DEF GapInv

\* Whoever missed something is named at once.
LEMMA LosingKeepsGaps ==
  ASSUME GapInv, NEW c \in Clients, NEW lost, Losing(c, lost), Gaps' = Gaps
  PROVE  GapInv'
<1> SUFFICES ASSUME NEW d \in Clients
             PROVE  /\ \A k \in Lost(d)' : Named(d, k)'
                    /\ d \in owner'.gaps => Lost(d)' # {}
                    /\ \A g \in Gaps' : d \in g.clients => Lost(d)' # {}
  BY DEF GapInv
<1>1. owner'.gaps = owner.gaps \union {c}
  BY DEF Losing
<1>2. CASE d = c
  BY <1>1, <1>2 DEF Losing, Named
<1>3. CASE d # c
  <2>1. Lost(d)' = Lost(d) /\ \A k : Named(d, k) => Named(d, k)'
    BY <1>1, <1>3 DEF Losing, Named
  <2> QED BY <1>1, <1>3, <2>1 DEF GapInv
<1> QED BY <1>2, <1>3

\* The pairs of a client and a chunk it missed, counted.
LEMMA PairsFinite ==
  IsFiniteSet(LostPairs) /\ Cardinality(LostPairs) \in Nat
<1>1. IsFiniteSet(Clients \X Chunk)
  <2>1. IsFiniteSet(Clients) /\ IsFiniteSet(Chunk)
    BY FanoutAssumption, FS_Interval DEF Chunk
  <2> QED BY <2>1, FS_Product
<1>2. LostPairs \in SUBSET (Clients \X Chunk)
  BY DEF LostPairs
<1> QED BY <1>1, <1>2, FS_Subset, FS_CardinalityType

\* Nothing missed, nothing to count.
LEMMA QuietKeepsPairs ==
  ASSUME Quiet
  PROVE  LostPairs' = LostPairs
<1>1. \A p \in Clients \X Chunk : Lost(p[1])' = Lost(p[1])
  BY DEF Quiet
<1>2. \A c \in Clients, k \in Chunk : k \in Lost(c)' <=> k \in Lost(c)
  BY DEF Quiet
<1> QED BY <1>2 DEF LostPairs

\* Every chunk missed is one pair more.
LEMMA LosingAddsPairs ==
  ASSUME NEW c \in Clients, NEW lost \in SUBSET Chunk, Losing(c, lost)
  PROVE  Cardinality(LostPairs') = Cardinality(LostPairs) + Cardinality(lost)
<1> DEFINE new == {c} \X lost
<1>1. LostPairs' = LostPairs \union new
  <2>1. \A d \in Clients, k \in Chunk : k \in Lost(d)' <=> k \in Lost(d) \/ (d = c /\ k \in lost)
    BY DEF Losing
  <2> QED BY <2>1 DEF LostPairs
<1>2. LostPairs \intersect new = {}
  BY DEF LostPairs, Losing
<1>3. IsFiniteSet(new) /\ Cardinality(new) = Cardinality(lost) /\ Cardinality(lost) \in Nat
  <2>1. IsFiniteSet({c}) /\ Cardinality({c}) = 1 /\ IsFiniteSet(lost) /\ Cardinality(lost) \in Nat
    BY FS_Singleton DEF Losing
  <2>2. IsFiniteSet(new) /\ Cardinality(new) = 1 * Cardinality(lost)
    BY <2>1, FS_Product
  <2> QED BY <2>1, <2>2
<1>4. Cardinality(LostPairs \union new) = Cardinality(LostPairs) + Cardinality(new) - Cardinality(LostPairs \intersect new)
  BY <1>3, PairsFinite, FS_Union
<1>5. Cardinality(LostPairs \intersect new) = 0
  BY <1>2, FS_EmptySet
<1> QED BY <1>1, <1>3, <1>4, <1>5, PairsFinite

AccountInv == GapInv /\ DropInv

\* A step that misses nothing and counts nothing.
LEMMA QuietKeepsAccount ==
  ASSUME AccountInv, Quiet, owner'.gaps = owner.gaps, Gaps' = Gaps,
         drops' + owner'.dropped = drops + owner.dropped
  PROVE  AccountInv'
  BY QuietKeepsGaps, QuietKeepsPairs DEF AccountInv, DropInv

\* Every chunk a client misses is counted and the client named.
LEMMA AccountNext ==
  ASSUME BaseInv, StreamInv, AccountInv, [Next]_fanoutVars
  PROVE  AccountInv'
<1>0. /\ OwnerInv /\ ClientShape /\ ledger \in Seq(LedgerEvent) /\ drops \in Nat /\ owner.dropped \in Nat
      /\ DOMAIN owner = OwnerFields /\ Read \in Nat
  BY DEF BaseInv, OwnerInv
<1>1. CASE DeviceRx
  <2> DEFINE k == Read + 1
             e == [type |-> "rx", chunk |-> k, clients |-> {}]
  <2>1. ledger' = Append(ledger, e) /\ owner'.gaps = owner.gaps /\ owner'.dropped = owner.dropped /\ drops' = drops
    BY <1>0, <1>1 DEF DeviceRx, Read, OwnerFields
  <2>2. e \in LedgerEvent /\ e.type # "gap"
    BY <1>0 DEF LedgerEvent
  <2> HIDE DEF e
  <2>3. Gaps' = Gaps
    BY <1>0, <2>1, <2>2, GapsAppend
  <2> QED BY <1>1, <2>1, <2>3, OwnerStepsKeepStream, QuietKeepsAccount
<1>2. CASE Snapshot \/ Count \/ Tick
  <2>1. ledger' = ledger /\ owner'.gaps = owner.gaps
    BY <1>0, <1>2 DEF Snapshot, Count, Tick, OwnerFields
  <2>2. drops' + owner'.dropped = drops + owner.dropped
    <3>1. CASE Count
      <4>1. drops' = drops + owner.dropped /\ owner'.dropped = 0
        BY <1>0, <3>1 DEF Count, OwnerFields
      <4> QED BY <1>0, <4>1
    <3>2. CASE Snapshot \/ Tick
      BY <1>0, <3>2 DEF Snapshot, Tick, OwnerFields
    <3> QED BY <1>2, <3>1, <3>2
  <2>3. Gaps' = Gaps
    BY <2>1 DEF Gaps
  <2> QED BY <1>2, <2>1, <2>2, <2>3, OwnerStepsKeepStream, QuietKeepsAccount
<1>3. CASE RecordGap
  <2> DEFINE e == [type |-> "gap", chunk |-> owner.chunk, clients |-> owner.gaps]
  <2>1. /\ owner.pc = "reaping" /\ owner' = Idle /\ drops' = drops
        /\ ledger' = IF owner.gaps = {} THEN ledger ELSE Append(ledger, e)
    BY <1>3 DEF RecordGap
  <2>2. /\ e \in LedgerEvent /\ e.type = "gap" /\ e.clients = owner.gaps /\ e.chunk = Read /\ Settled = Read
        /\ owner.dropped = 0
    BY <1>0, <2>1 DEF LedgerEvent, OwnerInv, Settled
  <2> HIDE DEF e
  <2>3. Quiet
    BY <1>3, OwnerStepsKeepStream
  <2>4. owner'.gaps = {} /\ owner'.dropped = 0
    BY <2>1 DEF Idle
  <2>5. DropInv'
    BY <1>0, <2>1, <2>2, <2>3, <2>4, QuietKeepsPairs DEF AccountInv, DropInv
  <2>6. CASE owner.gaps = {}
    <3>1. Gaps' = Gaps
      BY <2>1, <2>6 DEF Gaps
    <3> QED BY <2>3, <2>4, <2>5, <2>6, <3>1, QuietKeepsGaps DEF AccountInv
  <2>7. CASE owner.gaps # {}
    <3>1. Gaps' = Gaps \union {e}
      BY <1>0, <2>1, <2>2, <2>7, GapsAppend
    <3>2. ASSUME NEW c \in Clients
          PROVE  /\ \A k \in Lost(c)' : Named(c, k)'
                 /\ c \in owner'.gaps => Lost(c)' # {}
                 /\ \A g \in Gaps' : c \in g.clients => Lost(c)' # {}
      <4>1. Lost(c)' = Lost(c)
        BY <2>3 DEF Quiet
      <4>2. ASSUME NEW k \in Lost(c)
            PROVE  Named(c, k)'
        <5>1. k \in Int /\ k <= e.chunk
          BY <1>0, <2>2, <4>2, LostWasOffered
        <5>2. Named(c, k)
          BY <4>2 DEF AccountInv, GapInv
        <5>3. CASE c \in owner.gaps
          <6>1. c \in e.clients /\ e.chunk >= k
            BY <1>0, <2>2, <5>1, <5>3
          <6> QED BY <3>1, <6>1 DEF Named
        <5>4. CASE \E g \in Gaps : c \in g.clients /\ g.chunk >= k
          BY <3>1, <5>4 DEF Named
        <5> QED BY <5>2, <5>3, <5>4 DEF Named
      <4>3. \A g \in Gaps' : c \in g.clients => Lost(c) # {}
        BY <2>2, <3>1 DEF AccountInv, GapInv
      <4> QED BY <2>4, <4>1, <4>2, <4>3
    <3>3. GapInv'
      BY <3>2 DEF GapInv
    <3> QED BY <2>5, <3>3 DEF AccountInv
  <2> QED BY <2>6, <2>7
<1>4. ASSUME NEW c \in Clients, Enqueue(c) \/ BlockEnds(c) \/ BlockTimesOut(c)
      PROVE  AccountInv'
  <2>1. UNCHANGED <<ledger, drops>>
    BY <1>4 DEF Enqueue, BlockEnds, BlockTimesOut
  <2>2. Gaps' = Gaps
    BY <2>1 DEF Gaps
  <2>3. CASE Quiet /\ owner'.dropped = owner.dropped /\ owner'.gaps = owner.gaps
    BY <2>1, <2>2, <2>3, QuietKeepsAccount
  <2>4. CASE \E lost \in SUBSET Chunk : Losing(c, lost)
    <3>1. PICK lost \in SUBSET Chunk : Losing(c, lost)
      BY <2>4
    <3>2. GapInv'
      BY <2>2, <3>1, LosingKeepsGaps DEF AccountInv
    <3>3. DropInv'
      <4>1. Cardinality(LostPairs') = Cardinality(LostPairs) + Cardinality(lost) /\ Cardinality(LostPairs) \in Nat
        BY <3>1, LosingAddsPairs, PairsFinite
      <4>2. owner'.dropped = owner.dropped + Cardinality(lost) /\ Cardinality(lost) \in Nat
        BY <3>1 DEF Losing
      <4>3. drops + owner.dropped = Cardinality(LostPairs)
        BY DEF AccountInv, DropInv
      <4>4. drops' + owner'.dropped = Cardinality(LostPairs')
        BY <1>0, <2>1, <4>1, <4>2, <4>3
      <4> QED BY <4>4 DEF DropInv
    <3> QED BY <3>2, <3>3 DEF AccountInv
  <2> QED BY <1>4, <2>3, <2>4, ServingKeepsStream
<1>5. ASSUME NEW c \in Clients, Reap(c)
      PROVE  AccountInv'
  <2>1. ledger' = ledger /\ drops' = drops /\ owner'.gaps = owner.gaps /\ owner'.dropped = owner.dropped
    BY <1>0, <1>5 DEF Reap, OwnerFields
  <2>2. Gaps' = Gaps
    BY <2>1 DEF Gaps
  <2> QED BY <1>5, <2>1, <2>2, ReapKeepsStream, QuietKeepsAccount
<1>6. ASSUME NEW c \in Clients, ClientSteps(c) \/ UNCHANGED fanoutVars
      PROVE  AccountInv'
  <2>1. UNCHANGED <<owner, ledger, drops>>
    BY <1>6 DEF ClientSteps, Register, ReadHistory, Unregister, DropRx, Enter, Inspect, Poll, Wake, CancelRecv, fanoutVars
  <2>2. Gaps' = Gaps
    BY <2>1 DEF Gaps
  <2>3. Quiet
    BY <1>6, StepsWithoutChunk, InspectKeepsStream, LeavingKeepsStream DEF ClientSteps
  <2> QED BY <2>1, <2>2, <2>3, QuietKeepsAccount
<1>7. CASE UNCHANGED fanoutVars
  <2>1. UNCHANGED <<owner, ledger, drops>>
    BY <1>7 DEF fanoutVars
  <2>2. Gaps' = Gaps
    BY <2>1 DEF Gaps
  <2>3. Quiet
    BY <1>7 DEF fanoutVars, Quiet, Lost, StillDue
  <2> QED BY <2>1, <2>2, <2>3, QuietKeepsAccount
<1> QED BY <1>1, <1>2, <1>3, <1>4, <1>5, <1>6, <1>7 DEF Next, ClientSteps

-----------------------------------------------------------------------------
(* Every step                                                              *)

\* Nobody joined, nothing was offered.
LEMMA StreamInit ==
  ASSUME Init
  PROVE  ClientShape /\ StreamInv /\ JoinInv /\ AccountInv
<1>1. OwnerInv /\ Read = 0 /\ Settled = 0
  <2>1. {i \in DOMAIN ledger : ledger[i].type = "rx"} = {}
    BY DEF Init
  <2> QED BY <2>1, OwnerInit, FS_EmptySet DEF Init, Idle, Read, Settled
<1>2. ClientShape
  BY DEF Init, ClientShape
<1>3. \A c \in Clients : /\ taken[c] = <<>> /\ queue[c].pending = <<>> /\ ~queue[c].closed
                         /\ offered[c] = {} /\ abandoned[c] = {} /\ replayed[c] = <<>>
                         /\ reader[c].pc = "new" /\ StillDue(c) = {}
  BY DEF Init, Idle, StillDue
<1>4. ToSet(<<>>) = {} /\ Rising(<<>>) /\ Len(<<>>) = 0
  <2>1. <<>> \in Seq(Nat) /\ Len(<<>>) = 0
    OBVIOUS
  <2>2. ToSet(<<>>) = {}
    BY <2>1, ElementsOf
  <2>3. Rising(<<>>)
    BY <2>1 DEF Rising
  <2> QED BY <2>1, <2>2, <2>3
<1>5. Stream(<<>>, <<>>, {}, {}, {}) /\ NeverGot(<<>>, <<>>, {}, {}, {}) = {}
  BY <1>4, FanoutAssumption DEF Stream, NeverGot
<1>6. StreamInv
  BY <1>3, <1>5 DEF StreamInv, StreamOK
<1>7. JoinInv
  BY <1>3 DEF JoinInv, JoinOK, Init
<1>8. \A c \in Clients : Lost(c) = {}
  BY <1>3, <1>5 DEF Lost
<1>9. LostPairs = {} /\ Gaps = {}
  BY <1>8 DEF LostPairs, Gaps, Init
<1>10. GapInv
  BY <1>8, <1>9 DEF GapInv, Init, Idle
<1>11. DropInv
  BY <1>9, FS_EmptySet DEF DropInv, Init, Idle
<1> QED BY <1>2, <1>6, <1>7, <1>10, <1>11 DEF AccountInv

\* The owner, the ring and the streams stay in order.
LEMMA StreamNext ==
  ASSUME BaseInv, StreamInv, [Next]_fanoutVars
  PROVE  BaseInv' /\ StreamInv'
<1>1. CASE DeviceRx \/ Snapshot \/ Count \/ RecordGap \/ Tick
  BY <1>1, OwnerSteps, OwnerStepsKeepStream DEF BaseInv
<1>2. ASSUME NEW c \in Clients, Enqueue(c) \/ BlockEnds(c) \/ BlockTimesOut(c)
      PROVE  BaseInv' /\ StreamInv'
  BY <1>2, ServingSteps, ServingKeepsStream DEF BaseInv
<1>3. ASSUME NEW c \in Clients, Reap(c)
      PROVE  BaseInv' /\ StreamInv'
  BY <1>3, ServingSteps, ReapKeepsStream DEF BaseInv
<1>4. ASSUME NEW c \in Clients, ClientSteps(c)
      PROVE  BaseInv' /\ StreamInv'
  <2>1. ClientShape' /\ StreamInv'
    BY <1>4, StepsWithoutChunk, InspectKeepsStream, LeavingKeepsStream DEF ClientSteps
  <2> QED BY <1>4, <2>1, ClientStepsKeepOwner DEF BaseInv
<1>5. CASE UNCHANGED fanoutVars
  <2>1. Read' = Read /\ Settled' = Settled
    BY <1>5 DEF fanoutVars, Read, Settled
  <2>2. OwnerInv' /\ HistoryInv' /\ ClientShape'
    BY <1>5, <2>1 DEF fanoutVars, BaseInv, OwnerInv, HistoryInv, ClientShape
  <2>3. StreamInv'
    BY <1>5, <2>1 DEF fanoutVars, StreamInv, StreamOK, StillDue
  <2> QED BY <2>2, <2>3 DEF BaseInv
<1> QED BY <1>1, <1>2, <1>3, <1>4, <1>5 DEF Next, ClientSteps

FanoutInv == BaseInv /\ StreamInv /\ JoinInv /\ AccountInv

\* The invariant the theorems below rest on.
LEMMA FanoutHolds == Spec => []FanoutInv
<1>1. Init => FanoutInv
  BY OwnerInit, StreamInit DEF FanoutInv, BaseInv
<1>2. FanoutInv /\ [Next]_fanoutVars => FanoutInv'
  BY StreamNext, JoinNext, AccountNext DEF FanoutInv
<1> QED BY <1>1, <1>2, PTL DEF Spec

\* Between chunks a client has nothing due: what it missed, it lost.
LEMMA MissedIsLost ==
  ASSUME FanoutInv, owner.pc = "idle"
  PROVE  \A c : Missed(c) = Lost(c)
<1>1. \A c : StillDue(c) = {}
  BY DEF FanoutInv, BaseInv, OwnerInv, StillDue
<1> QED BY <1>1 DEF Missed, Lost, NeverGot

\* Every variable of the receive fan-out keeps its shape: chunks that were read, queues
\* within their capacity, a ring within its own.
THEOREM FanoutTyped == Spec => []TypeOK
<1>1. FanoutInv => TypeOK
  <2> SUFFICES ASSUME FanoutInv
               PROVE  TypeOK
    OBVIOUS
  <2>1. OwnerInv /\ HistoryInv /\ ClientShape /\ StreamInv
    BY DEF FanoutInv, BaseInv
  <2>2. Settled \in 0 .. Chunks
    <3>1. owner.pc # "idle" => Read >= 1
      BY <2>1 DEF OwnerInv
    <3> QED BY <2>1, <3>1, FanoutAssumption DEF OwnerInv, Settled
  <2>3. ASSUME NEW c \in Clients
        PROVE  /\ queue[c].closed \in BOOLEAN /\ Len(queue[c].pending) <= Capacity
               /\ reader[c].pc \in {"new", "joined", "out", "armed", "checked", "waiting", "gone"}
               /\ reader[c].permit \in BOOLEAN /\ reader[c].woken \in {"no", "one", "all"}
               /\ \A k \in ToSet(queue[c].pending) \union ToSet(taken[c]) : k \in Chunk
               /\ offered[c] \union abandoned[c] \subseteq Chunk
    <3>1. /\ Stream(taken[c], queue[c].pending, offered[c], abandoned[c], StillDue(c))
          /\ offered[c] \subseteq 1 .. Settled
      BY <2>1 DEF StreamInv, StreamOK
    <3>2. offered[c] \subseteq Chunk
      BY <2>2, <3>1, FanoutAssumption DEF Chunk
    <3>3. queue[c].closed \in BOOLEAN
      BY <2>1 DEF ClientShape
    <3>4. reader[c] \in [pc : {"new", "joined", "out", "armed", "checked", "waiting", "gone"},
                         permit : BOOLEAN, woken : {"no", "one", "all"}]
      BY <2>1 DEF ClientShape
    <3> QED BY <3>1, <3>2, <3>3, <3>4 DEF Stream
  <2>4. /\ setup \in [policy : Policies, awaiting : Awaiting] /\ joined \subseteq Clients
        /\ owner.pc \in {"idle", "recorded", "fanout", "blocked", "reaping"}
        /\ owner.todo \union owner.gaps \union owner.dead \union owner.blockedOn \subseteq Clients
        /\ owner.dropped \in Nat /\ drops \in Nat /\ Len(history) <= HistoryCap
    BY <2>1 DEF ClientShape, OwnerInv, HistoryInv
  <2> QED BY <2>3, <2>4 DEF TypeOK
<1> QED BY <1>1, FanoutHolds, PTL

\* What a client took, then what waits for it, rises.
LEMMA TakenThenPendingRises ==
  ASSUME FanoutInv, NEW c \in Clients
  PROVE  \A i, j \in DOMAIN (taken[c] \o queue[c].pending) :
           i < j => (taken[c] \o queue[c].pending)[i] < (taken[c] \o queue[c].pending)[j]
<1> DEFINE t == taken[c]
           p == queue[c].pending
           s == t \o p
<1>1. /\ t \in Seq(Nat) /\ p \in Seq(Nat) /\ Rising(t) /\ Rising(p)
      /\ \A i \in 1 .. Len(t) : \A j \in 1 .. Len(p) : t[i] < p[j]
  BY StreamShape DEF FanoutInv, StreamInv, StreamOK, Stream
<1> HIDE DEF t, p
<1>2. /\ DOMAIN s = 1 .. Len(t) + Len(p) /\ Len(t) \in Nat /\ Len(p) \in Nat
      /\ \A i \in 1 .. Len(t) + Len(p) : s[i] = IF i <= Len(t) THEN t[i] ELSE p[i - Len(t)]
  BY <1>1
<1> HIDE DEF s
<1>3. ASSUME NEW i \in DOMAIN s, NEW j \in DOMAIN s, i < j
      PROVE  s[i] < s[j]
  <2>1. i \in Nat /\ j \in Nat /\ i >= 1 /\ j <= Len(t) + Len(p)
    BY <1>2
  <2>2. CASE j <= Len(t)
    BY <1>1, <1>2, <1>3, <2>1, <2>2 DEF Rising
  <2>3. CASE i <= Len(t) /\ j > Len(t)
    <3>1. i \in 1 .. Len(t) /\ j - Len(t) \in 1 .. Len(p)
      BY <1>2, <2>1, <2>3
    <3> QED BY <1>1, <1>2, <2>1, <2>3, <3>1
  <2>4. CASE i > Len(t)
    <3>1. i - Len(t) \in 1 .. Len(p) /\ j - Len(t) \in 1 .. Len(p) /\ i - Len(t) < j - Len(t) /\ j > Len(t)
      BY <1>2, <1>3, <2>1, <2>4
    <3>2. s[i] = p[i - Len(t)] /\ s[j] = p[j - Len(t)]
      BY <1>2, <2>1, <2>4, <3>1
    <3> QED BY <1>1, <3>1, <3>2 DEF Rising
  <2> QED BY <1>2, <2>1, <2>2, <2>3, <2>4
<1> QED BY <1>3 DEF s, t, p

\* A client sees the chunks in the order the device sent them, none twice, and from the
\* oldest chunk of its history on it was offered every one, however its joining falls
\* between the steps of on_device_rx.  (register_client, history_bytes, on_device_rx)
THEOREM StreamIsFaithful == Spec => []StreamFaithful
<1>1. FanoutInv => StreamFaithful
  <2> SUFFICES ASSUME FanoutInv, NEW c \in Clients
               PROVE  /\ \A i, j \in DOMAIN (taken[c] \o queue[c].pending) :
                           i < j => (taken[c] \o queue[c].pending)[i] < (taken[c] \o queue[c].pending)[j]
                      /\ c \in joined => \A i, j \in Seen(c) : \A k \in i .. j : k \in Seen(c)
    BY DEF StreamFaithful, Seen
  <2>1. ASSUME c \in joined
        PROVE  \A i, j \in Seen(c) : \A k \in i .. j : k \in Seen(c)
    <3>1. Settled \in Nat
      BY StreamShape DEF FanoutInv
    <3>2. PICK first \in 1 .. Settled + 1 : Seen(c) = first .. Settled
      BY <2>1 DEF FanoutInv, JoinInv, JoinOK
    <3> QED BY <3>1, <3>2
  <2> QED BY <2>1, TakenThenPendingRises
<1> QED BY <1>1, FanoutHolds, PTL

\* Between chunks rx_drops is exactly the number of chunks clients missed, under every
\* policy and whatever clients leave meanwhile.  (enqueue's results, on_device_rx)
THEOREM DropsAreExact == Spec => []DropsExact
<1>1. FanoutInv => DropsExact
  <2> SUFFICES ASSUME FanoutInv, owner.pc = "idle"
               PROVE  drops = Cardinality({p \in Clients \X Chunk : p[2] \in Missed(p[1])})
    BY DEF DropsExact
  <2>1. LostPairs = {p \in Clients \X Chunk : p[2] \in Missed(p[1])}
    BY MissedIsLost DEF LostPairs
  <2>2. owner.dropped = 0 /\ drops \in Nat
    BY DEF FanoutInv, BaseInv, OwnerInv
  <2> QED BY <2>1, <2>2 DEF FanoutInv, AccountInv, DropInv
<1> QED BY <1>1, FanoutHolds, PTL

\* Between chunks the client-delivery gaps name exactly the clients that missed something,
\* in a gap recorded no earlier than the chunk.  (delivery_gaps of on_device_rx)
THEOREM GapsAreExact == Spec => []GapsNameTheVictims
<1>1. FanoutInv => GapsNameTheVictims
  <2> SUFFICES ASSUME FanoutInv, owner.pc = "idle"
               PROVE  /\ \A c \in Clients : \A k \in Missed(c) : \E g \in Gaps : c \in g.clients /\ g.chunk >= k
                      /\ \A g \in Gaps : \A c \in g.clients : Missed(c) # {}
    BY DEF GapsNameTheVictims
  <2>1. owner.gaps = {} /\ GapInv /\ ledger \in Seq(LedgerEvent)
    BY DEF FanoutInv, BaseInv, OwnerInv, AccountInv
  <2>2. \A g \in Gaps : g.clients \subseteq Clients
    <3>1. \A i \in DOMAIN ledger : ledger[i] \in LedgerEvent
      BY <2>1
    <3>2. \A g \in Gaps : g \in LedgerEvent
      BY <3>1 DEF Gaps
    <3> QED BY <3>2 DEF LedgerEvent
  <2> QED BY <2>1, <2>2, MissedIsLost DEF GapInv, Named
<1> QED BY <1>1, FanoutHolds, PTL

=============================================================================
