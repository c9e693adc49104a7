---------------------------- MODULE ClientFanout ----------------------------
(***************************************************************************)
(* The receive side of the broker: what happens to a chunk the owner       *)
(* thread read from the device (on_device_rx), from the ledger entry to    *)
(* the queue of every reader, and how a reader takes it out (ClientRx).    *)
(* One thread, the owner, produces; every client has a queue of its own    *)
(* with its own mutex; a full queue is the slow-client policy's business.  *)
(*                                                                         *)
(* Chunks are numbered in the order they were read.  Time is counted       *)
(* within one on_device_rx, whose backpressure budget is SlowBlock ticks.  *)
(* `offered' and `abandoned' are history variables: no action reads them.  *)
(***************************************************************************)
EXTENDS Integers, Sequences, FiniteSets, SequencesExt, FiniteSetsExt

CONSTANTS
  Clients,     \* reader identities; each joins at most once (ClientId is fresh)
  Awaiting,    \* possible sets of clients that use recv().await; the others
               \* use blocking_recv()
  Capacity,    \* chunks a queue holds
  HistoryCap,  \* chunks the history ring holds
  Chunks,      \* bound: chunks the device produces
  SlowBlock,   \* slow_block_ms in ticks
  Policies     \* slow-client policies to explore

ASSUME FanoutAssumption ==
  /\ Awaiting \subseteq SUBSET Clients /\ IsFiniteSet(Clients)
  /\ Capacity \in Nat \ {0} /\ HistoryCap \in Nat
  /\ Chunks \in Nat /\ SlowBlock \in Nat
  /\ Policies \subseteq {"drop_oldest", "drop_newest", "disconnect_slow", "block"}

VARIABLES
  setup,      \* fixed: the policy (Policy.slow_client), the awaiting readers
  joined,     \* keys of BrokerState.clients
  queue,      \* ClientFanoutState of each client: pending, closed
  reader,     \* the thread or task inside recv: pc, stored permit, wake-up
  owner,      \* locals of on_device_rx
  ledger,     \* receive and client-delivery gap events
  drops,      \* rx_drops
  history,    \* the history ring
  replayed,   \* history a client was sent when it joined
  taken,      \* chunks recv returned to each client
  offered,    \* chunks of whose snapshot the client was a recipient
  abandoned   \* chunks a queue lost because its client went away

fanoutVars == <<setup, joined, queue, reader, owner, ledger, drops, history,
                replayed, taken, offered, abandoned>>

Chunk == 1 .. Chunks
Idle == [pc |-> "idle", chunk |-> 0, todo |-> {}, blockedOn |-> {}, until |-> 0,
         elapsed |-> 0, dropped |-> 0, gaps |-> {}, dead |-> {}]

Init ==
  /\ setup \in [policy : Policies, awaiting : Awaiting]
  /\ joined = {}
  /\ queue = [c \in Clients |-> [pending |-> <<>>, closed |-> FALSE]]
  /\ reader = [c \in Clients |-> [pc |-> "new", permit |-> FALSE, woken |-> "no"]]
  /\ owner = Idle
  /\ ledger = <<>> /\ drops = 0 /\ history = <<>>
  /\ replayed = [c \in Clients |-> <<>>]
  /\ taken = [c \in Clients |-> <<>>]
  /\ offered = [c \in Clients |-> {}]
  /\ abandoned = [c \in Clients |-> {}]

-----------------------------------------------------------------------------
(* Wake-ups.  tokio's Notify keeps one permit when nobody waits; its       *)
(* notify_waiters reaches every future already created.  A condition       *)
(* variable keeps nothing.                                                 *)

NotifyOneUnstored(c) ==  \* mutant: a wake-up nobody waits for is forgotten
  IF reader[c].pc = "waiting" /\ reader[c].woken = "no"
  THEN [reader[c] EXCEPT !.woken = "one"] ELSE reader[c]

NotifyOne(c) ==
  LET r == reader[c] IN
  IF r.pc = "waiting" /\ r.woken = "no" THEN [r EXCEPT !.woken = "one"]
  ELSE [r EXCEPT !.permit = c \in setup.awaiting]

NotifyAll(c) ==
  LET r == reader[c] IN
  IF r.pc \in {"armed", "checked", "waiting"} /\ r.woken = "no"
  THEN [r EXCEPT !.woken = "all"] ELSE r

FullLate(c) == Len(queue[c].pending) > Capacity  \* mutant: one chunk too many
Full(c) == Len(queue[c].pending) >= Capacity

(* enqueue's normal end: the chunk goes in, one reader is woken. *)
Push(c, rest) ==
  /\ queue' = [queue EXCEPT ![c].pending = Append(rest, owner.chunk)]
  /\ reader' = [reader EXCEPT ![c] = NotifyOne(c)]

(* The queue closes and what it held is gone. *)
Shut(c) ==
  /\ queue' = [queue EXCEPT ![c] = [pending |-> <<>>, closed |-> TRUE]]
  /\ reader' = [reader EXCEPT ![c] = NotifyAll(c)]

(* ClientFanout::close *)
Close(c) ==
  IF queue[c].closed THEN UNCHANGED <<queue, reader, abandoned>>
  ELSE Shut(c) /\ abandoned' = [abandoned EXCEPT ![c] = ToSet(queue[c].pending)]

-----------------------------------------------------------------------------
(* Clients come and go. *)

Register(c) ==
  /\ reader[c].pc = "new"
  /\ joined' = joined \union {c}
  /\ reader' = [reader EXCEPT ![c].pc = "joined"]
  /\ UNCHANGED <<setup, queue, owner, ledger, drops, history, replayed, taken, offered, abandoned>>

(* A client may ask for the history before its first receive. *)
ReadHistory(c) ==
  /\ reader[c].pc = "joined"
  /\ \/ replayed' = [replayed EXCEPT ![c] = history]
     \/ UNCHANGED replayed
  /\ reader' = [reader EXCEPT ![c].pc = "out"]
  /\ UNCHANGED <<setup, joined, queue, owner, ledger, drops, history, taken, offered, abandoned>>

(* unregister_client, by the adapter's ClientRegistration *)
Unregister(c) ==
  /\ c \in joined
  /\ joined' = joined \ {c}
  /\ Close(c)
  /\ UNCHANGED <<setup, owner, ledger, drops, history, replayed, taken, offered>>

(* The adapter drops its receiver. *)
DropRx(c) ==
  /\ reader[c].pc \in {"joined", "out"}
  /\ IF queue[c].closed
     THEN reader' = [reader EXCEPT ![c].pc = "gone"] /\ UNCHANGED <<queue, abandoned>>
     ELSE /\ queue' = [queue EXCEPT ![c] = [pending |-> <<>>, closed |-> TRUE]]
          /\ reader' = [reader EXCEPT ![c].pc = "gone"]
          /\ abandoned' = [abandoned EXCEPT ![c] = ToSet(queue[c].pending)]
  /\ UNCHANGED <<setup, joined, owner, ledger, drops, history, replayed, taken, offered>>

-----------------------------------------------------------------------------
(* Receiving. *)

(* recv() creates its Notified future before it looks at the queue;        *)
(* blocking_recv() looks under the lock it will sleep with, and again each *)
(* time it is woken.                                                       *)
Enter(c) ==
  /\ c \in setup.awaiting /\ reader[c].pc = "out"
  /\ reader' = [reader EXCEPT ![c].pc = "armed"]
  /\ UNCHANGED <<setup, joined, queue, owner, ledger, drops, history, replayed, taken, offered, abandoned>>

Looking(c) == IF c \in setup.awaiting THEN reader[c].pc = "armed"
              ELSE reader[c].pc = "out" \/ (reader[c].pc = "waiting" /\ reader[c].woken # "no")

Inspect(c) ==
  LET q == queue[c] IN
  /\ Looking(c)
  /\ IF q.pending # <<>>
     THEN /\ taken' = [taken EXCEPT ![c] = Append(@, Head(q.pending))]
          /\ queue' = [queue EXCEPT ![c].pending = Tail(@)]
          /\ reader' = [reader EXCEPT ![c].pc = "out", ![c].woken = "no"]
     ELSE /\ reader' = [reader EXCEPT ![c].pc = IF q.closed THEN "gone"
                                                ELSE IF c \in setup.awaiting THEN "checked" ELSE "waiting",
                                      ![c].woken = IF c \in setup.awaiting THEN @ ELSE "no"]
          /\ UNCHANGED <<taken, queue>>
  /\ UNCHANGED <<setup, joined, owner, ledger, drops, history, replayed, offered, abandoned>>

(* notified.await: a permit, or a broadcast since the future was made, is  *)
(* enough; otherwise the task sleeps.                                      *)
Poll(c) ==
  LET r == reader[c] IN
  /\ r.pc = "checked"
  /\ reader' = [reader EXCEPT ![c] =
       IF r.woken = "all" THEN [r EXCEPT !.pc = "armed", !.woken = "no"]
       ELSE IF r.permit THEN [r EXCEPT !.pc = "armed", !.permit = FALSE]
       ELSE [r EXCEPT !.pc = "waiting"]]
  /\ UNCHANGED <<setup, joined, queue, owner, ledger, drops, history, replayed, taken, offered, abandoned>>

Wake(c) ==
  /\ c \in setup.awaiting /\ reader[c].pc = "waiting" /\ reader[c].woken # "no"
  /\ reader' = [reader EXCEPT ![c].pc = "armed", ![c].woken = "no"]
  /\ UNCHANGED <<setup, joined, queue, owner, ledger, drops, history, replayed, taken, offered, abandoned>>

(* A select! drops the future of recv(); a wake-up it had been handed goes *)
(* back as a permit.                                                       *)
CancelRecv(c) ==
  /\ c \in setup.awaiting /\ reader[c].pc \in {"armed", "checked", "waiting"}
  /\ reader' = [reader EXCEPT ![c] =
       [pc |-> "out", permit |-> @.permit \/ @.woken = "one", woken |-> "no"]]
  /\ UNCHANGED <<setup, joined, queue, owner, ledger, drops, history, replayed, taken, offered, abandoned>>

-----------------------------------------------------------------------------
(* on_device_rx *)

(* The canonical event comes first. *)
DeviceRx ==
  LET k == Cardinality({i \in DOMAIN ledger : ledger[i].type = "rx"}) + 1 IN
  /\ owner.pc = "idle" /\ k \in Chunk
  /\ ledger' = Append(ledger, [type |-> "rx", chunk |-> k, clients |-> {}])
  /\ owner' = [owner EXCEPT !.pc = "recorded", !.chunk = k]
  /\ UNCHANGED <<setup, joined, queue, reader, drops, history, replayed, taken, offered, abandoned>>

Remember(k) ==
  LET all == Append(history, k) IN
  SubSeq(all, Len(all) - (IF Len(all) < HistoryCap THEN Len(all) ELSE HistoryCap) + 1, Len(all))

(* History and recipients are settled under one lock; the budget starts.   *)
SnapshotUnheard ==  \* mutant: no history while nobody listens
  /\ owner.pc = "recorded"
  /\ history' = IF joined = {} THEN history ELSE Remember(owner.chunk)
  /\ owner' = [owner EXCEPT !.pc = "fanout", !.todo = joined]
  /\ offered' = [c \in Clients |-> IF c \in joined THEN offered[c] \union {owner.chunk} ELSE offered[c]]
  /\ UNCHANGED <<setup, joined, queue, reader, ledger, drops, replayed, taken, abandoned>>

Snapshot ==
  /\ owner.pc = "recorded"
  /\ history' = Remember(owner.chunk)
  /\ owner' = [owner EXCEPT !.pc = "fanout", !.todo = joined]
  /\ offered' = [c \in Clients |-> IF c \in joined THEN offered[c] \union {owner.chunk} ELSE offered[c]]
  /\ UNCHANGED <<setup, joined, queue, reader, ledger, drops, replayed, taken, abandoned>>

(* What enqueue answered goes into the locals of the loop. *)
Served(c) == [owner EXCEPT !.pc = "fanout", !.todo = @ \ {c}, !.blockedOn = {}]
Delivered(c) == owner' = Served(c) /\ UNCHANGED abandoned
EvictedUnnamed(c) ==  \* mutant: the client that lost a chunk is not named
  /\ owner' = [Served(c) EXCEPT !.dropped = @ + 1]
  /\ UNCHANGED abandoned

Evicted(c) ==
  /\ owner' = [Served(c) EXCEPT !.dropped = @ + 1, !.gaps = @ \union {c}]
  /\ UNCHANGED abandoned
Closed(c) ==
  /\ owner' = [Served(c) EXCEPT !.dead = @ \union {c}]
  /\ abandoned' = [abandoned EXCEPT ![c] = @ \union {owner.chunk}]
DisconnectedSilently(c) ==  \* mutant: only the new chunk is counted
  /\ owner' = [Served(c) EXCEPT !.dropped = @ + 1, !.gaps = @ \union {c}, !.dead = @ \union {c}]
  /\ UNCHANGED abandoned

Disconnected(c) ==
  /\ owner' = [Served(c) EXCEPT !.dropped = @ + Len(queue[c].pending) + 1,
                                !.gaps = @ \union {c}, !.dead = @ \union {c}]
  /\ UNCHANGED abandoned

(* What is left of the budget all recipients of the chunk share. *)
RemainingFresh == SlowBlock  \* mutant: every recipient gets a budget of its own
Remaining == IF owner.elapsed < SlowBlock THEN SlowBlock - owner.elapsed ELSE 0

Overflow(c) ==
  CASE setup.policy = "drop_oldest" -> Push(c, Tail(queue[c].pending)) /\ Evicted(c)
    [] setup.policy = "drop_newest" -> Evicted(c) /\ UNCHANGED <<queue, reader>>
    [] setup.policy = "disconnect_slow" -> Shut(c) /\ Disconnected(c)
    [] setup.policy = "block" ->
         /\ owner' = [owner EXCEPT !.pc = "blocked", !.blockedOn = {c},
                                   !.until = owner.elapsed + Remaining]
         /\ UNCHANGED <<queue, reader, abandoned>>

Enqueue(c) ==
  /\ owner.pc = "fanout" /\ c \in owner.todo
  /\ \/ queue[c].closed /\ Closed(c) /\ UNCHANGED <<queue, reader>>
     \/ ~queue[c].closed /\ ~Full(c) /\ Push(c, queue[c].pending) /\ Delivered(c)
     \/ ~queue[c].closed /\ Full(c) /\ Overflow(c)
  /\ UNCHANGED <<setup, joined, ledger, drops, history, replayed, taken, offered>>

(* not_full: a receive made room, or the queue closed. *)
BlockEnds(c) ==
  /\ owner.pc = "blocked" /\ owner.blockedOn = {c}
  /\ \/ queue[c].closed /\ Closed(c) /\ UNCHANGED <<queue, reader>>
     \/ ~queue[c].closed /\ ~Full(c) /\ Push(c, queue[c].pending) /\ Delivered(c)
  /\ UNCHANGED <<setup, joined, ledger, drops, history, replayed, taken, offered>>

BlockTimesOut(c) ==
  /\ owner.pc = "blocked" /\ owner.blockedOn = {c}
  /\ owner.elapsed >= owner.until
  /\ ~queue[c].closed /\ Full(c)
  /\ Shut(c) /\ Disconnected(c)
  /\ UNCHANGED <<setup, joined, ledger, drops, history, replayed, taken, offered>>

(* Every queue was served: the counters move. *)
Count ==
  /\ owner.pc = "fanout" /\ owner.todo = {}
  /\ drops' = drops + owner.dropped
  /\ owner' = [owner EXCEPT !.pc = "reaping", !.dropped = 0]
  /\ UNCHANGED <<setup, joined, queue, reader, ledger, history, replayed, taken, offered, abandoned>>

(* The owner unregisters the clients it found dead. *)
Reap(c) ==
  /\ owner.pc = "reaping" /\ c \in owner.dead
  /\ owner' = [owner EXCEPT !.dead = @ \ {c}]
  /\ joined' = joined \ {c}
  /\ IF c \in joined THEN Close(c) ELSE UNCHANGED <<queue, reader, abandoned>>
  /\ UNCHANGED <<setup, ledger, drops, history, replayed, taken, offered>>

RecordGap ==
  /\ owner.pc = "reaping" /\ owner.dead = {}
  /\ ledger' = IF owner.gaps = {} THEN ledger
               ELSE Append(ledger, [type |-> "gap", chunk |-> owner.chunk, clients |-> owner.gaps])
  /\ owner' = Idle
  /\ UNCHANGED <<setup, joined, queue, reader, drops, history, replayed, taken, offered, abandoned>>

(* A blocked wait ends when its time is up. *)
Tick ==
  /\ \/ owner.pc = "fanout" /\ owner.todo # {} /\ owner.elapsed < SlowBlock
     \/ owner.pc = "blocked" /\ owner.elapsed < owner.until
  /\ owner' = [owner EXCEPT !.elapsed = @ + 1]
  /\ UNCHANGED <<setup, joined, queue, reader, ledger, drops, history, replayed, taken, offered, abandoned>>

-----------------------------------------------------------------------------
Next ==
  \/ DeviceRx \/ Snapshot \/ Count \/ RecordGap \/ Tick
  \/ \E c \in Clients :
       \/ Register(c) \/ ReadHistory(c) \/ Unregister(c) \/ DropRx(c)
       \/ Enter(c) \/ Inspect(c) \/ Poll(c) \/ Wake(c) \/ CancelRecv(c)
       \/ Enqueue(c) \/ BlockEnds(c) \/ BlockTimesOut(c) \/ Reap(c)

Spec == Init /\ [][Next]_fanoutVars

-----------------------------------------------------------------------------
TypeOK ==
  /\ setup \in [policy : Policies, awaiting : Awaiting] /\ joined \subseteq Clients
  /\ \A c \in Clients :
       /\ queue[c].closed \in BOOLEAN /\ Len(queue[c].pending) <= Capacity
       /\ reader[c].pc \in {"new", "joined", "out", "armed", "checked", "waiting", "gone"}
       /\ reader[c].permit \in BOOLEAN /\ reader[c].woken \in {"no", "one", "all"}
       /\ \A k \in ToSet(queue[c].pending) \union ToSet(taken[c]) : k \in Chunk
       /\ offered[c] \union abandoned[c] \subseteq Chunk
  /\ owner.pc \in {"idle", "recorded", "fanout", "blocked", "reaping"}
  /\ owner.todo \union owner.gaps \union owner.dead \union owner.blockedOn \subseteq Clients
  /\ owner.dropped \in Nat /\ drops \in Nat /\ Len(history) <= HistoryCap

(* What a client was to receive and neither got, nor can still get, nor    *)
(* gave up by leaving.                                                     *)
Missed(c) == offered[c] \ (ToSet(taken[c]) \union ToSet(queue[c].pending) \union abandoned[c])
Gaps == {ledger[i] : i \in {j \in DOMAIN ledger : ledger[j].type = "gap"}}

(* A client sees the chunks in the order the device sent them, none twice; *)
(* and from the oldest chunk of the history it was given, a client that     *)
(* still is a client has been offered every chunk, without a hole:         *)
(* whatever arrives while it joins is in the history or in its queue.      *)
(* (register_client, history_bytes, on_device_rx)                          *)
StreamFaithful ==
  \A c \in Clients :
    LET seen == taken[c] \o queue[c].pending
        all == ToSet(replayed[c]) \union offered[c]
    IN /\ \A i, j \in DOMAIN seen : i < j => seen[i] < seen[j]
       /\ c \in joined => \A i, j \in all : \A k \in i .. j : k \in all

(* Between chunks rx_drops is exactly the number of chunks that clients    *)
(* missed, under every policy and whatever clients leave meanwhile.        *)
(* (enqueue's results, the counters of on_device_rx)                       *)
DropsExact == owner.pc = "idle" => drops = Cardinality({p \in Clients \X Chunk : p[2] \in Missed(p[1])})

(* Between chunks the client-delivery gaps name exactly the clients that   *)
(* missed something, in a gap recorded no earlier than the chunk missed.   *)
(* (delivery_gaps of on_device_rx)                                         *)
GapsNameTheVictims ==
  owner.pc = "idle" =>
    /\ \A c \in Clients : \A k \in Missed(c) : \E g \in Gaps : c \in g.clients /\ g.chunk >= k
    /\ \A g \in Gaps : \A c \in g.clients : Missed(c) # {}

(* However many clients are slow, one chunk holds the serial thread no     *)
(* longer than slow_block_ms.  (block_deadline of on_device_rx)            *)
StallBounded == owner.elapsed <= SlowBlock

(* No wake-up is lost: a reader that sleeps has nothing to receive, and one *)
(* about to sleep with something to receive finds a wake-up waiting.       *)
(* (ClientRx::recv's notified() before the lock, blocking_recv)            *)
NoLostWakeup ==
  \A c \in Clients :
    LET due == queue[c].pending # <<>> \/ queue[c].closed IN
    /\ reader[c].pc = "waiting" /\ due => reader[c].woken # "no"
    /\ reader[c].pc = "checked" /\ due => reader[c].woken = "all" \/ reader[c].permit

=============================================================================
