----------------------------- MODULE EventLedger -----------------------------
(***************************************************************************)
(* The canonical event ledger of one running session: sequence numbers, a  *)
(* bounded ring, a bounded live channel per subscriber, and the persistent *)
(* prefix a checkpoint makes readable.  Segments and files are the subject *)
(* of SegmentStore; here the store is how much of the log it holds.        *)
(*                                                                         *)
(* Every operation holds the one state mutex, so each is a single action.  *)
(* The byte bound of the ring lets an append evict more old events than    *)
(* the count asks for, the new one included.                               *)
(***************************************************************************)
EXTENDS Integers, Sequences, FiniteSets, FiniteSetsExt, SequencesExt

CONSTANTS
  Stores,          \* "active" and/or "disabled": with and without ledger.directory
  RingMax,         \* memory_events
  ByteEvictions,   \* bound: events the byte limit evicts at one append, beyond memory_events
  StreamCapacity,  \* stream_capacity
  MaxEvents,       \* bound: events appended
  MaxFaults        \* bound: store failures (and, in EventFollower, lost connections)

ASSUME LedgerAssumption ==
  Stores \subseteq {"active", "disabled"} /\ {RingMax, StreamCapacity} \subseteq Nat \ {0} /\ {MaxEvents, MaxFaults, ByteEvictions} \subseteq Nat

VARIABLES
  log,          \* every event of the session; its seq is its position
  oldest,       \* seq of the ring's first event, Len(log) + 1 when the ring is empty
  persistence,  \* "disabled", "active", "degraded" or "sealed"
  stored,       \* events written to the store
  readable,     \* events in sealed segments
  closed,       \* the ledger is sealed: append and checkpoint are refused
  faults

ledgerVars == <<log, oldest, persistence, stored, readable, closed, faults>>

Newest == Len(log)
HasStore == persistence # "disabled"

LedgerInit ==
  /\ log = <<>> /\ oldest = 1
  /\ persistence \in Stores
  /\ stored = 0 /\ readable = 0 /\ closed = FALSE /\ faults = 0

-----------------------------------------------------------------------------
(* retain_event: what the ring may start with once the log has n events. *)
RetainedOffByOne(n) ==  \* mutant: evict only when one event too many is already kept
  LET kept == Max({oldest, n - RingMax}) IN kept .. Min({kept + ByteEvictions, n + 1})
Retained(n) ==
  LET kept == Max({oldest, n + 1 - RingMax}) IN kept .. Min({kept + ByteEvictions, n + 1})

(* The write to the store is part of append: it may rotate, sealing what   *)
(* was written before, and it may fail, which degrades the ledger for good.*)
StoreAppend ==
  \/ /\ persistence = "active"
     /\ stored' = Newest + 1
     /\ readable' \in {readable, stored}
     /\ UNCHANGED <<persistence, faults>>
  \/ /\ persistence = "active" /\ faults < MaxFaults
     /\ faults' = faults + 1
     /\ persistence' = "degraded"
     /\ readable' \in {readable, stored}
     /\ UNCHANGED stored
  \/ /\ persistence # "active"
     /\ UNCHANGED <<persistence, stored, readable, faults>>

AppendEvent(event) ==
  /\ ~closed /\ Newest < MaxEvents
  /\ log' = Append(log, event)
  /\ oldest' \in Retained(Newest + 1)
  /\ StoreAppend
  /\ UNCHANGED closed

Checkpoint ==
  /\ ~closed /\ persistence # "degraded"
  /\ readable' = stored
  /\ UNCHANGED <<log, oldest, persistence, stored, closed, faults>>

CheckpointFails ==
  \/ /\ closed \/ persistence = "degraded"
     /\ UNCHANGED ledgerVars
  \/ /\ ~closed /\ persistence = "active" /\ faults < MaxFaults
     /\ persistence' = "degraded" /\ faults' = faults + 1
     /\ readable' \in {readable, stored}
     /\ UNCHANGED <<log, oldest, stored, closed>>

Seal ==
  /\ ~closed /\ closed' = TRUE
  /\ \/ /\ persistence = "active"
        /\ persistence' = "sealed" /\ readable' = stored
        /\ UNCHANGED faults
     \/ /\ persistence = "active" /\ faults < MaxFaults
        /\ persistence' = "degraded" /\ faults' = faults + 1
        /\ UNCHANGED readable
     \/ /\ persistence # "active"
        /\ UNCHANGED <<persistence, readable, faults>>
  /\ UNCHANGED <<log, oldest, stored>>

-----------------------------------------------------------------------------
(* One subscriber of the live channel: the next event it has not received, *)
(* and whether the channel has already overwritten it.                     *)
Lagged(next) == Newest + 1 - next > StreamCapacity
Pending(next) == next <= Newest

LedgerTypeOK ==
  /\ Len(log) <= MaxEvents
  /\ oldest \in 1 .. Newest + 1 /\ Newest + 1 - oldest <= RingMax
  /\ persistence \in {"disabled", "active", "degraded", "sealed"}
  /\ 0 <= readable /\ readable <= stored /\ stored <= Newest
  /\ closed \in BOOLEAN /\ faults \in 0 .. MaxFaults
=============================================================================
