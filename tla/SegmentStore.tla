---------------------------- MODULE SegmentStore ----------------------------
(***************************************************************************)
(* The on-disk store of one ledger session: NDJSON segments written to a   *)
(* `.open' file, sealed by a rename to `.omslog' and linked by hashes, and *)
(* what a later process makes of the files a crash left behind.            *)
(*                                                                         *)
(* A file is what its complete lines say (an incomplete tail is dropped by *)
(* every reader of the code); a footer adds nothing to a file that is      *)
(* still `.open'.  A hash is the thing hashed, so equal hashes mean equal  *)
(* segments.  A process may die between any two steps, and any write or    *)
(* rename may fail; the operating system does not (what fsync is for).     *)
(***************************************************************************)
EXTENDS Integers, Sequences, FiniteSets, SequencesExt

CONSTANTS
  Procs,       \* processes that may open the session
  NoHash,      \* previous_segment_sha256 = None
  SegmentMax,  \* segment_max_events
  FlushEvery,  \* flush_every_events
  MaxEvents,   \* bound: events appended
  MaxFaults    \* bound: crashes and I/O errors

ASSUME StoreAssumption ==
  SegmentMax \in Nat \ {0} /\ FlushEvery \in Nat \ {0} /\ MaxEvents \in Nat /\ MaxFaults \in Nat

VARIABLES
  sealed,     \* .omslog files: [index, prev, events]
  open,       \* .open files: [index, header, prev, events]
  preserved,  \* .recovery-source files, which nothing reads again
  proc,       \* the SegmentStore of each process, and where it is
  acked,      \* events append() answered Ok for
  appended,   \* events handed to append()
  faults

storeVars == <<sealed, open, preserved, proc, acked, appended, faults>>

(* No segment is open (current = None). *)
NoSegment == [index |-> -1, prev |-> NoHash, events |-> <<>>, flushed |-> 0]

Down == [pc |-> "down", cur |-> NoSegment, next |-> 0, seq |-> 1, prev |-> NoHash,
         degraded |-> FALSE, sealed |-> FALSE, todo |-> <<>>, then |-> "run", mine |-> {}]

Init ==
  /\ sealed = {} /\ open = {} /\ preserved = {}
  /\ proc = [p \in Procs |-> Down]
  /\ acked = {} /\ appended = 0 /\ faults = 0

At(index) == CHOOSE s \in sealed : s.index = index
Segments == Cardinality(sealed)
EventsOf(segments) == FlattenSeq([i \in 1 .. Len(segments) |-> segments[i].events])

-----------------------------------------------------------------------------
(* read_session: sealed segments only, from index 0, each linked to the    *)
(* one before, the sequence numbers 1, 2, ... across all of them.          *)
InOrder == [i \in 1 .. Segments |-> At(i - 1)]
Readable ==
  /\ \A i \in 0 .. Segments - 1 : \E s \in sealed : s.index = i
  /\ \A i \in 1 .. Segments : InOrder[i].prev = IF i = 1 THEN NoHash ELSE InOrder[i - 1]
  /\ \A n \in 1 .. Len(EventsOf(InOrder)) : EventsOf(InOrder)[n].seq = n
ReadSession == EventsOf(InOrder)

ChainHead == IF Segments = 0 THEN NoHash ELSE InOrder[Segments]

-----------------------------------------------------------------------------
(* SegmentStore::open and recover_open_segment.  The session's advisory    *)
(* lock belongs to a process from here until it is down again.             *)

LockAnyway(p) ==  \* mutant: the session is opened although another process holds its lock
  /\ proc[p].pc = "down"
  /\ proc' = [proc EXCEPT ![p] = [Down EXCEPT !.pc = "opening"]]
  /\ UNCHANGED <<sealed, open, preserved, acked, appended, faults>>

Lock(p) ==
  /\ proc[p].pc = "down" /\ \A q \in Procs : proc[q].pc = "down"
  /\ proc' = [proc EXCEPT ![p] = [Down EXCEPT !.pc = "opening"]]
  /\ UNCHANGED <<sealed, open, preserved, acked, appended, faults>>

OpenRefused(p) ==
  /\ proc[p].pc = "opening"
  /\ \/ ~Readable
     \/ Cardinality(open) > 1
     \/ \E f \in open : f.index # Segments
  /\ proc' = [proc EXCEPT ![p] = Down]
  /\ UNCHANGED <<sealed, open, preserved, acked, appended, faults>>

OpenClean(p) ==
  /\ proc[p].pc = "opening" /\ Readable /\ open = {}
  /\ proc' = [proc EXCEPT ![p].pc = "loaded", ![p].next = Segments]
  /\ UNCHANGED <<sealed, open, preserved, acked, appended, faults>>

(* The events of a stale file up to the first that does not continue.      *)
ValidPrefix(f) ==
  LET first == Len(ReadSession)
      good(n) == \A i \in 1 .. n : f.events[i].seq = first + i
  IN SubSeq(f.events, 1, CHOOSE n \in 0 .. Len(f.events) :
              good(n) /\ (n = Len(f.events) \/ ~good(n + 1)))
HeaderValid(f) == f.header /\ f.prev = ChainHead

(* The source is renamed out of the way before anything is rebuilt.        *)
Preserve(p) ==
  \E f \in open :
    /\ proc[p].pc = "opening" /\ Readable /\ open = {f} /\ f.index = Segments
    /\ open' = {} /\ preserved' = preserved \union {f}
    /\ proc' = [proc EXCEPT ![p].next = f.index + 1,
                            ![p].pc = IF HeaderValid(f) THEN "rebuilding" ELSE "loaded",
                            ![p].cur = IF HeaderValid(f)
                                       THEN [index |-> f.index, prev |-> f.prev, events |-> ValidPrefix(f)]
                                       ELSE NoSegment]
    /\ UNCHANGED <<sealed, acked, appended, faults>>

SealAs(s) == {x \in sealed : x.index # s.index} \union {[index |-> s.index, prev |-> s.prev, events |-> s.events]}

(* The temporary copy, with its footer, gets its final name.               *)
Rebuild(p) ==
  /\ proc[p].pc = "rebuilding"
  /\ sealed' = SealAs(proc[p].cur)
  /\ proc' = [proc EXCEPT ![p].pc = "loaded", ![p].cur = NoSegment]
  /\ UNCHANGED <<open, preserved, acked, appended, faults>>

LoadUnlinked(p) ==  \* mutant: the chain head is not taken over from the files
  /\ proc[p].pc = "loaded"
  /\ proc' = [proc EXCEPT ![p].pc = "run",
                          ![p].next = IF Segments = 0 THEN @ ELSE Segments,
                          ![p].seq = Len(ReadSession) + 1]
  /\ UNCHANGED <<sealed, open, preserved, acked, appended, faults>>

Load(p) ==
  /\ proc[p].pc = "loaded"
  /\ proc' = [proc EXCEPT ![p].pc = "run",
                          ![p].next = IF Segments = 0 THEN @ ELSE Segments,
                          ![p].seq = Len(ReadSession) + 1,
                          ![p].prev = ChainHead]
  /\ UNCHANGED <<sealed, open, preserved, acked, appended, faults>>

-----------------------------------------------------------------------------
(* append, checkpoint, seal, drop *)

Healthy(p) == proc[p].pc = "run" /\ ~proc[p].degraded /\ ~proc[p].sealed

AppendEventLate(p) ==  \* mutant: the segment is full one event later
  LET s == proc[p] IN
  /\ Healthy(p) /\ appended < MaxEvents
  /\ appended' = appended + 1
  /\ proc' = [proc EXCEPT ![p].todo = <<[seq |-> s.seq, id |-> appended + 1]>>,
                          ![p].then = "create",
                          ![p].pc = IF s.cur = NoSegment THEN "create"
                                    ELSE IF Len(s.cur.events) > SegmentMax THEN "footer" ELSE "write"]
  /\ UNCHANGED <<sealed, open, preserved, acked, faults>>

AppendEvent(p) ==
  LET s == proc[p] IN
  /\ Healthy(p) /\ appended < MaxEvents
  /\ appended' = appended + 1
  /\ proc' = [proc EXCEPT ![p].todo = <<[seq |-> s.seq, id |-> appended + 1]>>,
                          ![p].then = "create",
                          ![p].pc = IF s.cur = NoSegment THEN "create"
                                    ELSE IF Len(s.cur.events) >= SegmentMax THEN "footer" ELSE "write"]
  /\ UNCHANGED <<sealed, open, preserved, acked, faults>>

(* seal_current on behalf of checkpoint, seal or drop: `then' says which.  *)
StartSeal(p, then) ==
  /\ Healthy(p)
  /\ proc' = [proc EXCEPT ![p].then = then,
                          ![p].pc = IF proc[p].cur = NoSegment THEN then ELSE "footer"]
  /\ UNCHANGED <<sealed, open, preserved, acked, appended, faults>>

Checkpoint(p) == proc[p].cur # NoSegment /\ StartSeal(p, "run")
Seal(p) == StartSeal(p, "sealed")

(* The .open file of p's current segment now holds these events. *)
Written(p, events) ==
  {IF f.index = proc[p].cur.index THEN [f EXCEPT !.events = events] ELSE f : f \in open}

WriteFooter(p) ==
  /\ proc[p].pc = "footer"
  /\ open' = Written(p, proc[p].cur.events)
  /\ proc' = [proc EXCEPT ![p].pc = "rename"]
  /\ UNCHANGED <<sealed, preserved, acked, appended, faults>>

RenamedUnlessCheckpoint(p) ==  \* mutant: a checkpoint closes the file under its .open name
  IF proc[p].then = "run" THEN UNCHANGED <<open, sealed>>
  ELSE /\ open' = {f \in open : f.index # proc[p].cur.index}
       /\ sealed' = SealAs(proc[p].cur)

Renamed(p) ==
  /\ open' = {f \in open : f.index # proc[p].cur.index}
  /\ sealed' = SealAs(proc[p].cur)

RenameSealed(p) ==
  LET s == proc[p].cur IN
  /\ proc[p].pc = "rename"
  /\ Renamed(p)
  /\ proc' = [proc EXCEPT ![p].pc = proc[p].then,
                          ![p].cur = NoSegment, ![p].next = s.index + 1,
                          ![p].prev = [index |-> s.index, prev |-> s.prev, events |-> s.events]]
  /\ UNCHANGED <<preserved, acked, appended, faults>>

Sealed(p) ==
  /\ proc[p].pc = "sealed"
  /\ proc' = [proc EXCEPT ![p].pc = "run", ![p].sealed = TRUE]
  /\ UNCHANGED <<sealed, open, preserved, acked, appended, faults>>

Create(p) ==
  /\ proc[p].pc = "create" /\ \A f \in open : f.index # proc[p].next
  /\ open' = open \union {[index |-> proc[p].next, header |-> FALSE, prev |-> NoHash, events |-> <<>>]}
  /\ proc' = [proc EXCEPT ![p].pc = "header"]
  /\ UNCHANGED <<sealed, preserved, acked, appended, faults>>

WriteHeader(p) ==
  LET s == proc[p] IN
  /\ s.pc = "header"
  /\ open' = {IF f.index = s.next THEN [f EXCEPT !.header = TRUE, !.prev = s.prev] ELSE f : f \in open}
  /\ proc' = [proc EXCEPT ![p].pc = "write",
                          ![p].cur = [index |-> s.next, prev |-> s.prev, events |-> <<>>, flushed |-> 0]]
  /\ UNCHANGED <<sealed, preserved, acked, appended, faults>>

WriteEvent(p) ==
  LET s == proc[p]
      events == s.cur.events \o s.todo
      flush == Len(events) - s.cur.flushed >= FlushEvery
  IN
  /\ s.pc = "write"
  /\ open' = IF flush THEN Written(p, events) ELSE open
  /\ acked' = acked \union ToSet(s.todo)
  /\ proc' = [proc EXCEPT ![p].pc = "run", ![p].seq = @ + 1, ![p].todo = <<>>,
                          ![p].mine = @ \union ToSet(s.todo),
                          ![p].cur = [s.cur EXCEPT !.events = events,
                                                   !.flushed = IF flush THEN Len(events) ELSE @]]
  /\ UNCHANGED <<sealed, preserved, appended, faults>>

-----------------------------------------------------------------------------
(* Failures.  The writer's buffer may reach the file at any point from the *)
(* last flush on, also the line of the event being appended.               *)

Buffered(p) ==
  LET s == proc[p] IN
  IF s.cur = NoSegment \/ s.pc = "rebuilding" THEN {open}
  ELSE LET events == IF s.pc = "write" THEN s.cur.events \o s.todo ELSE s.cur.events
       IN {Written(p, SubSeq(events, 1, n)) : n \in s.cur.flushed .. Len(events)}

Degrade(p) == [proc EXCEPT ![p].pc = "run", ![p].cur = NoSegment, ![p].degraded = TRUE, ![p].todo = <<>>]

(* An I/O error in append, checkpoint or seal: the ledger marks the store  *)
(* degraded, whatever was left to do.                                      *)
Fails(p) ==
  /\ proc[p].pc \in {"footer", "rename", "create", "header", "write"} /\ faults < MaxFaults
  /\ faults' = faults + 1
  /\ \/ open' \in Buffered(p) /\ UNCHANGED sealed
     \/ proc[p].pc = "rename" /\ Renamed(p)    \* renamed, but not read back for its hash
  /\ proc' = Degrade(p)
  /\ UNCHANGED <<preserved, acked, appended>>

RecoveryFails(p) ==
  /\ proc[p].pc = "rebuilding" /\ faults < MaxFaults
  /\ faults' = faults + 1
  /\ proc' = [proc EXCEPT ![p] = Down]
  /\ UNCHANGED <<sealed, open, preserved, acked, appended>>

Crash(p) ==
  /\ proc[p].pc # "down" /\ faults < MaxFaults
  /\ faults' = faults + 1
  /\ open' \in Buffered(p)
  /\ proc' = [proc EXCEPT ![p] = Down]
  /\ UNCHANGED <<sealed, preserved, acked, appended>>

(* Drop: a healthy store seals first; a degraded one leaves its file.      *)
Close(p) ==
  \/ StartSeal(p, "drop")
  \/ /\ proc[p].pc = "drop" \/ (proc[p].pc = "run" /\ ~Healthy(p))
     /\ proc' = [proc EXCEPT ![p] = Down]
     /\ UNCHANGED <<sealed, open, preserved, acked, appended, faults>>

Next ==
  \E p \in Procs :
    \/ Lock(p) \/ OpenRefused(p) \/ OpenClean(p) \/ Preserve(p) \/ Rebuild(p) \/ Load(p)
    \/ AppendEvent(p) \/ Checkpoint(p) \/ Seal(p) \/ Close(p)
    \/ WriteFooter(p) \/ RenameSealed(p) \/ Sealed(p)
    \/ Create(p) \/ WriteHeader(p) \/ WriteEvent(p)
    \/ Fails(p) \/ RecoveryFails(p) \/ Crash(p)

Spec == Init /\ [][Next]_storeVars

-----------------------------------------------------------------------------
Event == [seq : 1 .. MaxEvents, id : 1 .. MaxEvents]
EventSeq(s) == \A e \in ToSet(s) : e \in Event

TypeOK ==
  /\ \A s \in sealed : s.index \in Nat /\ EventSeq(s.events)
  /\ \A s, t \in sealed : s.index = t.index => s = t
  /\ \A f \in open \union preserved : f.index \in Nat /\ f.header \in BOOLEAN /\ EventSeq(f.events)
  /\ \A p \in Procs :
       /\ proc[p].pc \in {"down", "opening", "rebuilding", "loaded", "run", "create", "header",
                         "write", "footer", "rename", "sealed", "drop"}
       /\ proc[p].degraded \in BOOLEAN /\ proc[p].sealed \in BOOLEAN
       /\ proc[p].next \in Nat /\ proc[p].seq \in Nat /\ EventSeq(proc[p].todo)
       /\ proc[p].cur # NoSegment => Len(proc[p].cur.events) <= SegmentMax
  /\ acked \subseteq Event /\ appended \in 0 .. MaxEvents /\ faults \in 0 .. MaxFaults

SealedEvents == UNION {ToSet(s.events) : s \in sealed}
OnDisk == SealedEvents \union UNION {ToSet(f.events) : f \in open \union preserved}
InMemory == UNION {ToSet(proc[p].cur.events) : p \in {q \in Procs : proc[q].cur # NoSegment}}

(* The sealed segments form one chain whoever wrote them, after any number *)
(* of crashes: in index order each carries the hash of the one before it,  *)
(* and the sequence numbers run on from 1 with no hole and no repetition.  *)
(* (seal_current, recover_open_segment, SegmentStore::open)                *)
ChainLinked ==
  LET before(s) == {t \in sealed : t.index < s.index}
      last(S) == CHOOSE t \in S : \A u \in S : u.index <= t.index
      first(s) == IF before(s) = {} THEN 1
                  ELSE 1 + Cardinality(UNION {ToSet(t.events) : t \in before(s)})
  IN \A s \in sealed :
       /\ s.prev = IF before(s) = {} THEN NoHash ELSE last(before(s))
       /\ \A i \in DOMAIN s.events : s.events[i].seq = first(s) + i - 1

(* An event the store acknowledged is in some file or in its writer's      *)
(* buffer, except that each crash or error may cost what was not flushed:  *)
(* nothing is deleted or overwritten, by recovery or by another process.   *)
(* (append's flush_every_events, recover_open_segment, SessionLock)        *)
EvidenceKept == Cardinality(acked \ (OnDisk \union InMemory)) <= faults * (FlushEvery - 1)

(* A checkpoint, a rotation or a seal that succeeded leaves nothing this   *)
(* process acknowledged outside sealed segments.                           *)
(* (seal_current, checkpoint, seal)                                        *)
CheckpointSeals ==
  \A p \in Procs :
    proc[p].pc \in {"run", "create", "drop"} /\ ~proc[p].degraded /\ proc[p].cur = NoSegment
      => proc[p].mine \subseteq SealedEvents

(* EVENTS.md on crash recovery at start-up: it "seals the complete valid   *)
(* prefix into a new .omslog segment".  So what an earlier process had     *)
(* acknowledged and flushed is in sealed segments once a process has       *)
(* opened the session.                                                     *)
RecoverySealsPrefix ==
  \A p \in Procs :
    proc[p].pc = "run" /\ FlushEvery = 1 => acked \ proc[p].mine \subseteq SealedEvents

=============================================================================
