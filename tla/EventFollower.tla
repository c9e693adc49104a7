---------------------------- MODULE EventFollower ----------------------------
(***************************************************************************)
(* The HTTP and WebSocket event API over one ledger session, and a client  *)
(* that follows the session through it: pages by cursor (from the ring,    *)
(* else from a checkpoint of the store), the live stream with its snapshot,*)
(* and the export.  A client does what EVENTS.md asks of it: it keeps the  *)
(* cursor it was given, catches up by pages after a 410, a stream gap or a *)
(* lost connection, and streams again once a page says there is no more.   *)
(***************************************************************************)
EXTENDS EventLedger

CONSTANTS
  Clients,        \* clients that follow the session
  Bounds,         \* values of through_seq a client may ask for, 0 = none
  Hit, Miss,      \* events the filter matches, and the others
  PageLimit,      \* the limit of a page
  SnapshotLimit   \* the limit of a stream's snapshot

ASSUME FollowerAssumption ==
  /\ Bounds \subseteq Nat /\ Hit # Miss
  /\ PageLimit \in Nat \ {0} /\ SnapshotLimit \in Nat \ {0}

VARIABLE follower  \* each client, and where its request is

apiVars == <<log, oldest, persistence, stored, readable, closed, faults, follower>>

(* cursor, got, whole: what the client knows (how far, which events, and   *)
(* up to where it was told there is no more).  high: the newest seq its    *)
(* request read.  next: its place in the live channel.  sent: the server's *)
(* own cursor.                                                             *)
NewFollowers ==
  [pc : {"idle"}, want : {"page", "stream"}, through : Bounds, cursor : {0}, got : {<<>>}, whole : {0},
   high : {0}, next : {0}, sent : {0}]

Init ==
  /\ LedgerInit
  /\ follower \in [Clients -> NewFollowers]

Write == \E event \in {Hit, Miss} : AppendEvent(event) /\ UNCHANGED follower
SealLedger == Seal /\ UNCHANGED follower

Matches(n) == log[n] = Hit
Upper(c, newest) == IF follower[c].through = 0 THEN newest ELSE follower[c].through

(* The events of a set, oldest first, as a page or a snapshot lists them. *)
Rising(events) == \A i, j \in DOMAIN events : i < j => events[i] < events[j]
InOrder(seqs) == CHOOSE events \in [1 .. Cardinality(seqs) -> seqs] : Rising(events)

-----------------------------------------------------------------------------
(* Ledger::query and page_from_persisted: one page of the events first ..  *)
(* last after a cursor, when the session's newest is `newest'.             *)
Incomplete(first, last, newest, after) ==
  newest >= after + 1 /\ (first > last \/ after + 1 < first)

Candidates(first, last, after, upper) ==
  {n \in first .. last : n > after /\ n <= upper}
Hits(first, last, after, upper, limit) ==
  LET hits == {n \in Candidates(first, last, after, upper) : Matches(n)}
  IN {n \in hits : Cardinality({m \in hits : m <= n}) <= limit}

NextAfter(first, last, after, upper, limit) ==
  LET hits == Hits(first, last, after, upper, limit)
  IN IF Cardinality(hits) = limit THEN Max(hits)
     ELSE Max(Candidates(first, last, after, upper) \union {after})
HasMoreUnlessFull(first, last, after, upper, limit) ==  \* mutant: a full page never says there is more
  /\ Cardinality(Hits(first, last, after, upper, limit)) < limit
  /\ \E n \in first .. last : NextAfter(first, last, after, upper, limit) < n /\ n <= upper /\ Matches(n)
HasMore(first, last, after, upper, limit) ==
  \E n \in first .. last : NextAfter(first, last, after, upper, limit) < n /\ n <= upper /\ Matches(n)

(* A request is over, and its answer makes the client ask for `want' next. *)
Over(f, want) == [f EXCEPT !.pc = "idle", !.want = want, !.high = 0, !.next = 0, !.sent = 0]

(* The client takes a page in. *)
TakePage(c, first, last, newest) ==
  LET f == follower[c]
      upper == Upper(c, newest)
      more == HasMore(first, last, f.cursor, upper, PageLimit)
  IN follower' = [follower EXCEPT ![c] =
       IF Incomplete(first, last, newest, f.cursor) THEN Over(f, "page")
       ELSE [Over(f, IF more THEN "page" ELSE "stream") EXCEPT
               !.got = @ \o InOrder(Hits(first, last, f.cursor, upper, PageLimit)),
               !.cursor = NextAfter(first, last, f.cursor, upper, PageLimit),
               !.whole = IF more THEN @ ELSE Min({upper, newest})]]

Done(c) == follower[c].through # 0 /\ follower[c].cursor >= follower[c].through

(* authoritative_event_page: the ring answers unless it has lost the       *)
(* cursor and there is a store to ask instead.                             *)
QueryRingOnly(c) ==  \* mutant: an evicted cursor is never looked up in the store
  /\ follower[c].pc = "idle" /\ follower[c].want = "page" /\ ~Done(c)
  /\ TakePage(c, oldest, Newest, Newest)
  /\ UNCHANGED ledgerVars

QueryRing(c) ==
  /\ follower[c].pc = "idle" /\ follower[c].want = "page" /\ ~Done(c)
  /\ IF Incomplete(oldest, Newest, Newest, follower[c].cursor) /\ HasStore
     THEN follower' = [follower EXCEPT ![c].pc = "checkpoint", ![c].high = Newest]
     ELSE TakePage(c, oldest, Newest, Newest)
  /\ UNCHANGED ledgerVars

PageCheckpoint(c) ==
  /\ follower[c].pc = "checkpoint"
  /\ \/ Checkpoint /\ follower' = [follower EXCEPT ![c].pc = "read"]
     \/ CheckpointFails /\ follower' = [follower EXCEPT ![c] = Over(@, "page")]

ReadPersisted(c) ==
  /\ follower[c].pc = "read"
  /\ TakePage(c, 1, readable, follower[c].high)
  /\ UNCHANGED ledgerVars

-----------------------------------------------------------------------------
(* events_stream: subscribe, then the high-water mark, then the snapshot.  *)
Subscribe(c) ==
  /\ follower[c].pc = "idle" /\ follower[c].want = "stream" /\ ~Done(c)
  /\ follower' = [follower EXCEPT ![c].pc = "subscribed", ![c].next = Newest + 1]
  /\ UNCHANGED ledgerVars

HighWater(c) ==
  /\ follower[c].pc = "subscribed"
  /\ follower' = [follower EXCEPT ![c].pc = "measured", ![c].high = Newest]
  /\ UNCHANGED ledgerVars

(* A snapshot the ring cannot give in full is answered 410.                *)
Snapshot(c) ==
  LET f == follower[c]
      upper == Min({Upper(c, f.high), f.high})
      refused == \/ Incomplete(oldest, Newest, Newest, f.cursor)
                 \/ HasMore(oldest, Newest, f.cursor, upper, SnapshotLimit)
      sent == InOrder(Hits(oldest, Newest, f.cursor, upper, SnapshotLimit))
  IN /\ f.pc = "measured"
     /\ follower' = [follower EXCEPT ![c] =
          IF refused THEN Over(f, "page")
          ELSE [f EXCEPT !.pc = "streaming", !.high = 0, !.got = @ \o sent,
                         !.cursor = IF sent = <<>> THEN @ ELSE Last(sent),
                         !.sent = NextAfter(oldest, Newest, f.cursor, upper, SnapshotLimit)]]
     /\ UNCHANGED ledgerVars

Ended(c) == follower[c].through # 0 /\ follower[c].sent >= follower[c].through

RecvTwice(c) ==  \* mutant: a live event the snapshot already held is sent again
  LET f == follower[c] IN
  /\ f.pc = "streaming" /\ ~Ended(c) /\ Pending(f.next) /\ ~Lagged(f.next)
  /\ follower' = [follower EXCEPT ![c] =
       IF Matches(f.next) THEN [f EXCEPT !.sent = f.next, !.next = @ + 1, !.got = Append(@, f.next), !.cursor = f.next]
       ELSE [f EXCEPT !.sent = f.next, !.next = @ + 1]]
  /\ UNCHANGED ledgerVars

Recv(c) ==
  LET f == follower[c]
      new == f.next > f.sent
      hit == new /\ Matches(f.next) /\ (follower[c].through = 0 \/ f.next <= follower[c].through)
  IN /\ f.pc = "streaming" /\ ~Ended(c) /\ Pending(f.next) /\ ~Lagged(f.next)
     /\ follower' = [follower EXCEPT ![c] =
          [f EXCEPT !.next = @ + 1, !.sent = IF new THEN f.next ELSE @,
                    !.got = IF hit THEN Append(@, f.next) ELSE @,
                    !.cursor = IF hit THEN f.next ELSE @]]
     /\ UNCHANGED ledgerVars

(* ohmyserial.stream-gap: the client learns the server's cursor.           *)
StreamGap(c) ==
  LET f == follower[c] IN
  /\ f.pc = "streaming" /\ ~Ended(c) /\ Lagged(f.next)
  /\ follower' = [follower EXCEPT ![c] = [Over(f, "page") EXCEPT !.cursor = f.sent]]
  /\ UNCHANGED ledgerVars

StreamCloses(c) ==
  /\ follower[c].pc = "streaming" /\ Ended(c)
  /\ follower' = [follower EXCEPT ![c] = Over(@, "page")]
  /\ UNCHANGED ledgerVars

Drop(c) ==
  /\ follower[c].pc # "idle" /\ faults < MaxFaults
  /\ faults' = faults + 1
  /\ follower' = [follower EXCEPT ![c] = Over(@, "page")]
  /\ UNCHANGED <<log, oldest, persistence, stored, readable, closed>>

-----------------------------------------------------------------------------
(* events_export: everything through the newest event when it was asked    *)
(* for (`high'), from the store when there is one, else from the ring.     *)
(* `sent' is how much of the session the client was given.                 *)
ExportStart(c) ==
  /\ follower[c].pc = "idle"
  /\ follower' = [follower EXCEPT ![c].pc = IF HasStore THEN "export" ELSE "export_ring", ![c].high = Newest]
  /\ UNCHANGED ledgerVars

ExportCheckpoint(c) ==
  /\ follower[c].pc = "export"
  /\ \/ Checkpoint /\ follower' = [follower EXCEPT ![c].pc = "export_read"]
     \/ CheckpointFails /\ follower' = [follower EXCEPT ![c] = Over(@, @.want)]

ExportRead(c) ==
  /\ follower[c].pc = "export_read"
  /\ follower' = [follower EXCEPT ![c].pc = "exported", ![c].sent = readable]
  /\ UNCHANGED ledgerVars

ExportRingPartial(c) ==  \* mutant: what the ring still holds is exported as if it were everything
  /\ follower[c].pc = "export_ring"
  /\ follower' = [follower EXCEPT ![c].pc = "exported", ![c].sent = Cardinality(oldest .. follower[c].high)]
  /\ UNCHANGED ledgerVars

ExportRing(c) ==
  /\ follower[c].pc = "export_ring"
  /\ follower' = [follower EXCEPT ![c] =
       IF Incomplete(oldest, Newest, Newest, 0) \/ @.high > SnapshotLimit THEN Over(@, @.want)
       ELSE [@ EXCEPT !.pc = "exported", !.sent = Cardinality(oldest .. follower[c].high)]]
  /\ UNCHANGED ledgerVars

ExportEnds(c) ==
  /\ follower[c].pc = "exported"
  /\ follower' = [follower EXCEPT ![c] = Over(@, @.want)]
  /\ UNCHANGED ledgerVars

-----------------------------------------------------------------------------
ClientStep(c) ==
  \/ QueryRing(c) \/ PageCheckpoint(c) \/ ReadPersisted(c)
  \/ Subscribe(c) \/ HighWater(c) \/ Snapshot(c) \/ Recv(c) \/ StreamGap(c) \/ StreamCloses(c)
ExportStep(c) == ExportCheckpoint(c) \/ ExportRead(c) \/ ExportRing(c) \/ ExportEnds(c)

Next ==
  \/ Write \/ SealLedger
  \/ \E c \in Clients : ClientStep(c) \/ ExportStep(c) \/ ExportStart(c) \/ Drop(c)

(* A request that was sent is served; a client that may ask for pages or   *)
(* the stream does so again and again, whatever it exports in between.     *)
Spec == Init /\ [][Next]_apiVars
FairSpec == Spec /\ \A c \in Clients : SF_apiVars(ClientStep(c)) /\ WF_apiVars(ExportStep(c))

-----------------------------------------------------------------------------
(* The ledger's types (the ring never holds more than it may) and the      *)
(* followers'.                                                             *)
TypeOK ==
  /\ LedgerTypeOK
  /\ \A c \in Clients :
       LET f == follower[c] IN
       /\ f.pc \in {"idle", "checkpoint", "read", "subscribed", "measured", "streaming",
                    "export", "export_read", "export_ring", "exported"}
       /\ f.want \in {"page", "stream"}
       /\ {f.cursor, f.whole, f.high} \subseteq 0 .. MaxEvents

(* Whatever was evicted, checkpointed, lagged or lost on the way, the      *)
(* client has the matching events up to its cursor, each once, in order;   *)
(* while it streams, up to the server's cursor (api.rs: pages, snapshot,   *)
(* live events and the stream gap meet without a hole or an overlap).      *)
Known(c) ==
  LET f == follower[c]
      cursor == IF f.pc = "streaming" THEN Max({f.cursor, f.sent}) ELSE f.cursor
  IN IF f.through = 0 THEN cursor ELSE Min({cursor, f.through})
FollowsExactly ==
  \A c \in Clients :
    /\ Rising(follower[c].got)
    /\ ToSet(follower[c].got) = {n \in 1 .. Newest : Matches(n) /\ n <= Known(c)}

(* A page without has_more leaves nothing out: no matching event after its *)
(* cursor, up to the newest one when it was asked for.                     *)
NoMoreMeansNoMore ==
  \A c \in Clients : \A n \in 1 .. follower[c].whole : Matches(n) => n <= Known(c)

(* A successful export has every event there was when it was asked for.    *)
ExportComplete ==
  \A c \in Clients : follower[c].pc = "exported" => follower[c].sent >= follower[c].high

(* As long as the store works and the session is not sealed, a client that *)
(* keeps asking has everything in the end: no filter, no eviction and no   *)
(* lag traps it.                                                           *)
CaughtUp(c) ==
  LET upper == IF follower[c].through = 0 THEN Newest ELSE Min({follower[c].through, Newest})
  IN \A n \in 1 .. upper : Matches(n) => Contains(follower[c].got, n)
Follows ==
  <>[](persistence = "active") => \A c \in Clients : <>[]CaughtUp(c)
=============================================================================
